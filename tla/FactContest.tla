---------------------------- MODULE FactContest ----------------------------
(***************************************************************************)
(* The standing of facts in x/knowledge with claim integrity on: how       *)
(* verdicts on claims, contradictions and challenges move facts between    *)
(* VERIFIED, CONTESTED, CHALLENGED and DISPROVEN while metabolism moves    *)
(* them between ACTIVE, AT_RISK, EXPIRED and PRUNED, and which texts are   *)
(* taken (the 0x09 content index).                                         *)
(*                                                                         *)
(* A claim and the fact it may become share one identifier.  Relation      *)
(* edges are read from the claim: they are stored when its fact is born    *)
(* and never change.  Reviews are abstract here (ReviewRound models them): *)
(* a pending claim gets any verdict in any later block.                    *)
(***************************************************************************)
EXTENDS Integers, FiniteSets

CONSTANTS
    Ids,           \* identifiers of claims and of the facts born from them
    Genesis,       \* the ones that are facts without a claim from the start
    GenesisDeps,   \* GenesisDeps[g]: the facts genesis fact g depends on
    Texts,         \* normalised texts, as their content hashes tell them apart
    MaxRelations,  \* MaxRelationsPerClaim
    EpochBlocks,   \* FitnessEpochBlocks
    MaxHeight      \* bound on the block height

None == "none"

ASSUME IdsAssumption ==
    /\ None \notin Ids
    /\ Genesis \subseteq Ids
    /\ GenesisDeps \in [Genesis -> SUBSET Genesis]
ASSUME BoundsAssumption ==
    /\ MaxRelations \in Nat
    /\ EpochBlocks \in Nat \ {0}
    /\ MaxHeight \in Nat \ {0}

VARIABLES
    height,
    stage,   \* "begin": BeginBlocker, "txs": the transactions of the block
    claim,   \* claim[c]
    fact,    \* fact[f]
    taken    \* taken[t]: the claim the content index names for text t

vars == <<height, stage, claim, fact, taken>>

-----------------------------------------------------------------------------
(* Records *)

Kinds == {"claim", "conjecture", "contradiction", "challenge"}

\* deps are the targets of cascade relations, target the fact a challenge or
\* a contradiction names.
NoClaim == [state |-> "absent", kind |-> "claim", target |-> None, deps |-> {},
            text |-> None, openedAt |-> 0]

\* atRisk: AtRiskSinceEpoch > 0.  fellAt and cutoff are what disprovenAt and
\* lastSurvivedAt find in the status history.  bornAt and decayed (ever at
\* risk) are history for the properties.
NoFact == [status |-> "NONE", atRisk |-> FALSE, fellAt |-> 0, cutoff |-> 0,
           bornAt |-> 0, decayed |-> FALSE]

Exists(f) == fact[f].status # "NONE"
IsConjecture(f) == claim[f].kind = "conjecture"

factStands(status) == status \in {"VERIFIED", "ACTIVE", "CONTESTED", "CHALLENGED", "AT_RISK"}

\* Slip: an expired counter-fact counts as fallen.
ExpiredHasFallen(status) == factStands(status)

\* An EXPIRED counter-fact can be revived, so it still holds its target.
counterFactStands(status) == factStands(status) \/ status = "EXPIRED"

\* Slips: a conjecture is restored like any fact; the status is left unset.
RestoredAsActive(f) == "ACTIVE"
RestoredUnset(f) == IF IsConjecture(f) THEN "PROVISIONAL" ELSE "UNSPECIFIED"

RestoredStatusFor(f) == IF IsConjecture(f) THEN "PROVISIONAL" ELSE "ACTIVE"

PendingChallenges(f) ==
    {c \in Ids : claim[c].state = "pending" /\ claim[c].kind = "challenge" /\ claim[c].target = f}

-----------------------------------------------------------------------------
(* Contest reasons, judged on the facts F *)

Contradicting(F, f) ==
    {k \in Ids : claim[k].kind = "contradiction" /\ claim[k].target = f /\ F[k].status # "NONE"}

\* R1
standingCounterFact(F, f) == \E k \in Contradicting(F, f) : counterFactStands(F[k].status)

\* R2: a dependency that fell at or after the opening of the last survived
\* challenge (cutoff 0: none survived).
refutedDependency(F, f, cutoff) ==
    \E d \in claim[f].deps :
        /\ F[d].status = "DISPROVEN"
        /\ cutoff = 0 \/ F[d].fellAt >= cutoff

contestReason(F, f, cutoff) == refutedDependency(F, f, cutoff) \/ standingCounterFact(F, f)

\* complete is FALSE when a read fails or the scan bound is reached: a check
\* that cannot finish never releases.
contestReasonRemains(F, f, cutoff, complete) == contestReason(F, f, cutoff) \/ ~complete

\* The status after a challenge that did not refute f.
challengeEndStatus(f, cutoff, complete) ==
    IF ~IsConjecture(f) /\ contestReasonRemains(fact, f, cutoff, complete)
    THEN "CONTESTED" ELSE RestoredStatusFor(f)

\* Slip: the end of any contradiction releases, as it did in knowledge 11.
ReleasedAlways(F, f, complete) ==
    IF F[f].status = "CONTESTED" THEN [F EXCEPT ![f].status = "VERIFIED"] ELSE F

\* releaseContested, for a target that may have lost its reason.
Released(F, f, complete) ==
    IF F[f].status = "CONTESTED" /\ ~contestReasonRemains(F, f, F[f].cutoff, complete)
    THEN [F EXCEPT ![f].status = IF IsConjecture(f) THEN "PROVISIONAL" ELSE "VERIFIED"]
    ELSE F

-----------------------------------------------------------------------------
(* Transactions *)

\* Slip: an expired fact gives up its text.
BlocksUntilExpired(c) ==
    \/ claim[c].state = "pending"
    \/ claim[c].state = "accepted" /\ fact[c].status \notin {"DISPROVEN", "PRUNED", "EXPIRED"}

\* factBlocksDedup for a fact, the claim's own status before there is one.
Blocks(c) ==
    \/ claim[c].state = "pending"
    \/ claim[c].state = "accepted" /\ fact[c].status \notin {"DISPROVEN", "PRUNED"}

blockingDuplicate(text) == taken[text] # None /\ Blocks(taken[text])

\* The claim is stored, its round opened, its text indexed on this first save.
Admit(c, kind, target, deps, text) ==
    /\ stage = "txs"
    /\ claim[c].state = "absent"
    /\ claim' = [claim EXCEPT ![c] = [state |-> "pending", kind |-> kind, target |-> target,
                                      deps |-> deps, text |-> text, openedAt |-> height]]
    /\ taken' = IF text = None THEN taken ELSE [taken EXCEPT ![text] = c]
    /\ UNCHANGED <<height, stage>>

SubmitClaim(c) ==
    \E text \in Texts, deps \in SUBSET {f \in Ids : Exists(f) /\ ~IsConjecture(f)} :
        /\ Cardinality(deps) <= MaxRelations
        /\ ~blockingDuplicate(text)
        /\ Admit(c, "claim", None, deps, text)
        /\ UNCHANGED fact

PostConjecture(c) ==
    \E text \in Texts :
        /\ ~blockingDuplicate(text)
        /\ Admit(c, "conjecture", None, {}, text)
        /\ UNCHANGED fact

\* Admission changes no fact: the target is contested on acceptance.
SubmitContradiction(c, f) ==
    \E text \in Texts :
        /\ Exists(f)
        /\ ~IsConjecture(f)
        /\ factStands(fact[f].status)
        /\ ~blockingDuplicate(text)
        /\ Admit(c, "contradiction", f, {}, text)
        /\ UNCHANGED fact

OpenChallenge(c, f) ==
    /\ Admit(c, "challenge", f, {}, None)
    /\ fact' = [fact EXCEPT ![f].status = "CHALLENGED"]

ChallengeFact(c, f) ==
    /\ fact[f].status \in {"VERIFIED", "ACTIVE", "CONTESTED"}
    /\ OpenChallenge(c, f)

\* The door is keyed on what the fact is, not on the status it has.
ChallengeProvisionalFact(c, f) ==
    /\ Exists(f)
    /\ IsConjecture(f) \/ fact[f].status = "PROVISIONAL"
    /\ fact[f].status \notin {"DISPROVEN", "PRUNED", "CHALLENGED"}
    /\ OpenChallenge(c, f)

\* PatronizeFact: the energy boost may lift a decayed fact over the threshold.
PatronizeFact(f) ==
    /\ stage = "txs"
    /\ ~IsConjecture(f)
    /\ fact[f].status \in {"AT_RISK", "EXPIRED"}
    /\ fact' = [fact EXCEPT ![f].status = RestoredStatusFor(f), ![f].atRisk = FALSE]
    /\ UNCHANGED <<height, stage, claim, taken>>

-----------------------------------------------------------------------------
(* Verdicts: completeRound, reached from AdvanceRoundPhases *)

Concludes(c, kinds, state) ==
    /\ stage = "begin"
    /\ claim[c].state = "pending"
    /\ claim[c].kind \in kinds
    /\ claim' = [claim EXCEPT ![c].state = state]
    /\ UNCHANGED <<height, stage, taken>>

\* createFactFromClaim
Born(c) ==
    [fact EXCEPT ![c] = [NoFact EXCEPT
        !.status = IF IsConjecture(c) THEN "PROVISIONAL" ELSE "VERIFIED", !.bornAt = height]]

AcceptClaim(c) ==
    /\ Concludes(c, {"claim", "conjecture"}, "accepted")
    /\ fact' = Born(c)

\* Slip: an accepted contradiction refutes its target.
RefuteTarget(F, f) ==
    IF F[f].status \in {"VERIFIED", "ACTIVE"} THEN [F EXCEPT ![f].status = "DISPROVEN"] ELSE F

\* contestAcceptedTargets: only an established target is contested.
ContestTarget(F, f) ==
    IF F[f].status \in {"VERIFIED", "ACTIVE"} THEN [F EXCEPT ![f].status = "CONTESTED"] ELSE F

AcceptContradiction(c) ==
    /\ Concludes(c, {"contradiction"}, "accepted")
    /\ fact' = ContestTarget(Born(c), claim[c].target)

\* The write records a fall only where it changes the status.
Fallen(F, f) ==
    [F EXCEPT ![f].status = "DISPROVEN",
              ![f].fellAt = IF F[f].status = "DISPROVEN" THEN @ ELSE height]

\* Slip: dependents under adjudication are contested too.
CascadedEvenChallenged(F, f) ==
    [x \in Ids |->
        IF f \in claim[x].deps /\ F[x].status \in {"VERIFIED", "ACTIVE", "AT_RISK", "CHALLENGED"}
        THEN [F[x] EXCEPT !.status = "CONTESTED"] ELSE F[x]]

\* cascadeFalsificationChecked: direct dependents, never a transitive one.
Cascaded(F, f) ==
    [x \in Ids |->
        IF f \in claim[x].deps /\ F[x].status \in {"VERIFIED", "ACTIVE", "AT_RISK"}
        THEN [F[x] EXCEPT !.status = "CONTESTED"] ELSE F[x]]

\* settleCounterFactTargets: what the fallen fact itself held contested.
CounterFactSettled(F, f, complete) ==
    IF claim[f].kind = "contradiction" THEN Released(F, claim[f].target, complete) ELSE F

\* handleChallengeDisproven; the challenge itself becomes a fact.
AcceptChallenge(c) ==
    LET f == claim[c].target
    IN  /\ Concludes(c, {"challenge"}, "accepted")
        /\ \E complete \in BOOLEAN :
              fact' = CounterFactSettled(Cascaded(Fallen(Born(c), f), f), f, complete)

\* handleChallengeSurvival, which does not look at the current status.  The
\* survival is recorded when the status changes.
RejectChallenge(c) ==
    LET f == claim[c].target
    IN  /\ Concludes(c, {"challenge"}, "ended")
        /\ \E complete \in BOOLEAN :
              LET end == challengeEndStatus(f, claim[c].openedAt, complete)
              IN  fact' = [fact EXCEPT
                     ![f].status = end, ![f].atRisk = FALSE,
                     ![f].cutoff = IF fact[f].status = end THEN @ ELSE claim[c].openedAt]

\* restoreChallengedFactOnInconclusive, for MALFORMED, INCONCLUSIVE and
\* starved challenges.
AbandonChallenge(c) ==
    LET f == claim[c].target
    IN  /\ Concludes(c, {"challenge"}, "ended")
        /\ IF fact[f].status = "CHALLENGED" /\ PendingChallenges(f) = {c}
           THEN \E complete \in BOOLEAN :
                   fact' = [fact EXCEPT
                      ![f].status = challengeEndStatus(f, fact[f].cutoff, complete),
                      ![f].atRisk = FALSE]
           ELSE UNCHANGED fact

\* settleContradictionTargets
EndContradiction(c) ==
    /\ Concludes(c, {"contradiction"}, "ended")
    /\ \E complete \in BOOLEAN : fact' = Released(fact, claim[c].target, complete)

EndClaim(c) ==
    /\ Concludes(c, {"claim", "conjecture"}, "ended")
    /\ UNCHANGED fact

-----------------------------------------------------------------------------
(* Blocks and epochs *)

\* Slip: a challenged fact still competes in its niche.
NicheMembersChallenged ==
    {f \in Ids : fact[f].status \in {"VERIFIED", "ACTIVE", "PROVISIONAL", "AT_RISK", "CHALLENGED"}}

NicheMembers ==
    {f \in Ids : fact[f].status \in {"VERIFIED", "ACTIVE", "PROVISIONAL", "AT_RISK"}}

\* ProcessCompetition: a niche that is too large loses all but its fittest.
Competed(pruned) ==
    [f \in Ids |-> IF f \in pruned THEN [fact[f] EXCEPT !.status = "PRUNED"] ELSE fact[f]]

\* ProcessMetabolism for one fact: energy above the threshold, or below it
\* for the first time, for some epochs, past the expiry and past the pruning
\* of the time at risk.
Energy == {"healthy", "low", "expired", "pruned"}

Metabolic == {"VERIFIED", "ACTIVE", "PROVISIONAL", "AT_RISK", "EXPIRED"}

Metabolized(rec, f, energy) ==
    IF energy = "healthy"
         THEN IF rec.atRisk THEN [rec EXCEPT !.atRisk = FALSE, !.status = RestoredStatusFor(f)]
              ELSE rec
    ELSE IF ~rec.atRisk
         THEN [rec EXCEPT !.atRisk = TRUE, !.status = "AT_RISK", !.decayed = TRUE]
    ELSE IF energy = "low" THEN rec
    ELSE [rec EXCEPT !.status = IF energy = "pruned" THEN "PRUNED" ELSE "EXPIRED"]

EpochWork ==
    /\ stage = "begin"
    /\ height % EpochBlocks = 0
    /\ stage' = "txs"
    /\ \E pruned \in SUBSET NicheMembers :
          /\ pruned = {} \/ NicheMembers \ pruned # {}
          /\ LET F == Competed(pruned)
                 alive == {f \in Ids : F[f].status \in Metabolic}
             IN  \E energy \in [alive -> Energy] :
                    fact' = [f \in Ids |-> IF f \in alive THEN Metabolized(F[f], f, energy[f])
                                           ELSE F[f]]
    /\ UNCHANGED <<height, claim, taken>>

BeginDone ==
    /\ stage = "begin"
    /\ height % EpochBlocks # 0
    /\ stage' = "txs"
    /\ UNCHANGED <<height, claim, fact, taken>>

NextBlock ==
    /\ stage = "txs"
    /\ height < MaxHeight
    /\ height' = height + 1
    /\ stage' = "begin"
    /\ UNCHANGED <<claim, fact, taken>>

-----------------------------------------------------------------------------
(* Specification *)

Init ==
    /\ height = 1
    /\ stage = "txs"
    /\ claim = [c \in Ids |-> IF c \in Genesis
                              THEN [NoClaim EXCEPT !.state = "accepted", !.deps = GenesisDeps[c]]
                              ELSE NoClaim]
    /\ fact = [f \in Ids |-> IF f \in Genesis THEN [NoFact EXCEPT !.status = "VERIFIED"] ELSE NoFact]
    /\ taken = [t \in Texts |-> None]

Tx ==
    \/ \E c \in Ids : SubmitClaim(c) \/ PostConjecture(c)
    \/ \E c, f \in Ids :
          \/ SubmitContradiction(c, f)
          \/ ChallengeFact(c, f)
          \/ ChallengeProvisionalFact(c, f)
    \/ \E f \in Ids : PatronizeFact(f)

Verdict(c) ==
    \/ AcceptClaim(c)
    \/ AcceptContradiction(c)
    \/ AcceptChallenge(c)
    \/ RejectChallenge(c)
    \/ AbandonChallenge(c)
    \/ EndContradiction(c)
    \/ EndClaim(c)

Next ==
    \/ Tx
    \/ \E c \in Ids : Verdict(c)
    \/ EpochWork
    \/ BeginDone
    \/ NextBlock

Spec == Init /\ [][Next]_vars

-----------------------------------------------------------------------------
(* Properties *)

Statuses == {"NONE", "PROVISIONAL", "VERIFIED", "ACTIVE", "CONTESTED", "CHALLENGED",
             "AT_RISK", "EXPIRED", "PRUNED", "DISPROVEN"}

ClaimType == [state : {"absent", "pending", "accepted", "ended"}, kind : Kinds,
              target : Ids \cup {None}, deps : SUBSET Ids, text : Texts \cup {None},
              openedAt : Nat]

FactType == [status : Statuses, atRisk : BOOLEAN, fellAt : Nat, cutoff : Nat, bornAt : Nat,
             decayed : BOOLEAN]

\* Every variable holds a value of the shape the stored records have.
TypeOK ==
    /\ height \in 1..MaxHeight
    /\ stage \in {"begin", "txs"}
    /\ claim \in [Ids -> ClaimType]
    /\ fact \in [Ids -> FactType]
    /\ taken \in [Texts -> Ids \cup {None}]

\* A fact is under adjudication exactly while one challenge of it is open.
\* The verdict handlers write the target without looking at its status, so
\* cascade, acceptances, metabolism and niche pruning must all pass it over.
ChallengedIffOpen ==
    \A f \in Ids : Cardinality(PendingChallenges(f)) = (IF fact[f].status = "CHALLENGED" THEN 1 ELSE 0)

\* An accepted fact that never decayed and reads VERIFIED or ACTIVE has no
\* accepted conflict left standing and no dependency refuted since it was
\* born and last survived: no order of shield challenges, late contradictions
\* and starved rounds launders it (challengeEndStatus, releaseContested).
Unopposed ==
    \A f \in Ids :
        fact[f].status \in {"VERIFIED", "ACTIVE"} /\ ~fact[f].decayed =>
            /\ ~standingCounterFact(fact, f)
            /\ \A d \in claim[f].deps :
                 fact[d].status = "DISPROVEN" /\ fact[d].fellAt > fact[f].bornAt =>
                    fact[f].cutoff # 0 /\ fact[d].fellAt < fact[f].cutoff

\* A conjecture never gets truth standing by any route: challenge, metabolic
\* recovery, patronage, contradiction or release.
QuestionStaysOpen ==
    \A f \in Ids : IsConjecture(f) => fact[f].status \notin {"VERIFIED", "ACTIVE", "CONTESTED"}

\* A fact is refuted only by an accepted direct challenge of it, never by a
\* contradiction, a cascade or decay.
RefutedByChallenge ==
    \A f \in Ids : fact[f].status = "DISPROVEN" =>
        \E c \in Ids : /\ claim[c].state = "accepted"
                       /\ claim[c].kind = "challenge"
                       /\ claim[c].target = f

\* No two records that are live or standing carry the same text: an entry
\* names only the latest record, so every earlier one must have ended for good
\* before the text was free again (blockingDuplicate, SetClaim).
NoTwin ==
    \A c, d \in Ids :
        c # d /\ claim[c].text # None /\ claim[c].text = claim[d].text => ~(Blocks(c) /\ Blocks(d))

\* DISPROVEN and PRUNED are final: no late verdict, patronage or epoch brings
\* a fallen fact back.
FallenForGood ==
    [][\A f \in Ids : fact[f].status \in {"DISPROVEN", "PRUNED"} =>
          fact'[f].status = fact[f].status]_vars

\* The claim-integrity document says an EXPIRED fact cannot be challenged and
\* so holds its text until it is revived or pruned.
ExpiredNotChallenged ==
    [][\A f \in Ids : fact[f].status = "EXPIRED" => fact'[f].status # "CHALLENGED"]_vars

=============================================================================
