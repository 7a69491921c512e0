------------------------- MODULE FactContestProofs -------------------------
(* Proofs about FactContest, for every set of identifiers and texts, every  *)
(* genesis and every value of the other constants.                          *)
EXTENDS FactContest, FiniteSetTheorems, TLAPS

-----------------------------------------------------------------------------
(* The inductive invariant *)

Pleads(kind) == kind \in {"contradiction", "challenge"}

\* Facts are born with the acceptance of their claim and never unborn; what a
\* claim names was a fact when it was admitted.
Shape ==
    \A c \in Ids :
        /\ Exists(c) <=> claim[c].state = "accepted"
        /\ claim[c].state = "absent" => claim[c] = NoClaim
        /\ claim[c].kind # "claim" => claim[c].deps = {}
        /\ \A d \in claim[c].deps : Exists(d)
        /\ Pleads(claim[c].kind) => claim[c].target \in Ids /\ Exists(claim[c].target)

Opens(c, f) == claim[c].state = "pending" /\ claim[c].kind = "challenge" /\ claim[c].target = f

\* ChallengedIffOpen without cardinalities.
OneOpen ==
    /\ \A c, f \in Ids : Opens(c, f) => fact[f].status = "CHALLENGED"
    /\ \A c, d, f \in Ids : Opens(c, f) /\ Opens(d, f) => c = d
    /\ \A f \in Ids : fact[f].status = "CHALLENGED" => \E c \in Ids : Opens(c, f)

\* Only questions are provisional.
OnlyQuestions == \A f \in Ids : fact[f].status = "PROVISIONAL" => IsConjecture(f)

\* The marks of decay stay on a fact.
DecayMarked ==
    \A f \in Ids : fact[f].atRisk \/ fact[f].status \in {"AT_RISK", "EXPIRED"} => fact[f].decayed

\* Falls are recorded at the height they happen.
FellBefore == \A f \in Ids : fact[f].fellAt <= height

\* The index names the record that holds a text, not just the last one.
Indexed ==
    \A c \in Ids : claim[c].text # None /\ Blocks(c) => taken[claim[c].text] = c

IInv ==
    /\ TypeOK
    /\ Shape
    /\ OneOpen
    /\ OnlyQuestions
    /\ QuestionStaysOpen
    /\ DecayMarked
    /\ FellBefore
    /\ Unopposed
    /\ RefutedByChallenge
    /\ Indexed

\* FallenForGood of one step.
StaysFallen ==
    \A f \in Ids : fact[f].status \in {"DISPROVEN", "PRUNED"} =>
        fact'[f].status = fact[f].status

-----------------------------------------------------------------------------
(* What a step leaves of the records *)

\* The stored fields of a claim other than its state, and of a fact other than
\* its status, are read through these.
LEMMA Typed ==
    ASSUME TypeOK, NEW x \in Ids
    PROVE  /\ claim[x] \in ClaimType
           /\ claim[x].deps \subseteq Ids
           /\ fact[x] \in FactType
           /\ fact[x].status \in Statuses
           /\ fact[x].fellAt \in Nat /\ fact[x].cutoff \in Nat /\ fact[x].bornAt \in Nat
           /\ fact[x].atRisk \in BOOLEAN /\ fact[x].decayed \in BOOLEAN
           /\ claim[x].openedAt \in Nat
           /\ height \in Nat
  BY BoundsAssumption DEF TypeOK, ClaimType, FactType

\* An identifier that is not a fact is in no claim's plea or dependencies.
LEMMA Unnamed ==
    ASSUME Shape, NEW c \in Ids, ~Exists(c), NEW x \in Ids
    PROVE  /\ c \notin claim[x].deps
           /\ Pleads(claim[x].kind) => claim[x].target # c
  BY DEF Shape

\* A contradiction that became a fact holds its target until it has fallen.
LEMMA CounterFacts ==
    ASSUME TypeOK, OnlyQuestions, NEW k \in Ids, claim[k].kind = "contradiction"
    PROVE  counterFactStands(fact[k].status) <=>
               fact[k].status \notin {"NONE", "DISPROVEN", "PRUNED"}
  BY Typed DEF OnlyQuestions, IsConjecture, counterFactStands, factStands, Statuses

\* What an admission stores.
LEMMA Admitted ==
    ASSUME IInv, NEW c \in Ids, NEW kind \in Kinds, NEW target \in Ids \cup {None},
           NEW deps \in SUBSET Ids, NEW text \in Texts \cup {None},
           Admit(c, kind, target, deps, text)
    PROVE  /\ claim' \in [Ids -> ClaimType]
           /\ taken' \in [Texts -> Ids \cup {None}]
           /\ \A x \in Ids : x # c => claim'[x] = claim[x]
           /\ claim'[c] = [state |-> "pending", kind |-> kind, target |-> target,
                           deps |-> deps, text |-> text, openedAt |-> height]
           /\ claim[c] = NoClaim /\ ~Exists(c)
           /\ height' = height /\ stage' = stage
  <1>1. /\ claim \in [Ids -> ClaimType] /\ taken \in [Texts -> Ids \cup {None}]
        /\ height \in Nat
    BY BoundsAssumption DEF IInv, TypeOK
  <1>2. [state |-> "pending", kind |-> kind, target |-> target, deps |-> deps, text |-> text,
         openedAt |-> height] \in ClaimType
    BY <1>1 DEF ClaimType
  <1>3. claim[c] = NoClaim /\ ~Exists(c)
    BY DEF IInv, Shape, Admit
  <1>. QED
    BY <1>1, <1>2, <1>3 DEF Admit

\* An admission that touches no fact: a claim, a conjecture, a contradiction.
LEMMA Filed ==
    ASSUME IInv, NEW c \in Ids, NEW kind \in Kinds, NEW target \in Ids \cup {None},
           NEW deps \in SUBSET Ids, NEW text \in Texts,
           Admit(c, kind, target, deps, text), fact' = fact,
           kind # "challenge", ~blockingDuplicate(text),
           kind # "claim" => deps = {},
           \A d \in deps : Exists(d),
           kind = "contradiction" => target \in Ids /\ Exists(target)
    PROVE  IInv'
  <1>1. /\ claim' \in [Ids -> ClaimType]
        /\ taken' \in [Texts -> Ids \cup {None}]
        /\ \A x \in Ids : x # c => claim'[x] = claim[x]
        /\ claim'[c] = [state |-> "pending", kind |-> kind, target |-> target,
                        deps |-> deps, text |-> text, openedAt |-> height]
        /\ claim[c] = NoClaim /\ ~Exists(c)
        /\ height' = height /\ stage' = stage
    BY Admitted
  <1>2. /\ claim'[c].state = "pending" /\ claim'[c].kind = kind /\ claim'[c].target = target
        /\ claim'[c].deps = deps /\ claim'[c].text = text
        /\ claim[c].state = "absent" /\ claim[c].kind = "claim" /\ claim[c].deps = {}
        /\ fact[c].status = "NONE"
    BY <1>1 DEF NoClaim, Exists
  <1>3. TypeOK'
    BY <1>1 DEF IInv, TypeOK
  <1>4. Shape'
    BY <1>1, <1>2 DEF IInv, Shape, Exists, Pleads
  <1>5. OneOpen'
    BY <1>1, <1>2 DEF IInv, OneOpen, Opens
  <1>6. OnlyQuestions' /\ QuestionStaysOpen'
    BY <1>1, <1>2 DEF IInv, OnlyQuestions, QuestionStaysOpen, IsConjecture
  <1>7. DecayMarked' /\ FellBefore'
    BY <1>1 DEF IInv, DecayMarked, FellBefore
  <1>8. Unopposed'
    BY <1>1, <1>2 DEF IInv, Unopposed, standingCounterFact, Contradicting
  <1>9. RefutedByChallenge'
    BY <1>1, <1>2 DEF IInv, RefutedByChallenge
  <1>10. Indexed'
    <2>. SUFFICES ASSUME NEW x \in Ids, claim'[x].text # None, Blocks(x)'
                  PROVE  taken'[claim'[x].text] = x
      BY DEF Indexed
    <2>1. taken' = IF text = None THEN taken ELSE [taken EXCEPT ![text] = c]
      BY DEF Admit
    <2>2. CASE x = c
      BY <1>1, <1>2, <2>1, <2>2 DEF IInv, TypeOK
    <2>3. CASE x # c
      <3>1. claim'[x] = claim[x] /\ Blocks(x) /\ claim[x].text \in Texts
        BY <1>1, <2>3, Typed DEF Blocks, IInv, ClaimType
      <3>2. taken[claim[x].text] = x
        BY <3>1 DEF IInv, Indexed
      <3>3. claim[x].text # text
        BY <3>1, <3>2, IdsAssumption DEF blockingDuplicate
      <3>. QED
        BY <3>1, <3>2, <3>3, <2>1 DEF IInv, TypeOK
    <2>. QED
      BY <2>2, <2>3
  <1>. QED
    BY <1>3, <1>4, <1>5, <1>6, <1>7, <1>8, <1>9, <1>10 DEF IInv

\* An admission that puts its target under adjudication.
LEMMA Opened ==
    ASSUME IInv, NEW c \in Ids, NEW f \in Ids, OpenChallenge(c, f),
           Exists(f), fact[f].status \notin {"DISPROVEN", "PRUNED", "CHALLENGED"}
    PROVE  IInv'
  <1>1. /\ claim' \in [Ids -> ClaimType]
        /\ taken' \in [Texts -> Ids \cup {None}]
        /\ \A x \in Ids : x # c => claim'[x] = claim[x]
        /\ claim'[c] = [state |-> "pending", kind |-> "challenge", target |-> f,
                        deps |-> {}, text |-> None, openedAt |-> height]
        /\ claim[c] = NoClaim /\ ~Exists(c)
        /\ height' = height /\ stage' = stage
    BY Admitted DEF OpenChallenge, Kinds
  <1>2. /\ claim'[c].state = "pending" /\ claim'[c].kind = "challenge" /\ claim'[c].target = f
        /\ claim'[c].deps = {} /\ claim'[c].text = None
        /\ claim[c].state = "absent" /\ claim[c].kind = "claim" /\ claim[c].deps = {}
        /\ fact[c].status = "NONE" /\ f # c
    BY <1>1 DEF NoClaim, Exists
  <1>0. fact' = [fact EXCEPT ![f].status = "CHALLENGED"] /\ fact \in [Ids -> FactType]
    BY DEF OpenChallenge, IInv, TypeOK
  <1>3. fact' \in [Ids -> FactType] /\ \A x \in Ids : x # f => fact'[x] = fact[x]
    BY <1>0 DEF FactType, Statuses
  <1>4. /\ fact'[f].status = "CHALLENGED"
        /\ fact'[f].atRisk = fact[f].atRisk /\ fact'[f].decayed = fact[f].decayed
        /\ fact'[f].fellAt = fact[f].fellAt
    BY <1>0 DEF FactType
  <1>5. TypeOK'
    BY <1>1, <1>3 DEF IInv, TypeOK
  <1>6. Shape'
    <2>1. \A x \in Ids : fact'[x].status # "NONE" <=> fact[x].status # "NONE"
      BY <1>3, <1>4 DEF Exists
    <2>2. ASSUME NEW x \in Ids, x # c
          PROVE  /\ claim'[x] = claim[x] /\ claim[x].deps \subseteq Ids
                 /\ Exists(x) <=> claim[x].state = "accepted"
                 /\ claim[x].state = "absent" => claim[x] = NoClaim
                 /\ claim[x].kind # "claim" => claim[x].deps = {}
                 /\ \A d \in claim[x].deps : Exists(d)
                 /\ Pleads(claim[x].kind) => claim[x].target \in Ids /\ Exists(claim[x].target)
      BY <1>1, <2>2, Typed DEF IInv, Shape
    <2>. QED
      BY <1>2, <2>1, <2>2 DEF Shape, Exists, Pleads
  <1>7. OneOpen'
    BY <1>1, <1>2, <1>3, <1>4 DEF IInv, OneOpen, Opens
  <1>8. OnlyQuestions' /\ QuestionStaysOpen'
    BY <1>1, <1>2, <1>3, <1>4 DEF IInv, OnlyQuestions, QuestionStaysOpen, IsConjecture
  <1>9. DecayMarked' /\ FellBefore'
    BY <1>1, <1>3, <1>4 DEF IInv, DecayMarked, FellBefore
  <1>10. Unopposed'
    <2>1. \A k \in Ids : claim[k].kind = "contradiction" /\ counterFactStands(fact'[k].status)
                            => counterFactStands(fact[k].status)
      BY <1>3, <1>4, CounterFacts DEF IInv, Exists
    <2>. QED
      BY <1>1, <1>2, <1>3, <1>4, <2>1, Typed
         DEF IInv, Unopposed, standingCounterFact, Contradicting, counterFactStands, factStands
  <1>11. RefutedByChallenge'
    BY <1>1, <1>2, <1>3, <1>4 DEF IInv, RefutedByChallenge
  <1>12. Indexed'
    <2>1. taken' = taken
      BY DEF OpenChallenge, Admit
    <2>. QED
      BY <1>1, <1>2, <1>3, <1>4, <2>1 DEF IInv, Indexed, Blocks
  <1>. QED
    BY <1>5, <1>6, <1>7, <1>8, <1>9, <1>10, <1>11, <1>12 DEF IInv

-----------------------------------------------------------------------------
(* Verdicts *)

\* What a conclusion does to the claims: one pending claim leaves its state.
LEMMA Concluded ==
    ASSUME IInv, NEW c \in Ids, NEW kinds, NEW st \in {"accepted", "ended"},
           Concludes(c, kinds, st)
    PROVE  /\ claim' \in [Ids -> ClaimType]
           /\ \A x \in Ids : /\ claim'[x].kind = claim[x].kind
                             /\ claim'[x].target = claim[x].target
                             /\ claim'[x].deps = claim[x].deps
                             /\ claim'[x].text = claim[x].text
           /\ \A x \in Ids : x # c => claim'[x] = claim[x]
           /\ claim[c].state = "pending" /\ claim[c].kind \in kinds
           /\ claim'[c].state = st
           /\ fact[c].status = "NONE"
           /\ height' = height /\ stage' = stage /\ taken' = taken
  <1>1. claim \in [Ids -> ClaimType] /\ claim' = [claim EXCEPT ![c].state = st]
    BY DEF IInv, TypeOK, Concludes
  <1>2. /\ claim' \in [Ids -> ClaimType]
        /\ \A x \in Ids : /\ claim'[x].kind = claim[x].kind
                          /\ claim'[x].target = claim[x].target
                          /\ claim'[x].deps = claim[x].deps
                          /\ claim'[x].text = claim[x].text
        /\ \A x \in Ids : x # c => claim'[x] = claim[x]
        /\ claim'[c].state = st
    BY <1>1 DEF ClaimType
  <1>3. fact[c].status = "NONE"
    BY DEF Concludes, IInv, Shape, Exists
  <1>. QED
    BY <1>2, <1>3 DEF Concludes

\* What a verdict on c may do to a fact x other than the one it gives birth to:
\* marks of decay and of birth stay, a fallen fact stays fallen, adjudication
\* ends only for the target of c, and only there can a fact fall.
Ruled(c, x) ==
    /\ fact'[x].status = "NONE" <=> fact[x].status = "NONE"
    /\ fact'[x].bornAt = fact[x].bornAt
    /\ fact'[x].decayed = fact[x].decayed
    /\ fact'[x].atRisk => fact[x].atRisk
    /\ fact'[x].status \in {"AT_RISK", "EXPIRED"} => fact'[x].status = fact[x].status
    /\ fact[x].status \in {"DISPROVEN", "PRUNED"} => fact'[x].status = fact[x].status
    /\ fact'[x].status = "CHALLENGED" <=> fact[x].status = "CHALLENGED" /\ ~Opens(c, x)
    /\ fact'[x].status = "PROVISIONAL" => IsConjecture(x)
    /\ IsConjecture(x) => fact'[x].status \notin {"VERIFIED", "ACTIVE", "CONTESTED"}
    /\ fact'[x].status = "DISPROVEN" /\ fact[x].status # "DISPROVEN" =>
          Opens(c, x) /\ claim'[c].state = "accepted"
    /\ fact'[x].fellAt <= height

\* The fact an accepted claim gives birth to; a refused one stays unborn.
BornOrNot(c) ==
    /\ claim'[c].state = "accepted" =>
          /\ fact'[c].status = IF IsConjecture(c) THEN "PROVISIONAL" ELSE "VERIFIED"
          /\ fact'[c].bornAt = height
    /\ claim'[c].state = "ended" => fact'[c].status = "NONE"
    /\ fact'[c].atRisk => fact'[c].decayed
    /\ fact'[c].fellAt <= height

\* A verdict that rules in this way keeps every conjunct but Unopposed.
LEMMA RulingKeeps ==
    ASSUME IInv, NEW c \in Ids, NEW kinds, NEW st \in {"accepted", "ended"},
           Concludes(c, kinds, st),
           fact' \in [Ids -> FactType],
           BornOrNot(c), \A x \in Ids : x # c => Ruled(c, x),
           Unopposed'
    PROVE  IInv' /\ StaysFallen
  <1>1. /\ claim' \in [Ids -> ClaimType]
        /\ \A x \in Ids : /\ claim'[x].kind = claim[x].kind
                          /\ claim'[x].target = claim[x].target
                          /\ claim'[x].deps = claim[x].deps
                          /\ claim'[x].text = claim[x].text
        /\ \A x \in Ids : x # c => claim'[x] = claim[x]
        /\ claim[c].state = "pending" /\ claim[c].kind \in kinds
        /\ claim'[c].state = st
        /\ fact[c].status = "NONE"
        /\ height' = height /\ stage' = stage /\ taken' = taken
    BY Concluded
  <1>2. TypeOK'
    BY <1>1 DEF IInv, TypeOK
  <1>3. Shape'
    <2>1. \A x \in Ids : /\ fact[x].status # "NONE" => fact'[x].status # "NONE"
                         /\ fact'[x].status # "NONE" <=> claim'[x].state = "accepted"
      BY <1>1 DEF IInv, Shape, Exists, Ruled, BornOrNot
    <2>2. ASSUME NEW x \in Ids
          PROVE  /\ claim[x].deps \subseteq Ids
                 /\ claim'[x].state = "absent" => claim'[x] = NoClaim
                 /\ claim[x].kind # "claim" => claim[x].deps = {}
                 /\ \A d \in claim[x].deps : fact[d].status # "NONE"
                 /\ Pleads(claim[x].kind) =>
                       claim[x].target \in Ids /\ fact[claim[x].target].status # "NONE"
      BY <1>1, <2>2, Typed DEF IInv, Shape, Exists
    <2>. QED
      BY <1>1, <2>1, <2>2 DEF Shape, Exists, Pleads
  <1>4. OneOpen'
    <2>1. \A x \in Ids : fact'[x].status = "CHALLENGED" <=>
                            fact[x].status = "CHALLENGED" /\ ~Opens(c, x)
      BY <1>1 DEF Ruled, BornOrNot, IInv, OneOpen
    <2>2. \A x, f \in Ids : Opens(x, f)' <=> Opens(x, f) /\ x # c
      BY <1>1 DEF Opens
    <2>. QED
      BY <2>1, <2>2 DEF IInv, OneOpen
  <1>5. OnlyQuestions' /\ QuestionStaysOpen'
    BY <1>1 DEF OnlyQuestions, QuestionStaysOpen, IsConjecture, Ruled, BornOrNot
  <1>6. DecayMarked' /\ FellBefore'
    BY <1>1 DEF IInv, DecayMarked, FellBefore, Ruled, BornOrNot
  <1>7. RefutedByChallenge'
    <2>. SUFFICES ASSUME NEW x \in Ids, fact'[x].status = "DISPROVEN"
                  PROVE  \E d \in Ids : /\ claim'[d].state = "accepted"
                                        /\ claim'[d].kind = "challenge"
                                        /\ claim'[d].target = x
      BY DEF RefutedByChallenge
    <2>1. x # c
      BY <1>1 DEF BornOrNot
    <2>2. CASE fact[x].status = "DISPROVEN"
      BY <1>1, <2>2 DEF IInv, RefutedByChallenge
    <2>3. CASE fact[x].status # "DISPROVEN"
      BY <1>1, <2>1, <2>3 DEF Ruled, Opens
    <2>. QED
      BY <2>2, <2>3
  <1>8. Indexed'
    <2>1. \A x \in Ids : Blocks(x)' => Blocks(x)
      BY <1>1 DEF Blocks, Ruled
    <2>. QED
      BY <1>1, <2>1 DEF IInv, Indexed
  <1>9. StaysFallen
    BY <1>1 DEF Ruled, StaysFallen
  <1>. QED
    BY <1>2, <1>3, <1>4, <1>5, <1>6, <1>7, <1>8, <1>9 DEF IInv

\* The counter-facts that hold a target after a verdict held it before, but
\* for a contradiction that was just accepted.
LEMMA RulingCounterFacts ==
    ASSUME IInv, NEW c \in Ids, NEW kinds, NEW st \in {"accepted", "ended"},
           Concludes(c, kinds, st), fact' \in [Ids -> FactType],
           BornOrNot(c), \A x \in Ids : x # c => Ruled(c, x),
           NEW f \in Ids, standingCounterFact(fact, f)'
    PROVE  \/ standingCounterFact(fact, f)
           \/ st = "accepted" /\ claim[c].kind = "contradiction" /\ claim[c].target = f
  <1>1. /\ \A x \in Ids : /\ claim'[x].kind = claim[x].kind
                          /\ claim'[x].target = claim[x].target
        /\ claim'[c].state = st /\ fact[c].status = "NONE"
    BY Concluded
  <1>2. PICK k \in Ids : /\ claim[k].kind = "contradiction" /\ claim[k].target = f
                         /\ fact'[k].status # "NONE" /\ counterFactStands(fact'[k].status)
    BY <1>1 DEF standingCounterFact, Contradicting
  <1>3. CASE k = c
    BY <1>1, <1>2, <1>3 DEF BornOrNot
  <1>4. CASE k # c
    <2>1. fact[k].status \notin {"NONE", "DISPROVEN", "PRUNED"}
      BY <1>2, <1>4 DEF Ruled, counterFactStands, factStands
    <2>2. counterFactStands(fact[k].status)
      BY <1>2, <2>1, CounterFacts DEF IInv
    <2>. QED
      BY <1>2, <2>1, <2>2 DEF standingCounterFact, Contradicting
  <1>. QED
    BY <1>3, <1>4

\* Unopposed after a verdict: a fact that reads VERIFIED or ACTIVE was so before
\* and nothing it rests on fell, or was just cleared of every reason.
Cleared(x) ==
    /\ ~standingCounterFact(fact, x)'
    /\ \A d \in claim[x].deps : fact'[d].status = "DISPROVEN" =>
          fact'[x].cutoff # 0 /\ fact'[d].fellAt < fact'[x].cutoff

Undisturbed(c, x) ==
    /\ fact[x].status \in {"VERIFIED", "ACTIVE"}
    /\ fact'[x].cutoff = fact[x].cutoff
    /\ \A d \in claim[x].deps : fact'[d].status = "DISPROVEN" =>
          fact[d].status = "DISPROVEN" /\ fact'[d].fellAt = fact[d].fellAt
    /\ ~(claim'[c].state = "accepted" /\ claim[c].kind = "contradiction" /\ claim[c].target = x)

\* A verdict that leaves every established fact cleared or undisturbed leaves
\* none of them opposed.
LEMMA RulingUnopposed ==
    ASSUME IInv, NEW c \in Ids, NEW kinds, NEW st \in {"accepted", "ended"},
           Concludes(c, kinds, st), fact' \in [Ids -> FactType],
           BornOrNot(c), \A x \in Ids : x # c => Ruled(c, x),
           \A x \in Ids : x # c /\ fact'[x].status \in {"VERIFIED", "ACTIVE"} =>
              Cleared(x) \/ Undisturbed(c, x)
    PROVE  Unopposed'
  <1>1. /\ \A x \in Ids : /\ claim'[x].kind = claim[x].kind
                          /\ claim'[x].target = claim[x].target
                          /\ claim'[x].deps = claim[x].deps
        /\ claim'[c].state = st /\ fact[c].status = "NONE"
        /\ claim[c].state = "pending" /\ height' = height
    BY Concluded
  <1>. SUFFICES ASSUME NEW f \in Ids, fact'[f].status \in {"VERIFIED", "ACTIVE"},
                       ~fact'[f].decayed
                PROVE  /\ ~standingCounterFact(fact, f)'
                       /\ \A d \in claim'[f].deps :
                            fact'[d].status = "DISPROVEN" /\ fact'[d].fellAt > fact'[f].bornAt =>
                               fact'[f].cutoff # 0 /\ fact'[d].fellAt < fact'[f].cutoff
    BY DEF Unopposed
  <1>2. CASE f = c
    <2>1. st = "accepted" /\ fact'[f].bornAt = height
      BY <1>1, <1>2 DEF BornOrNot
    <2>2. ~Exists(c)
      BY <1>1 DEF Exists
    <2>3. \A k \in Ids : ~(claim[k].kind = "contradiction" /\ claim[k].target = c)
      BY <2>2, Unnamed DEF IInv, Pleads
    <2>4. ~standingCounterFact(fact, f)'
      BY <2>3, <1>1, <1>2 DEF standingCounterFact, Contradicting
    <2>5. \A d \in claim[c].deps : d \in Ids /\ d # c /\ fact'[d].fellAt <= height
      BY <2>2, Unnamed, Typed DEF IInv, Ruled
    <2>6. \A d \in Ids : fact'[d].fellAt \in Nat
      BY DEF FactType
    <2>. QED
      BY <2>1, <2>4, <2>5, <2>6, <1>1, <1>2, Typed DEF IInv
  <1>3. CASE f # c /\ Cleared(f)
    BY <1>1, <1>3 DEF Cleared
  <1>4. CASE f # c /\ Undisturbed(c, f)
    <2>1. ~standingCounterFact(fact, f)'
      <3>1. ~fact[f].decayed
        BY <1>4 DEF Ruled
      <3>2. ~standingCounterFact(fact, f)
        BY <3>1, <1>4 DEF Undisturbed, IInv, Unopposed
      <3>. QED
        BY <3>2, <1>1, <1>4, RulingCounterFacts DEF Undisturbed
    <2>. QED
      BY <1>1, <1>4, <2>1 DEF Undisturbed, Ruled, IInv, Unopposed
  <1>. QED
    BY <1>2, <1>3, <1>4

\* A verdict that leaves a fact's record alone.
LEMMA LeftAlone ==
    ASSUME IInv, NEW c \in Ids, NEW x \in Ids, fact'[x] = fact[x], ~Opens(c, x)
    PROVE  Ruled(c, x)
  BY Typed DEF Ruled, IInv, FellBefore, OnlyQuestions, QuestionStaysOpen

\* A claim that ends without a fact changes no standing.
LEMMA EndClaimKeeps ==
    ASSUME IInv, NEW c \in Ids, EndClaim(c)
    PROVE  IInv' /\ StaysFallen
  <1>1. /\ Concludes(c, {"claim", "conjecture"}, "ended")
        /\ claim[c].kind \in {"claim", "conjecture"}
        /\ claim'[c].state = "ended" /\ fact[c].status = "NONE"
        /\ fact' = fact
    BY Concluded DEF EndClaim
  <1>2. fact' \in [Ids -> FactType]
    BY <1>1 DEF IInv, TypeOK
  <1>3. BornOrNot(c)
    BY <1>1, Typed DEF BornOrNot, IInv, DecayMarked, FellBefore
  <1>4. \A x \in Ids : x # c => Ruled(c, x)
    BY <1>1, LeftAlone DEF Opens
  <1>5. \A x \in Ids : x # c /\ fact'[x].status \in {"VERIFIED", "ACTIVE"} =>
           Cleared(x) \/ Undisturbed(c, x)
    BY <1>1 DEF Undisturbed
  <1>. QED
    BY <1>1, <1>2, <1>3, <1>4, <1>5, RulingUnopposed, RulingKeeps

\* The record createFactFromClaim stores.
LEMMA BornFields ==
    ASSUME IInv, NEW c \in Ids
    PROVE  /\ Born(c) \in [Ids -> FactType]
           /\ \A x \in Ids : x # c => Born(c)[x] = fact[x]
           /\ Born(c)[c].status = IF IsConjecture(c) THEN "PROVISIONAL" ELSE "VERIFIED"
           /\ Born(c)[c].bornAt = height
           /\ Born(c)[c].atRisk = FALSE
           /\ Born(c)[c].fellAt = 0
  <1>1. fact \in [Ids -> FactType] /\ height \in Nat
    BY BoundsAssumption DEF IInv, TypeOK
  <1>. DEFINE status == IF IsConjecture(c) THEN "PROVISIONAL" ELSE "VERIFIED"
              born == [NoFact EXCEPT !.status = status, !.bornAt = height]
  <1>2. NoFact \in FactType /\ NoFact.atRisk = FALSE /\ NoFact.fellAt = 0
    BY DEF NoFact, FactType, Statuses
  <1>3. status \in Statuses
    BY DEF Statuses
  <1>. HIDE DEF status
  <1>4. /\ born \in FactType /\ born.status = status /\ born.bornAt = height
        /\ born.atRisk = FALSE /\ born.fellAt = 0
    BY <1>1, <1>2, <1>3 DEF FactType
  <1>5. Born(c) = [fact EXCEPT ![c] = born]
    BY DEF Born, status
  <1>. HIDE DEF born
  <1>6. /\ Born(c) \in [Ids -> FactType]
        /\ \A x \in Ids : x # c => Born(c)[x] = fact[x]
        /\ Born(c)[c] = born
    BY <1>1, <1>4, <1>5
  <1>. QED
    BY <1>4, <1>6 DEF status

\* An accepted claim or conjecture becomes a fact and touches no other.
LEMMA AcceptClaimKeeps ==
    ASSUME IInv, NEW c \in Ids, AcceptClaim(c)
    PROVE  IInv' /\ StaysFallen
  <1>1. /\ Concludes(c, {"claim", "conjecture"}, "accepted")
        /\ claim[c].kind \in {"claim", "conjecture"}
        /\ claim'[c].state = "accepted" /\ fact[c].status = "NONE"
    BY Concluded DEF AcceptClaim
  <1>2. /\ fact' \in [Ids -> FactType]
        /\ \A x \in Ids : x # c => fact'[x] = fact[x]
        /\ BornOrNot(c)
    <2>1. fact' = Born(c) /\ height \in Nat
      BY Typed DEF AcceptClaim, IInv
    <2>2. /\ fact' \in [Ids -> FactType]
          /\ \A x \in Ids : x # c => fact'[x] = fact[x]
          /\ fact'[c].status = IF IsConjecture(c) THEN "PROVISIONAL" ELSE "VERIFIED"
          /\ fact'[c].bornAt = height
          /\ fact'[c].atRisk = FALSE
          /\ fact'[c].fellAt = 0
      BY <2>1, BornFields
    <2>. QED
      BY <1>1, <2>1, <2>2 DEF BornOrNot
  <1>3. \A x \in Ids : x # c => Ruled(c, x)
    BY <1>1, <1>2, LeftAlone DEF Opens
  <1>4. \A x \in Ids : x # c /\ fact'[x].status \in {"VERIFIED", "ACTIVE"} =>
           Cleared(x) \/ Undisturbed(c, x)
    <2>1. \A x \in Ids : \A d \in claim[x].deps : d \in Ids /\ d # c
      BY <1>1, Unnamed, Typed DEF Exists, IInv
    <2>. QED
      BY <1>1, <1>2, <2>1 DEF Undisturbed
  <1>. QED
    BY <1>1, <1>2, <1>3, <1>4, RulingUnopposed, RulingKeeps

\* Two tables of facts that differ in statuses only.
SameMarks(F, G) ==
    \A x \in Ids : /\ G[x].atRisk = F[x].atRisk /\ G[x].fellAt = F[x].fellAt
                   /\ G[x].cutoff = F[x].cutoff /\ G[x].bornAt = F[x].bornAt
                   /\ G[x].decayed = F[x].decayed

\* A write of one status.
LEMMA StatusWrite ==
    ASSUME NEW F \in [Ids -> FactType], NEW f \in Ids, NEW s \in Statuses
    PROVE  LET G == [F EXCEPT ![f].status = s]
           IN  /\ G \in [Ids -> FactType] /\ SameMarks(F, G)
               /\ G[f].status = s
               /\ \A x \in Ids : x # f => G[x].status = F[x].status
  BY DEF FactType, SameMarks

\* contestAcceptedTargets writes the status of an established target alone.
LEMMA ContestFields ==
    ASSUME NEW F \in [Ids -> FactType], NEW f \in Ids
    PROVE  LET G == ContestTarget(F, f)
           IN  /\ G \in [Ids -> FactType] /\ SameMarks(F, G)
               /\ G[f].status = IF F[f].status \in {"VERIFIED", "ACTIVE"} THEN "CONTESTED"
                                ELSE F[f].status
               /\ \A x \in Ids : x # f => G[x].status = F[x].status
  <1>1. "CONTESTED" \in Statuses
    BY DEF Statuses
  <1>2. CASE F[f].status \in {"VERIFIED", "ACTIVE"}
    <2>1. LET G == [F EXCEPT ![f].status = "CONTESTED"]
          IN  /\ G \in [Ids -> FactType] /\ SameMarks(F, G)
              /\ G[f].status = "CONTESTED"
              /\ \A x \in Ids : x # f => G[x].status = F[x].status
      BY <1>1, StatusWrite
    <2>2. ContestTarget(F, f) = [F EXCEPT ![f].status = "CONTESTED"]
      BY <1>2 DEF ContestTarget
    <2>. QED
      BY <1>2, <2>1, <2>2
  <1>3. CASE F[f].status \notin {"VERIFIED", "ACTIVE"}
    BY <1>3 DEF ContestTarget, SameMarks
  <1>. QED
    BY <1>2, <1>3

\* releaseContested writes one status, and only once no reason is left.
LEMMA ReleasedFields ==
    ASSUME NEW F \in [Ids -> FactType], NEW f \in Ids, NEW complete \in BOOLEAN
    PROVE  LET G == Released(F, f, complete)
           IN  /\ G \in [Ids -> FactType] /\ SameMarks(F, G)
               /\ \A x \in Ids : x # f => G[x].status = F[x].status
               /\ \/ G[f].status = F[f].status
                  \/ /\ F[f].status = "CONTESTED"
                     /\ ~contestReason(F, f, F[f].cutoff)
                     /\ G[f].status = IF IsConjecture(f) THEN "PROVISIONAL" ELSE "VERIFIED"
  <1>. DEFINE s == IF IsConjecture(f) THEN "PROVISIONAL" ELSE "VERIFIED"
  <1>1. s \in Statuses
    BY DEF Statuses
  <1>2. CASE F[f].status = "CONTESTED" /\ ~contestReasonRemains(F, f, F[f].cutoff, complete)
    <2>1. Released(F, f, complete) = [F EXCEPT ![f].status = s]
      BY <1>2 DEF Released
    <2>2. ~contestReason(F, f, F[f].cutoff)
      BY <1>2 DEF contestReasonRemains
    <2>. HIDE DEF s
    <2>3. LET G == [F EXCEPT ![f].status = s]
          IN  /\ G \in [Ids -> FactType] /\ SameMarks(F, G)
              /\ G[f].status = s
              /\ \A x \in Ids : x # f => G[x].status = F[x].status
      BY <1>1, StatusWrite
    <2>. QED
      BY <1>2, <2>1, <2>2, <2>3 DEF s
  <1>3. CASE ~(F[f].status = "CONTESTED" /\ ~contestReasonRemains(F, f, F[f].cutoff, complete))
    BY <1>3 DEF Released, SameMarks
  <1>. QED
    BY <1>2, <1>3

\* An accepted contradiction becomes a fact and contests its target at once.
LEMMA AcceptContradictionKeeps ==
    ASSUME IInv, NEW c \in Ids, AcceptContradiction(c)
    PROVE  IInv' /\ StaysFallen
  <1>. DEFINE t == claim[c].target
              B == Born(c)
  <1>1. /\ Concludes(c, {"contradiction"}, "accepted")
        /\ claim[c].kind = "contradiction"
        /\ claim'[c].state = "accepted" /\ fact[c].status = "NONE"
    BY Concluded DEF AcceptContradiction
  <1>2. /\ t \in Ids /\ t # c
        /\ \A x \in Ids : \A d \in claim[x].deps : d \in Ids /\ d # c
    BY <1>1, Unnamed, Typed DEF IInv, Shape, Exists, Pleads
  <1>3. /\ B \in [Ids -> FactType]
        /\ \A x \in Ids : x # c => B[x] = fact[x]
        /\ B[c].status = IF IsConjecture(c) THEN "PROVISIONAL" ELSE "VERIFIED"
        /\ B[c].bornAt = height /\ B[c].atRisk = FALSE /\ B[c].fellAt = 0
    BY BornFields
  <1>4. fact' = ContestTarget(B, t)
    BY DEF AcceptContradiction
  <1>. HIDE DEF B, t
  <1>5. /\ fact' \in [Ids -> FactType] /\ SameMarks(B, fact')
        /\ fact'[t].status = IF B[t].status \in {"VERIFIED", "ACTIVE"} THEN "CONTESTED"
                             ELSE B[t].status
        /\ \A x \in Ids : x # t => fact'[x].status = B[x].status
    BY <1>2, <1>3, <1>4, ContestFields
  <1>6. /\ BornOrNot(c)
        /\ \A x \in Ids : x # c => /\ fact'[x].atRisk = fact[x].atRisk
                                   /\ fact'[x].fellAt = fact[x].fellAt
                                   /\ fact'[x].cutoff = fact[x].cutoff
                                   /\ fact'[x].bornAt = fact[x].bornAt
                                   /\ fact'[x].decayed = fact[x].decayed
    <2>1. height \in Nat
      BY Typed DEF IInv
    <2>. QED
      BY <1>1, <1>2, <1>3, <1>5, <2>1 DEF BornOrNot, SameMarks
  <1>7. ASSUME NEW x \in Ids, x # c
        PROVE  Ruled(c, x)
    <2>1. /\ fact[x].fellAt <= height
          /\ fact[x].status = "PROVISIONAL" => IsConjecture(x)
          /\ IsConjecture(x) => fact[x].status \notin {"VERIFIED", "ACTIVE", "CONTESTED"}
      BY DEF IInv, FellBefore, OnlyQuestions, QuestionStaysOpen
    <2>2. ~Opens(c, x)
      BY <1>1 DEF Opens
    <2>. QED
      BY <1>2, <1>3, <1>5, <1>6, <1>7, <2>1, <2>2 DEF Ruled
  <1>8. \A x \in Ids : x # c /\ fact'[x].status \in {"VERIFIED", "ACTIVE"} =>
           Cleared(x) \/ Undisturbed(c, x)
    <2>1. \A x \in Ids : x # c /\ fact'[x].status \in {"VERIFIED", "ACTIVE", "DISPROVEN"} =>
             fact'[x].status = fact[x].status /\ (x = t => fact'[x].status = "DISPROVEN")
      BY <1>2, <1>3, <1>5
    <2>. QED
      BY <1>1, <1>2, <1>6, <2>1 DEF Undisturbed, t
  <1>. QED
    BY <1>1, <1>5, <1>6, <1>7, <1>8, RulingUnopposed, RulingKeeps

\* A fact that is given back its standing because no reason to contest it was
\* found on the facts F, with cut the opening of the last survived challenge.
LEMMA ReleaseClears ==
    ASSUME NEW F, NEW x \in Ids, NEW cut,
           \A k \in Ids : /\ claim'[k].kind = claim[k].kind
                          /\ claim'[k].target = claim[k].target
                          /\ claim[k].deps \subseteq Ids,
           F[x].status \in {"CONTESTED", "CHALLENGED"},
           fact'[x].status \in {"VERIFIED", "ACTIVE"},
           fact'[x].cutoff = cut,
           \A y \in Ids : y # x => /\ fact'[y].status = F[y].status
                                   /\ fact'[y].fellAt = F[y].fellAt,
           \A y \in Ids : F[y].fellAt \in Nat, cut \in Nat,
           ~contestReason(F, x, cut)
    PROVE  Cleared(x)
  <1>1. ~standingCounterFact(fact, x)'
    BY DEF contestReason, standingCounterFact, Contradicting, counterFactStands, factStands
  <1>2. ASSUME NEW d \in claim[x].deps, fact'[d].status = "DISPROVEN"
        PROVE  fact'[x].cutoff # 0 /\ fact'[d].fellAt < fact'[x].cutoff
    <2>1. d \in Ids /\ d # x
      BY <1>2
    <2>2. F[d].status = "DISPROVEN" /\ fact'[d].fellAt = F[d].fellAt
      BY <1>2, <2>1
    <2>3. ~(cut = 0 \/ F[d].fellAt >= cut)
      BY <2>2 DEF contestReason, refutedDependency
    <2>. QED
      BY <2>1, <2>2, <2>3
  <1>. QED
    BY <1>1, <1>2 DEF Cleared

\* A contradiction that ends releases its target if no reason is left.
LEMMA EndContradictionKeeps ==
    ASSUME IInv, NEW c \in Ids, EndContradiction(c)
    PROVE  IInv' /\ StaysFallen
  <1>. DEFINE t == claim[c].target
  <1>1. /\ Concludes(c, {"contradiction"}, "ended")
        /\ claim[c].kind = "contradiction"
        /\ \A x \in Ids : claim'[x].kind = claim[x].kind /\ claim'[x].target = claim[x].target
        /\ claim'[c].state = "ended" /\ fact[c].status = "NONE"
    BY Concluded DEF EndContradiction
  <1>2. /\ t \in Ids /\ t # c
        /\ \A x \in Ids : claim[x].deps \subseteq Ids /\ fact[x].fellAt \in Nat /\ fact[x].cutoff \in Nat
    BY <1>1, Unnamed, Typed DEF IInv, Shape, Exists, Pleads
  <1>3. PICK complete \in BOOLEAN : fact' = Released(fact, t, complete)
    BY DEF EndContradiction
  <1>4. fact \in [Ids -> FactType]
    BY DEF IInv, TypeOK
  <1>. HIDE DEF t
  <1>5. /\ fact' \in [Ids -> FactType] /\ SameMarks(fact, fact')
        /\ \A x \in Ids : x # t => fact'[x].status = fact[x].status
        /\ \/ fact'[t].status = fact[t].status
           \/ /\ fact[t].status = "CONTESTED"
              /\ ~contestReason(fact, t, fact[t].cutoff)
              /\ fact'[t].status = IF IsConjecture(t) THEN "PROVISIONAL" ELSE "VERIFIED"
    BY <1>2, <1>3, <1>4, ReleasedFields
  <1>6. BornOrNot(c)
    <2>1. (fact[c].atRisk => fact[c].decayed) /\ fact[c].fellAt <= height
      BY DEF IInv, DecayMarked, FellBefore
    <2>. QED
      BY <1>1, <1>2, <1>5, <2>1 DEF BornOrNot, SameMarks
  <1>7. ASSUME NEW x \in Ids, x # c
        PROVE  Ruled(c, x)
    <2>1. /\ fact[x].fellAt <= height
          /\ fact[x].status = "PROVISIONAL" => IsConjecture(x)
          /\ IsConjecture(x) => fact[x].status \notin {"VERIFIED", "ACTIVE", "CONTESTED"}
      BY DEF IInv, FellBefore, OnlyQuestions, QuestionStaysOpen
    <2>2. ~Opens(c, x)
      BY <1>1 DEF Opens
    <2>. QED
      BY <1>2, <1>5, <1>7, <2>1, <2>2 DEF Ruled, SameMarks
  <1>8. ASSUME NEW x \in Ids, x # c, fact'[x].status \in {"VERIFIED", "ACTIVE"}
        PROVE  Cleared(x) \/ Undisturbed(c, x)
    <2>1. CASE fact'[x].status = fact[x].status
      <3>1. \A d \in claim[x].deps : fact'[d].status = "DISPROVEN" =>
               fact[d].status = "DISPROVEN" /\ fact'[d].fellAt = fact[d].fellAt
        BY <1>2, <1>5 DEF SameMarks
      <3>. QED
        BY <1>1, <1>5, <1>8, <2>1, <3>1 DEF Undisturbed, SameMarks
    <2>2. CASE fact'[x].status # fact[x].status
      <3>1. x = t /\ fact[x].status = "CONTESTED" /\ ~contestReason(fact, x, fact[x].cutoff)
        BY <1>5, <2>2
      <3>. QED
        BY <1>1, <1>2, <1>5, <1>8, <3>1, ReleaseClears DEF SameMarks
    <2>. QED
      BY <2>1, <2>2
  <1>. QED
    BY <1>1, <1>5, <1>6, <1>7, <1>8, RulingUnopposed, RulingKeeps

\* A challenge that is open is the only one, of a fact under adjudication.
LEMMA OpenTarget ==
    ASSUME IInv, NEW c \in Ids, claim[c].state = "pending", claim[c].kind = "challenge"
    PROVE  /\ claim[c].target \in Ids /\ claim[c].target # c
           /\ fact[claim[c].target].status = "CHALLENGED"
           /\ PendingChallenges(claim[c].target) = {c}
           /\ \A x \in Ids : Opens(c, x) <=> x = claim[c].target
  <1>1. claim[c].target \in Ids /\ claim[c].target # c
    BY DEF IInv, Shape, Exists, Pleads
  <1>2. \A x \in Ids : Opens(c, x) <=> x = claim[c].target
    BY DEF Opens
  <1>3. fact[claim[c].target].status = "CHALLENGED"
    BY <1>1, <1>2 DEF IInv, OneOpen
  <1>4. \A d \in Ids : Opens(d, claim[c].target) <=> d = c
    BY <1>1, <1>2 DEF IInv, OneOpen
  <1>5. PendingChallenges(claim[c].target) = {c}
    BY <1>4 DEF PendingChallenges, Opens
  <1>. QED
    BY <1>1, <1>2, <1>3, <1>5

\* The status a fact has after a challenge that did not refute it.
LEMMA EndStatus ==
    ASSUME NEW f \in Ids, NEW cut, NEW complete \in BOOLEAN
    PROVE  LET end == challengeEndStatus(f, cut, complete)
           IN  /\ end \in {"CONTESTED", "PROVISIONAL", "ACTIVE"}
               /\ IsConjecture(f) <=> end = "PROVISIONAL"
               /\ end = "ACTIVE" => ~contestReason(fact, f, cut)
  BY DEF challengeEndStatus, RestoredStatusFor, contestReasonRemains

\* The end of a challenge that did not refute its target.
LEMMA SparedKeeps ==
    ASSUME IInv, NEW c \in Ids, Concludes(c, {"challenge"}, "ended"),
           NEW cut \in Nat, NEW f \in Ids, f = claim[c].target,
           fact' \in [Ids -> FactType],
           \A y \in Ids : y # f => fact'[y] = fact[y],
           fact'[f].status \in {"CONTESTED", "PROVISIONAL", "ACTIVE"},
           IsConjecture(f) <=> fact'[f].status = "PROVISIONAL",
           fact'[f].status = "ACTIVE" => ~contestReason(fact, f, cut),
           fact'[f].atRisk = FALSE, fact'[f].cutoff = cut,
           fact'[f].fellAt = fact[f].fellAt, fact'[f].bornAt = fact[f].bornAt,
           fact'[f].decayed = fact[f].decayed
    PROVE  IInv' /\ StaysFallen
  <1>1. /\ claim[c].kind = "challenge" /\ claim[c].state = "pending"
        /\ \A x \in Ids : claim'[x].kind = claim[x].kind /\ claim'[x].target = claim[x].target
        /\ claim'[c].state = "ended" /\ fact[c].status = "NONE"
    BY Concluded
  <1>2. /\ f \in Ids /\ f # c /\ fact[f].status = "CHALLENGED"
        /\ \A x \in Ids : Opens(c, x) <=> x = f
    BY <1>1, OpenTarget
  <1>3. BornOrNot(c)
    BY <1>1, <1>2 DEF BornOrNot, IInv, DecayMarked, FellBefore
  <1>4. ASSUME NEW x \in Ids, x # c
        PROVE  Ruled(c, x)
    <2>1. CASE x = f
      <3>1. fact[f].fellAt <= height
        BY <1>2 DEF IInv, FellBefore
      <3>. QED
        BY <1>2, <2>1, <3>1 DEF Ruled
    <2>2. CASE x # f
      BY <1>2, <2>2, LeftAlone
    <2>. QED
      BY <2>1, <2>2
  <1>5. ASSUME NEW x \in Ids, x # c, fact'[x].status \in {"VERIFIED", "ACTIVE"}
        PROVE  Cleared(x) \/ Undisturbed(c, x)
    <2>1. \A y \in Ids : claim[y].deps \subseteq Ids /\ fact[y].fellAt \in Nat
      BY Typed DEF IInv
    <2>2. CASE x = f
      BY <1>1, <1>2, <1>5, <2>1, <2>2, ReleaseClears
    <2>3. CASE x # f
      BY <1>1, <1>2, <1>5, <2>1, <2>3 DEF Undisturbed
    <2>. QED
      BY <2>2, <2>3
  <1>. QED
    BY <1>3, <1>4, <1>5, RulingUnopposed, RulingKeeps

\* A fact that survives its challenge is restored, CONTESTED while a reason is left.
LEMMA RejectChallengeKeeps ==
    ASSUME IInv, NEW c \in Ids, RejectChallenge(c)
    PROVE  IInv' /\ StaysFallen
  <1>. DEFINE f == claim[c].target
              cut == claim[c].openedAt
  <1>1. Concludes(c, {"challenge"}, "ended")
    BY DEF RejectChallenge
  <1>2. f \in Ids /\ fact[f].status = "CHALLENGED"
    BY <1>1, OpenTarget DEF Concludes
  <1>3. PICK complete \in BOOLEAN :
           fact' = [fact EXCEPT
              ![f].status = challengeEndStatus(f, cut, complete), ![f].atRisk = FALSE,
              ![f].cutoff = IF fact[f].status = challengeEndStatus(f, cut, complete)
                            THEN @ ELSE cut]
    BY DEF RejectChallenge
  <1>. DEFINE end == challengeEndStatus(f, cut, complete)
  <1>4. cut \in Nat /\ end \in Statuses /\ end # fact[f].status /\ fact \in [Ids -> FactType]
    BY <1>2, EndStatus, Typed DEF IInv, TypeOK, Statuses
  <1>. HIDE DEF f, cut, end
  <1>5. fact' = [fact EXCEPT ![f].status = end, ![f].atRisk = FALSE, ![f].cutoff = cut]
    BY <1>3, <1>4 DEF end
  <1>6. /\ fact' \in [Ids -> FactType]
        /\ \A y \in Ids : y # f => fact'[y] = fact[y]
        /\ fact'[f].status = end
        /\ fact'[f].atRisk = FALSE /\ fact'[f].cutoff = cut
        /\ fact'[f].fellAt = fact[f].fellAt /\ fact'[f].bornAt = fact[f].bornAt
        /\ fact'[f].decayed = fact[f].decayed
    BY <1>2, <1>4, <1>5 DEF FactType
  <1>7. /\ f = claim[c].target
        /\ fact'[f].status \in {"CONTESTED", "PROVISIONAL", "ACTIVE"}
        /\ IsConjecture(f) <=> fact'[f].status = "PROVISIONAL"
        /\ fact'[f].status = "ACTIVE" => ~contestReason(fact, f, cut)
    BY <1>2, <1>6, EndStatus DEF f, end
  <1>. QED
    BY <1>1, <1>2, <1>4, <1>6, <1>7, SparedKeeps

\* A challenge that decides nothing restores its fact the same way.
LEMMA AbandonChallengeKeeps ==
    ASSUME IInv, NEW c \in Ids, AbandonChallenge(c)
    PROVE  IInv' /\ StaysFallen
  <1>. DEFINE f == claim[c].target
              cut == fact[f].cutoff
  <1>1. Concludes(c, {"challenge"}, "ended")
    BY DEF AbandonChallenge
  <1>2. f \in Ids /\ fact[f].status = "CHALLENGED" /\ PendingChallenges(f) = {c}
    BY <1>1, OpenTarget DEF Concludes
  <1>3. PICK complete \in BOOLEAN :
           fact' = [fact EXCEPT ![f].status = challengeEndStatus(f, cut, complete),
                                ![f].atRisk = FALSE]
    BY <1>2 DEF AbandonChallenge
  <1>. DEFINE end == challengeEndStatus(f, cut, complete)
  <1>4. cut \in Nat /\ end \in Statuses /\ fact \in [Ids -> FactType]
    BY <1>2, EndStatus, Typed DEF IInv, TypeOK, Statuses
  <1>. HIDE DEF f, end
  <1>5. /\ fact' \in [Ids -> FactType]
        /\ \A y \in Ids : y # f => fact'[y] = fact[y]
        /\ fact'[f].status = end
        /\ fact'[f].atRisk = FALSE /\ fact'[f].cutoff = cut
        /\ fact'[f].fellAt = fact[f].fellAt /\ fact'[f].bornAt = fact[f].bornAt
        /\ fact'[f].decayed = fact[f].decayed
    <2>1. fact' = [fact EXCEPT ![f].status = end, ![f].atRisk = FALSE]
      BY <1>3 DEF end
    <2>. QED
      BY <1>2, <1>4, <2>1 DEF FactType
  <1>. HIDE DEF cut
  <1>6. /\ f = claim[c].target
        /\ fact'[f].status \in {"CONTESTED", "PROVISIONAL", "ACTIVE"}
        /\ IsConjecture(f) <=> fact'[f].status = "PROVISIONAL"
        /\ fact'[f].status = "ACTIVE" => ~contestReason(fact, f, cut)
    BY <1>2, <1>5, EndStatus DEF f, end
  <1>. QED
    BY <1>1, <1>2, <1>4, <1>5, <1>6, SparedKeeps

\* The fall of one fact and what it contests.
LEMMA CascadeFields ==
    ASSUME NEW F \in [Ids -> FactType], NEW f \in Ids, F[f].status # "DISPROVEN",
           height \in Nat
    PROVE  LET K == Cascaded(Fallen(F, f), f)
           IN  /\ K \in [Ids -> FactType]
               /\ \A x \in Ids :
                     /\ K[x].atRisk = F[x].atRisk /\ K[x].cutoff = F[x].cutoff
                     /\ K[x].bornAt = F[x].bornAt /\ K[x].decayed = F[x].decayed
                     /\ K[x].fellAt = IF x = f THEN height ELSE F[x].fellAt
                     /\ K[x].status = IF x = f THEN "DISPROVEN"
                                      ELSE IF f \in claim[x].deps /\
                                              F[x].status \in {"VERIFIED", "ACTIVE", "AT_RISK"}
                                      THEN "CONTESTED" ELSE F[x].status
  <1>. DEFINE L == Fallen(F, f)
              K == Cascaded(L, f)
  <1>1. L = [F EXCEPT ![f].status = "DISPROVEN", ![f].fellAt = height]
    BY DEF Fallen
  <1>2. /\ L \in [Ids -> FactType]
        /\ \A x \in Ids : x # f => L[x] = F[x]
        /\ L[f].status = "DISPROVEN" /\ L[f].fellAt = height
        /\ L[f].atRisk = F[f].atRisk /\ L[f].cutoff = F[f].cutoff
        /\ L[f].bornAt = F[f].bornAt /\ L[f].decayed = F[f].decayed
    <2>. HIDE DEF L
    <2>. QED
      BY <1>1 DEF FactType, Statuses
  <1>. HIDE DEF L
  <1>3. ASSUME NEW x \in Ids
        PROVE  /\ K[x] \in FactType
               /\ K[x].atRisk = L[x].atRisk /\ K[x].cutoff = L[x].cutoff
               /\ K[x].bornAt = L[x].bornAt /\ K[x].decayed = L[x].decayed
               /\ K[x].fellAt = L[x].fellAt
               /\ K[x].status = IF f \in claim[x].deps /\
                                   L[x].status \in {"VERIFIED", "ACTIVE", "AT_RISK"}
                                THEN "CONTESTED" ELSE L[x].status
    <2>1. CASE f \in claim[x].deps /\ L[x].status \in {"VERIFIED", "ACTIVE", "AT_RISK"}
      <3>1. K[x] = [L[x] EXCEPT !.status = "CONTESTED"]
        BY <2>1 DEF Cascaded
      <3>. QED
        BY <1>2, <2>1, <3>1 DEF FactType, Statuses
    <2>2. CASE ~(f \in claim[x].deps /\ L[x].status \in {"VERIFIED", "ACTIVE", "AT_RISK"})
      <3>1. K[x] = L[x]
        BY <2>2 DEF Cascaded
      <3>. QED
        BY <1>2, <2>2, <3>1
    <2>. QED
      BY <2>1, <2>2
  <1>4. K \in [Ids -> FactType]
    BY <1>3 DEF Cascaded
  <1>5. ASSUME NEW x \in Ids
        PROVE  /\ K[x].atRisk = F[x].atRisk /\ K[x].cutoff = F[x].cutoff
               /\ K[x].bornAt = F[x].bornAt /\ K[x].decayed = F[x].decayed
               /\ K[x].fellAt = IF x = f THEN height ELSE F[x].fellAt
               /\ K[x].status = IF x = f THEN "DISPROVEN"
                                ELSE IF f \in claim[x].deps /\
                                        F[x].status \in {"VERIFIED", "ACTIVE", "AT_RISK"}
                                THEN "CONTESTED" ELSE F[x].status
    <2>. HIDE DEF K
    <2>. QED
      BY <1>2, <1>3
  <1>. QED
    BY <1>4, <1>5 DEF L

\* What a fallen counter-fact releases.
LEMMA SettledFields ==
    ASSUME NEW F \in [Ids -> FactType], NEW f \in Ids, NEW complete \in BOOLEAN,
           claim[f].kind = "contradiction" => claim[f].target \in Ids
    PROVE  LET G == CounterFactSettled(F, f, complete)
           IN  /\ G \in [Ids -> FactType] /\ SameMarks(F, G)
               /\ \A x \in Ids :
                     \/ G[x].status = F[x].status
                     \/ /\ claim[f].kind = "contradiction" /\ x = claim[f].target
                        /\ F[x].status = "CONTESTED"
                        /\ ~contestReason(F, x, F[x].cutoff)
                        /\ \A y \in Ids : y # x => G[y].status = F[y].status
                        /\ G[x].status = IF IsConjecture(x) THEN "PROVISIONAL" ELSE "VERIFIED"
  <1>1. CASE claim[f].kind = "contradiction"
    <2>. DEFINE t == claim[f].target
    <2>1. CounterFactSettled(F, f, complete) = Released(F, t, complete) /\ t \in Ids
      BY <1>1 DEF CounterFactSettled
    <2>. HIDE DEF t
    <2>2. LET G == Released(F, t, complete)
          IN  /\ G \in [Ids -> FactType] /\ SameMarks(F, G)
              /\ \A x \in Ids : x # t => G[x].status = F[x].status
              /\ \/ G[t].status = F[t].status
                 \/ /\ F[t].status = "CONTESTED"
                    /\ ~contestReason(F, t, F[t].cutoff)
                    /\ G[t].status = IF IsConjecture(t) THEN "PROVISIONAL" ELSE "VERIFIED"
      BY <2>1, ReleasedFields
    <2>3. ASSUME NEW G, G = Released(F, t, complete), NEW x \in Ids, G[x].status # F[x].status
          PROVE  /\ x = t
                 /\ F[x].status = "CONTESTED"
                 /\ ~contestReason(F, x, F[x].cutoff)
                 /\ \A y \in Ids : y # x => G[y].status = F[y].status
                 /\ G[x].status = IF IsConjecture(x) THEN "PROVISIONAL" ELSE "VERIFIED"
      BY <2>2, <2>3
    <2>. QED
      BY <1>1, <2>1, <2>2, <2>3 DEF t
  <1>2. CASE claim[f].kind # "contradiction"
    BY <1>2 DEF CounterFactSettled, SameMarks
  <1>. QED
    BY <1>1, <1>2

\* A fact that falls takes the standing of what rests on it along.
LEMMA AcceptChallengeKeeps ==
    ASSUME IInv, NEW c \in Ids, AcceptChallenge(c)
    PROVE  IInv' /\ StaysFallen
  <1>. DEFINE f == claim[c].target
              B == Born(c)
              K == Cascaded(Fallen(B, f), f)
  <1>1. /\ Concludes(c, {"challenge"}, "accepted")
        /\ claim[c].kind = "challenge" /\ claim[c].state = "pending"
        /\ \A x \in Ids : claim'[x].kind = claim[x].kind /\ claim'[x].target = claim[x].target
        /\ claim'[c].state = "accepted" /\ fact[c].status = "NONE"
    BY Concluded DEF AcceptChallenge
  <1>2. /\ f \in Ids /\ f # c /\ fact[f].status = "CHALLENGED"
        /\ \A x \in Ids : Opens(c, x) <=> x = f
    BY <1>1, OpenTarget
  <1>3. PICK complete \in BOOLEAN : fact' = CounterFactSettled(K, f, complete)
    BY DEF AcceptChallenge
  <1>4. /\ B \in [Ids -> FactType]
        /\ \A x \in Ids : x # c => B[x] = fact[x]
        /\ B[c].status = IF IsConjecture(c) THEN "PROVISIONAL" ELSE "VERIFIED"
        /\ B[c].bornAt = height /\ B[c].atRisk = FALSE /\ B[c].fellAt = 0
    BY BornFields
  <1>5. height \in Nat
    BY Typed DEF IInv
  <1>. HIDE DEF B
  <1>6. /\ K \in [Ids -> FactType]
        /\ \A x \in Ids :
              /\ K[x].atRisk = B[x].atRisk /\ K[x].cutoff = B[x].cutoff
              /\ K[x].bornAt = B[x].bornAt /\ K[x].decayed = B[x].decayed
              /\ K[x].fellAt = IF x = f THEN height ELSE B[x].fellAt
              /\ K[x].status = IF x = f THEN "DISPROVEN"
                               ELSE IF f \in claim[x].deps /\
                                       B[x].status \in {"VERIFIED", "ACTIVE", "AT_RISK"}
                               THEN "CONTESTED" ELSE B[x].status
    <2>. HIDE DEF f
    <2>1. B[f].status # "DISPROVEN"
      BY <1>2, <1>4
    <2>. QED
      BY <1>2, <1>4, <1>5, <2>1, CascadeFields
  <1>7. /\ \A x \in Ids : \A d \in claim[x].deps : d \in Ids /\ d # c
        /\ \A x \in Ids : claim[x].kind = "contradiction" => claim[x].target \in Ids \ {c}
        /\ \A x \in Ids : claim[x].deps \subseteq Ids
        /\ \A x \in Ids : claim[x].kind # "claim" => claim[x].deps = {}
    BY <1>1, Unnamed, Typed DEF IInv, Shape, Exists, Pleads
  <1>. HIDE DEF f, K
  <1>8. /\ fact' \in [Ids -> FactType] /\ SameMarks(K, fact')
        /\ \A x \in Ids :
              \/ fact'[x].status = K[x].status
              \/ /\ claim[f].kind = "contradiction" /\ x = claim[f].target
                 /\ K[x].status = "CONTESTED"
                 /\ ~contestReason(K, x, K[x].cutoff)
                 /\ \A y \in Ids : y # x => fact'[y].status = K[y].status
                 /\ fact'[x].status = IF IsConjecture(x) THEN "PROVISIONAL" ELSE "VERIFIED"
    BY <1>2, <1>3, <1>6, <1>7, SettledFields
  <1>9. /\ fact'[c].status = B[c].status /\ fact'[c].fellAt = 0
        /\ fact'[c].bornAt = height /\ fact'[c].atRisk = FALSE
    BY <1>1, <1>2, <1>4, <1>6, <1>7, <1>8 DEF SameMarks
  <1>10. BornOrNot(c)
    BY <1>1, <1>4, <1>5, <1>9 DEF BornOrNot
  <1>11. ASSUME NEW x \in Ids, x # c
         PROVE  /\ fact'[x].atRisk = fact[x].atRisk /\ fact'[x].cutoff = fact[x].cutoff
                /\ fact'[x].bornAt = fact[x].bornAt /\ fact'[x].decayed = fact[x].decayed
                /\ fact'[x].fellAt = IF x = f THEN height ELSE fact[x].fellAt
                /\ K[x].status = IF x = f THEN "DISPROVEN"
                                 ELSE IF f \in claim[x].deps /\
                                         fact[x].status \in {"VERIFIED", "ACTIVE", "AT_RISK"}
                                 THEN "CONTESTED" ELSE fact[x].status
    BY <1>4, <1>6, <1>8, <1>11 DEF SameMarks
  <1>12. ASSUME NEW x \in Ids, x # c
         PROVE  Ruled(c, x)
    <2>1. /\ fact[x].fellAt <= height
          /\ fact[x].status = "PROVISIONAL" => IsConjecture(x)
          /\ IsConjecture(x) => fact[x].status \notin {"VERIFIED", "ACTIVE", "CONTESTED"}
          /\ IsConjecture(x) => claim[x].deps = {}
      BY <1>7 DEF IInv, FellBefore, OnlyQuestions, QuestionStaysOpen, IsConjecture
    <2>2. fact'[x].fellAt <= height
      BY <1>5, <1>11, <1>12, <2>1
    <2>. QED
      BY <1>1, <1>2, <1>8, <1>11, <1>12, <2>1, <2>2 DEF Ruled
  <1>13. ASSUME NEW x \in Ids, x # c, fact'[x].status \in {"VERIFIED", "ACTIVE"}
         PROVE  Cleared(x) \/ Undisturbed(c, x)
    <2>1. CASE fact'[x].status = K[x].status
      <3>1. /\ fact[x].status \in {"VERIFIED", "ACTIVE"} /\ f \notin claim[x].deps
            /\ fact'[x].cutoff = fact[x].cutoff
        BY <1>11, <1>13, <2>1
      <3>2. ASSUME NEW d \in claim[x].deps, fact'[d].status = "DISPROVEN"
            PROVE  fact[d].status = "DISPROVEN" /\ fact'[d].fellAt = fact[d].fellAt
        <4>1. d \in Ids /\ d # c /\ d # f
          BY <1>7, <3>1
        <4>. QED
          BY <1>8, <1>11, <3>2, <4>1
      <3>. QED
        BY <1>1, <3>1, <3>2 DEF Undisturbed
    <2>2. CASE fact'[x].status # K[x].status
      <3>1. /\ K[x].status = "CONTESTED" /\ ~contestReason(K, x, K[x].cutoff)
            /\ \A y \in Ids : y # x => fact'[y].status = K[y].status
        BY <1>8, <2>2
      <3>2. /\ \A y \in Ids : fact'[y].fellAt = K[y].fellAt /\ K[y].fellAt \in Nat
            /\ fact'[x].cutoff = K[x].cutoff /\ K[x].cutoff \in Nat
        BY <1>6, <1>8 DEF SameMarks, FactType
      <3>. QED
        BY <1>1, <1>7, <1>13, <3>1, <3>2, ReleaseClears
    <2>. QED
      BY <2>1, <2>2
  <1>. QED
    BY <1>1, <1>8, <1>10, <1>12, <1>13, RulingUnopposed, RulingKeeps

-----------------------------------------------------------------------------
(* Metabolism *)

\* What patronage and an epoch may do to a fact: decay leaves its mark, and a
\* fact under adjudication or fallen is passed over.
Aged(x) ==
    /\ fact'[x].status = "NONE" <=> fact[x].status = "NONE"
    /\ fact'[x].bornAt = fact[x].bornAt
    /\ fact'[x].fellAt = fact[x].fellAt
    /\ fact'[x].cutoff = fact[x].cutoff
    /\ fact[x].decayed => fact'[x].decayed
    /\ fact'[x].atRisk \/ fact'[x].status \in {"AT_RISK", "EXPIRED"} => fact'[x].decayed
    /\ fact'[x].status = "DISPROVEN" <=> fact[x].status = "DISPROVEN"
    /\ fact[x].status = "PRUNED" => fact'[x].status = "PRUNED"
    /\ fact'[x].status = "CHALLENGED" <=> fact[x].status = "CHALLENGED"
    /\ fact'[x].status = "PROVISIONAL" => IsConjecture(x)
    /\ IsConjecture(x) => fact'[x].status \notin {"VERIFIED", "ACTIVE", "CONTESTED"}
    /\ fact'[x].status \in {"VERIFIED", "ACTIVE"} =>
          fact'[x].decayed \/ fact[x].status \in {"VERIFIED", "ACTIVE"}

\* A step that only ages facts keeps the invariant and revives none that fell.
LEMMA AgingKeeps ==
    ASSUME IInv, UNCHANGED <<height, claim, taken>>, stage' \in {"begin", "txs"},
           fact' \in [Ids -> FactType], \A x \in Ids : Aged(x)
    PROVE  IInv' /\ StaysFallen
  <1>1. TypeOK'
    BY DEF IInv, TypeOK
  <1>2. Shape'
    <2>1. \A x \in Ids : fact'[x].status # "NONE" <=> fact[x].status # "NONE"
      BY DEF Aged
    <2>2. ASSUME NEW x \in Ids
          PROVE  /\ claim[x].deps \subseteq Ids
                 /\ fact[x].status # "NONE" <=> claim[x].state = "accepted"
                 /\ claim[x].state = "absent" => claim[x] = NoClaim
                 /\ claim[x].kind # "claim" => claim[x].deps = {}
                 /\ \A d \in claim[x].deps : fact[d].status # "NONE"
                 /\ Pleads(claim[x].kind) =>
                       claim[x].target \in Ids /\ fact[claim[x].target].status # "NONE"
      BY Typed DEF IInv, Shape, Exists
    <2>. QED
      BY <2>1, <2>2 DEF Shape, Exists, Pleads
  <1>3. OneOpen'
    BY DEF IInv, OneOpen, Opens, Aged
  <1>4. OnlyQuestions' /\ QuestionStaysOpen'
    BY DEF OnlyQuestions, QuestionStaysOpen, IsConjecture, Aged
  <1>5. DecayMarked' /\ FellBefore'
    BY DEF IInv, DecayMarked, FellBefore, Aged
  <1>6. Unopposed'
    <2>. SUFFICES ASSUME NEW f \in Ids, fact'[f].status \in {"VERIFIED", "ACTIVE"},
                         ~fact'[f].decayed
                  PROVE  /\ ~standingCounterFact(fact, f)'
                         /\ \A d \in claim[f].deps :
                              fact'[d].status = "DISPROVEN" /\ fact'[d].fellAt > fact'[f].bornAt =>
                                 fact'[f].cutoff # 0 /\ fact'[d].fellAt < fact'[f].cutoff
      BY DEF Unopposed
    <2>1. fact[f].status \in {"VERIFIED", "ACTIVE"} /\ ~fact[f].decayed
      BY DEF Aged
    <2>2. \A k \in Ids : claim[k].kind = "contradiction" /\ counterFactStands(fact'[k].status)
                            => counterFactStands(fact[k].status)
      BY CounterFacts DEF IInv, Aged, counterFactStands, factStands
    <2>3. ~standingCounterFact(fact, f)'
      BY <2>1, <2>2 DEF IInv, Unopposed, standingCounterFact, Contradicting, Aged
    <2>4. \A d \in claim[f].deps : d \in Ids
      BY Typed DEF IInv
    <2>. QED
      BY <2>1, <2>3, <2>4 DEF IInv, Unopposed, Aged
  <1>7. RefutedByChallenge'
    BY DEF IInv, RefutedByChallenge, Aged
  <1>8. Indexed'
    <2>1. \A x \in Ids : Blocks(x)' => Blocks(x)
      BY DEF Blocks, Aged
    <2>. QED
      BY <2>1 DEF IInv, Indexed
  <1>9. StaysFallen
    BY DEF StaysFallen, Aged
  <1>. QED
    BY <1>1, <1>2, <1>3, <1>4, <1>5, <1>6, <1>7, <1>8, <1>9 DEF IInv

\* A fact whose record is left alone.
LEMMA Ageless ==
    ASSUME IInv, NEW x \in Ids, fact'[x] = fact[x]
    PROVE  Aged(x)
  BY DEF IInv, Aged, DecayMarked, OnlyQuestions, QuestionStaysOpen

\* Patronage ages its fact in the sense above: the mark of decay stays.
LEMMA PatronizeFactKeeps ==
    ASSUME IInv, NEW f \in Ids, PatronizeFact(f)
    PROVE  IInv' /\ StaysFallen
  <1>1. fact \in [Ids -> FactType] /\ stage \in {"begin", "txs"}
    BY DEF IInv, TypeOK
  <1>2. RestoredStatusFor(f) = "ACTIVE" /\ ~IsConjecture(f)
    BY DEF PatronizeFact, RestoredStatusFor
  <1>3. fact' = [fact EXCEPT ![f].status = "ACTIVE", ![f].atRisk = FALSE]
    BY <1>2 DEF PatronizeFact
  <1>4. /\ fact' \in [Ids -> FactType]
        /\ \A x \in Ids : x # f => fact'[x] = fact[x]
        /\ fact'[f].status = "ACTIVE" /\ fact'[f].atRisk = FALSE
        /\ fact'[f].fellAt = fact[f].fellAt /\ fact'[f].bornAt = fact[f].bornAt
        /\ fact'[f].decayed = fact[f].decayed /\ fact'[f].cutoff = fact[f].cutoff
    BY <1>1, <1>3 DEF FactType, Statuses
  <1>5. fact[f].status \in {"AT_RISK", "EXPIRED"} /\ fact[f].decayed
    BY DEF PatronizeFact, IInv, DecayMarked
  <1>6. \A x \in Ids : Aged(x)
    <2>1. Aged(f)
      BY <1>2, <1>4, <1>5 DEF Aged
    <2>. QED
      BY <1>4, <2>1, Ageless
  <1>. QED
    BY <1>1, <1>4, <1>6, AgingKeeps DEF PatronizeFact

\* One fact through competition and metabolism.
LEMMA MetabolizedFields ==
    ASSUME NEW r \in FactType, NEW f \in Ids, NEW energy
    PROVE  LET m == Metabolized(r, f, energy)
           IN  /\ m \in FactType
               /\ m.fellAt = r.fellAt /\ m.cutoff = r.cutoff /\ m.bornAt = r.bornAt
               /\ r.decayed => m.decayed
               /\ \/ m = r
                  \/ r.atRisk /\ m.atRisk = FALSE /\ m.status = RestoredStatusFor(f)
                  \/ ~r.atRisk /\ m.decayed /\ m.status = "AT_RISK"
                  \/ r.atRisk /\ m.atRisk /\ m.status \in {"PRUNED", "EXPIRED"}
  <1>. DEFINE m == Metabolized(r, f, energy)
  <1>1. CASE energy = "healthy" /\ r.atRisk
    <2>1. RestoredStatusFor(f) \in Statuses
      BY DEF RestoredStatusFor, Statuses
    <2>2. m = [r EXCEPT !.atRisk = FALSE, !.status = RestoredStatusFor(f)]
      BY <1>1 DEF Metabolized
    <2>. HIDE DEF m
    <2>. QED
      BY <1>1, <2>1, <2>2 DEF FactType, m
  <1>2. CASE energy # "healthy" /\ ~r.atRisk
    <2>1. m = [r EXCEPT !.atRisk = TRUE, !.status = "AT_RISK", !.decayed = TRUE]
      BY <1>2 DEF Metabolized
    <2>. HIDE DEF m
    <2>. QED
      BY <1>2, <2>1 DEF FactType, Statuses, m
  <1>3. CASE energy \notin {"healthy", "low"} /\ r.atRisk
    <2>. DEFINE s == IF energy = "pruned" THEN "PRUNED" ELSE "EXPIRED"
    <2>1. m = [r EXCEPT !.status = s]
      BY <1>3 DEF Metabolized
    <2>2. s \in {"PRUNED", "EXPIRED"} /\ s \in Statuses
      BY DEF Statuses
    <2>. HIDE DEF m, s
    <2>. QED
      BY <1>3, <2>1, <2>2 DEF FactType, m
  <1>4. CASE \/ energy = "healthy" /\ ~r.atRisk
             \/ energy = "low" /\ r.atRisk
    BY <1>4 DEF Metabolized
  <1>. QED
    BY <1>1, <1>2, <1>3, <1>4

\* Competition and metabolism of an epoch age the facts.
LEMMA EpochWorkKeeps ==
    ASSUME IInv, EpochWork
    PROVE  IInv' /\ StaysFallen
  <1>1. PICK pruned \in SUBSET NicheMembers :
           LET F == Competed(pruned)
               alive == {f \in Ids : F[f].status \in Metabolic}
           IN  \E energy \in [alive -> Energy] :
                  fact' = [f \in Ids |-> IF f \in alive THEN Metabolized(F[f], f, energy[f])
                                         ELSE F[f]]
    BY DEF EpochWork
  <1>. DEFINE F == Competed(pruned)
              alive == {f \in Ids : F[f].status \in Metabolic}
  <1>2. PICK energy :
           fact' = [f \in Ids |-> IF f \in alive THEN Metabolized(F[f], f, energy[f]) ELSE F[f]]
    BY <1>1
  <1>3. ASSUME NEW x \in Ids
        PROVE  /\ F[x] \in FactType
               /\ F[x].atRisk = fact[x].atRisk /\ F[x].decayed = fact[x].decayed
               /\ F[x].fellAt = fact[x].fellAt /\ F[x].cutoff = fact[x].cutoff
               /\ F[x].bornAt = fact[x].bornAt
               /\ \/ F[x].status = fact[x].status
                  \/ /\ fact[x].status \in {"VERIFIED", "ACTIVE", "PROVISIONAL", "AT_RISK"}
                     /\ F[x].status = "PRUNED"
    <2>1. CASE x \in pruned
      <3>1. F[x] = [fact[x] EXCEPT !.status = "PRUNED"]
        BY <2>1 DEF Competed
      <3>2. fact[x] \in FactType
            /\ fact[x].status \in {"VERIFIED", "ACTIVE", "PROVISIONAL", "AT_RISK"}
        BY <2>1, Typed DEF IInv, NicheMembers
      <3>. QED
        BY <3>1, <3>2 DEF FactType, Statuses
    <2>2. CASE x \notin pruned
      <3>1. F[x] = fact[x] /\ fact[x] \in FactType
        BY <2>2, Typed DEF Competed, IInv
      <3>. QED
        BY <3>1
    <2>. QED
      BY <2>1, <2>2
  <1>. HIDE DEF F
  <1>4. ASSUME NEW x \in Ids
        PROVE  fact'[x] \in FactType /\ Aged(x)
    <2>1. /\ fact[x].atRisk \/ fact[x].status \in {"AT_RISK", "EXPIRED"} => fact[x].decayed
          /\ fact[x].status = "PROVISIONAL" => IsConjecture(x)
          /\ IsConjecture(x) => fact[x].status \notin {"VERIFIED", "ACTIVE", "CONTESTED"}
          /\ fact[x].atRisk \in BOOLEAN /\ fact[x].decayed \in BOOLEAN
      BY Typed DEF IInv, DecayMarked, OnlyQuestions, QuestionStaysOpen
    <2>2. CASE x \in alive
      <3>1. fact'[x] = Metabolized(F[x], x, energy[x]) /\ F[x].status \in Metabolic
        BY <1>2, <2>2
      <3>2. LET r == F[x]
                m == Metabolized(F[x], x, energy[x])
            IN  /\ m \in FactType
                /\ m.fellAt = r.fellAt /\ m.cutoff = r.cutoff /\ m.bornAt = r.bornAt
                /\ r.decayed => m.decayed
                /\ \/ m = r
                   \/ r.atRisk /\ m.atRisk = FALSE /\ m.status = RestoredStatusFor(x)
                   \/ ~r.atRisk /\ m.decayed /\ m.status = "AT_RISK"
                   \/ r.atRisk /\ m.atRisk /\ m.status \in {"PRUNED", "EXPIRED"}
        <4>1. F[x] \in FactType
          BY <1>3
        <4>. QED
          BY <4>1, MetabolizedFields
      <3>3. RestoredStatusFor(x) = IF IsConjecture(x) THEN "PROVISIONAL" ELSE "ACTIVE"
        BY DEF RestoredStatusFor
      <3>. QED
        BY <1>3, <2>1, <3>1, <3>2, <3>3 DEF Aged, Metabolic
    <2>3. CASE x \notin alive
      <3>1. fact'[x] = F[x]
        BY <1>2, <2>3
      <3>. QED
        BY <1>3, <2>1, <3>1 DEF Aged
    <2>. QED
      BY <2>2, <2>3
  <1>5. fact' \in [Ids -> FactType]
    BY <1>2, <1>4
  <1>. QED
    BY <1>4, <1>5, AgingKeeps DEF EpochWork

-----------------------------------------------------------------------------
(* The specification *)

\* A chain without claims satisfies the invariant.
LEMMA InitHolds == Init => IInv
  <1>. SUFFICES ASSUME Init PROVE IInv
    OBVIOUS
  <1>1. ASSUME NEW x \in Ids
        PROVE  /\ claim[x] \in ClaimType /\ fact[x] \in FactType
               /\ claim[x].kind = "claim" /\ claim[x].text = None
               /\ claim[x].state \in {"absent", "accepted"}
               /\ claim[x].state = "accepted" => x \in Genesis /\ claim[x].deps \subseteq Genesis
               /\ claim[x].state = "absent" => claim[x] = NoClaim
               /\ claim[x].deps \subseteq Genesis
               /\ x \in Genesis => claim[x].state = "accepted" /\ fact[x].status = "VERIFIED"
               /\ x \notin Genesis => claim[x].state = "absent" /\ fact[x].status = "NONE"
               /\ fact[x].fellAt = 0 /\ ~fact[x].atRisk
    <2>1. NoClaim \in ClaimType /\ NoFact \in FactType
      BY DEF NoClaim, NoFact, ClaimType, FactType, Kinds, Statuses
    <2>2. /\ NoClaim.state = "absent" /\ NoClaim.kind = "claim" /\ NoClaim.text = None
          /\ NoClaim.deps = {}
          /\ NoFact.status = "NONE" /\ NoFact.fellAt = 0 /\ ~NoFact.atRisk
      BY DEF NoClaim, NoFact
    <2>3. CASE x \in Genesis
      <3>1. /\ claim[x] = [NoClaim EXCEPT !.state = "accepted", !.deps = GenesisDeps[x]]
            /\ fact[x] = [NoFact EXCEPT !.status = "VERIFIED"]
            /\ GenesisDeps[x] \subseteq Genesis /\ Genesis \subseteq Ids
        BY <2>3, IdsAssumption DEF Init
      <3>. QED
        BY <2>1, <2>2, <2>3, <3>1 DEF ClaimType, FactType, Statuses
    <2>4. CASE x \notin Genesis
      <3>1. claim[x] = NoClaim /\ fact[x] = NoFact
        BY <2>4 DEF Init
      <3>. QED
        BY <2>1, <2>2, <2>4, <3>1
    <2>. QED
      BY <2>3, <2>4
  <1>0. height = 1 /\ stage = "txs" /\ taken = [t \in Texts |-> None]
    BY DEF Init
  <1>2. TypeOK
    <2>1. claim \in [Ids -> ClaimType] /\ fact \in [Ids -> FactType]
      BY <1>1 DEF Init
    <2>. QED
      BY <1>0, <2>1, BoundsAssumption DEF TypeOK
  <1>3. Shape
    BY <1>1, IdsAssumption DEF Shape, Exists, Pleads
  <1>4. OneOpen /\ OnlyQuestions /\ QuestionStaysOpen
    BY <1>1 DEF OneOpen, Opens, OnlyQuestions, QuestionStaysOpen, IsConjecture
  <1>5. DecayMarked /\ FellBefore
    BY <1>0, <1>1 DEF DecayMarked, FellBefore
  <1>6. Unopposed
    BY <1>1, IdsAssumption DEF Unopposed, standingCounterFact, Contradicting
  <1>7. RefutedByChallenge /\ Indexed
    BY <1>1 DEF RefutedByChallenge, Indexed
  <1>. QED
    BY <1>2, <1>3, <1>4, <1>5, <1>6, <1>7 DEF IInv

\* Every transaction keeps the invariant.
LEMMA TxKeeps ==
    ASSUME IInv, Tx
    PROVE  IInv' /\ StaysFallen
  <1>1. ASSUME NEW c \in Ids, SubmitClaim(c)
        PROVE  IInv' /\ StaysFallen
    <2>1. PICK text \in Texts, deps \in SUBSET {f \in Ids : Exists(f) /\ ~IsConjecture(f)} :
             /\ ~blockingDuplicate(text)
             /\ Admit(c, "claim", None, deps, text)
             /\ fact' = fact
      BY <1>1 DEF SubmitClaim
    <2>2. deps \in SUBSET Ids /\ \A d \in deps : Exists(d)
      BY <2>1
    <2>. QED
      BY <2>1, <2>2, Filed DEF Kinds, StaysFallen
  <1>2. ASSUME NEW c \in Ids, PostConjecture(c)
        PROVE  IInv' /\ StaysFallen
    <2>1. PICK text \in Texts : /\ ~blockingDuplicate(text)
                                /\ Admit(c, "conjecture", None, {}, text)
                                /\ fact' = fact
      BY <1>2 DEF PostConjecture
    <2>. QED
      BY <2>1, Filed DEF Kinds, StaysFallen
  <1>3. ASSUME NEW c \in Ids, NEW f \in Ids, SubmitContradiction(c, f)
        PROVE  IInv' /\ StaysFallen
    <2>1. PICK text \in Texts : /\ Exists(f) /\ ~blockingDuplicate(text)
                                /\ Admit(c, "contradiction", f, {}, text)
                                /\ fact' = fact
      BY <1>3 DEF SubmitContradiction
    <2>. QED
      BY <2>1, Filed DEF Kinds, StaysFallen
  <1>4. ASSUME NEW c \in Ids, NEW f \in Ids, ChallengeFact(c, f) \/ ChallengeProvisionalFact(c, f)
        PROVE  IInv' /\ StaysFallen
    <2>1. /\ OpenChallenge(c, f)
          /\ Exists(f) /\ fact[f].status \notin {"DISPROVEN", "PRUNED", "CHALLENGED"}
      BY <1>4 DEF ChallengeFact, ChallengeProvisionalFact, Exists
    <2>2. fact' = [fact EXCEPT ![f].status = "CHALLENGED"] /\ fact \in [Ids -> FactType]
      BY <2>1 DEF OpenChallenge, IInv, TypeOK
    <2>3. \A x \in Ids : x # f => fact'[x] = fact[x]
      BY <2>2
    <2>4. StaysFallen
      BY <2>1, <2>3 DEF StaysFallen
    <2>. QED
      BY <2>1, <2>4, Opened
  <1>. QED
    BY <1>1, <1>2, <1>3, <1>4, PatronizeFactKeeps DEF Tx

\* Every step keeps the invariant and revives no fact that fell.
LEMMA NextKeeps ==
    ASSUME IInv, [Next]_vars
    PROVE  IInv' /\ StaysFallen
  <1>1. CASE Tx
    BY <1>1, TxKeeps
  <1>2. ASSUME NEW c \in Ids, Verdict(c)
        PROVE  IInv' /\ StaysFallen
    BY <1>2, AcceptClaimKeeps, AcceptContradictionKeeps, AcceptChallengeKeeps,
       RejectChallengeKeeps, AbandonChallengeKeeps, EndContradictionKeeps, EndClaimKeeps
       DEF Verdict
  <1>3. CASE EpochWork
    BY <1>3, EpochWorkKeeps
  <1>4. CASE BeginDone \/ UNCHANGED vars
    <2>1. /\ UNCHANGED <<height, claim, taken>> /\ fact' = fact
          /\ stage' \in {"begin", "txs"} /\ fact' \in [Ids -> FactType]
      BY <1>4 DEF BeginDone, vars, IInv, TypeOK
    <2>. QED
      BY <2>1, Ageless, AgingKeeps
  <1>5. CASE NextBlock
    <2>1. /\ height' = height + 1 /\ height \in 1..MaxHeight /\ height < MaxHeight
          /\ stage' = "begin" /\ claim' = claim /\ fact' = fact /\ taken' = taken
      BY <1>5 DEF NextBlock, IInv, TypeOK
    <2>2. TypeOK' /\ StaysFallen
      BY <2>1, BoundsAssumption DEF IInv, TypeOK, StaysFallen
    <2>3. FellBefore'
      BY <2>1, Typed, BoundsAssumption DEF IInv, FellBefore
    <2>4. Shape' /\ OneOpen' /\ OnlyQuestions' /\ QuestionStaysOpen' /\ DecayMarked'
      BY <2>1 DEF IInv, Shape, Exists, Pleads, OneOpen, Opens, OnlyQuestions,
                  QuestionStaysOpen, IsConjecture, DecayMarked
    <2>5. Unopposed' /\ RefutedByChallenge' /\ Indexed'
      BY <2>1 DEF IInv, Unopposed, standingCounterFact, Contradicting, RefutedByChallenge,
                  Indexed, Blocks
    <2>. QED
      BY <2>2, <2>3, <2>4, <2>5 DEF IInv
  <1>. QED
    BY <1>1, <1>2, <1>3, <1>4, <1>5 DEF Next

-----------------------------------------------------------------------------
(* The theorems *)

\* The invariant holds throughout.
LEMMA Inductive == Spec => []IInv
  <1>1. IInv /\ [Next]_vars => IInv'
    BY NextKeeps
  <1>. QED
    BY <1>1, InitHolds, PTL DEF Spec

\* Every stored claim, fact and index entry keeps its shape.
THEOREM TypeCorrect == Spec => []TypeOK
  <1>1. IInv => TypeOK
    BY DEF IInv
  <1>. QED
    BY <1>1, Inductive, PTL

\* A fact is CHALLENGED exactly while one challenge of it is open, although
\* the verdict handlers write their target without looking at its status:
\* cascade, acceptance, metabolism and pruning pass it over in every order.
THEOREM AdjudicationExclusive == Spec => []ChallengedIffOpen
  <1>1. IInv => ChallengedIffOpen
    <2>. SUFFICES ASSUME IInv, NEW f \in Ids
                  PROVE  Cardinality(PendingChallenges(f)) =
                            (IF fact[f].status = "CHALLENGED" THEN 1 ELSE 0)
      BY DEF ChallengedIffOpen
    <2>1. CASE fact[f].status = "CHALLENGED"
      <3>1. PICK c \in Ids : Opens(c, f)
        BY <2>1 DEF IInv, OneOpen
      <3>2. PendingChallenges(f) = {c}
        BY <3>1 DEF IInv, OneOpen, Opens, PendingChallenges
      <3>. QED
        BY <2>1, <3>2, FS_Singleton
    <2>2. CASE fact[f].status # "CHALLENGED"
      <3>1. PendingChallenges(f) = {}
        BY <2>2 DEF IInv, OneOpen, Opens, PendingChallenges
      <3>. QED
        BY <2>2, <3>1, FS_EmptySet
    <2>. QED
      BY <2>1, <2>2
  <1>. QED
    BY <1>1, Inductive, PTL

\* Standing is never laundered: what reads VERIFIED or ACTIVE and never decayed
\* has no accepted conflict standing against it and rests on nothing refuted
\* since its birth and its last survived challenge, however contradictions,
\* shield challenges, starved rounds and cascades are interleaved.
THEOREM StandingUnopposed == Spec => []Unopposed
  <1>1. IInv => Unopposed
    BY DEF IInv
  <1>. QED
    BY <1>1, Inductive, PTL

\* No route gives a conjecture truth standing.
THEOREM ConjecturesStayQuestions == Spec => []QuestionStaysOpen
  <1>1. IInv => QuestionStaysOpen
    BY DEF IInv
  <1>. QED
    BY <1>1, Inductive, PTL

\* Only an accepted challenge of a fact refutes it.
THEOREM RefutationsAdjudicated == Spec => []RefutedByChallenge
  <1>1. IInv => RefutedByChallenge
    BY DEF IInv
  <1>. QED
    BY <1>1, Inductive, PTL

\* An index that names one record per text is enough to keep live and standing
\* texts distinct.
THEOREM TextsDistinct == Spec => []NoTwin
  <1>1. IInv => NoTwin
    BY DEF IInv, Indexed, NoTwin
  <1>. QED
    BY <1>1, Inductive, PTL

\* DISPROVEN and PRUNED are final.
THEOREM FallsAreFinal == Spec => FallenForGood
  <1>1. IInv /\ [Next]_vars =>
           [\A f \in Ids : fact[f].status \in {"DISPROVEN", "PRUNED"} =>
               fact'[f].status = fact[f].status]_vars
    BY NextKeeps DEF StaysFallen
  <1>. QED
    BY <1>1, Inductive, PTL DEF Spec, FallenForGood

=============================================================================
