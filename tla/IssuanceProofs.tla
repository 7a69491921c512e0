---------------------------- MODULE IssuanceProofs ----------------------------
(* Proofs about what mints and releases coins: the substrate bridge, for any *)
(* number of attestations, sources and adapters and any history before the   *)
(* upgrade; vesting schedules, for any claims, recipients, amounts and       *)
(* curve; claiming pots, for any agents, pots and changes of parameters; and *)
(* tokens, for any accounts, features, amounts and emission periods.         *)
(* All but the bridge are instances: Vest!TypeOK is the TypeOK of Vesting.   *)
EXTENDS SubstrateBridge, TotalsProofs, SequenceTheorems

CONSTANTS Claims, Facts, FactOf, Recipients, Totals, CliffBlocks, HalfLifeBlocks, MaxRelease, Precision,
          FractionalScale, Ln2Scaled, ReleasedClawbackRate, Evidence, MaxEvidence, Funds, LastCreation    \* Vesting
VARIABLES schedule, claimIndex, disproven, clawbacks, balance, vestPaid                                    \* Vesting

CONSTANTS Agents, PerUnit, WindowBlocks, MaxPots, Shapes, ParamChoices, OtherMint                          \* ClaimingPot
VARIABLES pot, claims, committed, counter, window, params, version, potSupply, registered                  \* ClaimingPot

CONSTANTS Accounts, Gov, Void, FeatureSets, Initials, Maxima, Amounts, Ranges, Rates, Blocked, StartSupply, MaxTokens \* Tokens
VARIABLES tok, bal, allow, deleg, tot, wrapped, periods, latch, tokSupply, got                             \* Tokens

Vest == INSTANCE Vesting WITH paid <- vestPaid
Claiming == INSTANCE ClaimingPot WITH supply <- potSupply
Tok == INSTANCE Tokens WITH supply <- tokSupply

\* The finite sets and the sums of the instances are those of this module.
LEMMA VestCounts ==
    /\ \A S : Vest!IsFiniteSet(S) <=> IsFiniteSet(S)
    /\ \A S : Vest!Cardinality(S) = Cardinality(S)
    /\ \A f : Vest!Total(f) = Total(f)
  BY DEF IsFiniteSet, Cardinality, Vest!IsFiniteSet, Vest!Cardinality, Total, Vest!Total, Coins, Vest!Coins

LEMMA ClaimingCounts ==
    /\ \A S : Claiming!IsFiniteSet(S) <=> IsFiniteSet(S)
    /\ \A S : Claiming!Cardinality(S) = Cardinality(S)
    /\ \A f : Claiming!Total(f) = Total(f)
  BY DEF IsFiniteSet, Cardinality, Claiming!IsFiniteSet, Claiming!Cardinality, Total, Claiming!Total, Coins, Claiming!Coins

LEMMA TokenCounts ==
    /\ \A S : Tok!IsFiniteSet(S) <=> IsFiniteSet(S)
    /\ \A S : Tok!Cardinality(S) = Cardinality(S)
    /\ \A f : Tok!Total(f) = Total(f)
  BY DEF IsFiniteSet, Cardinality, Tok!IsFiniteSet, Tok!Cardinality, Total, Tok!Total, Coins, Tok!Coins

-----------------------------------------------------------------------------
(* The inductive invariant *)

Paid == {"settled", "partial"}
Flights(A) == {id \in Ids : InFlight(A[id])}

\* What an attestation, its held-back reward p, its minted coins c and the
\* height say of each other.
RecordOK(a, p, c, h) ==
    /\ a \in AttestationRecord /\ p \in Nat
    /\ a.reward = c
    /\ a.reward > 0 => a.status \in Paid
    /\ a.settledAt <= h
    /\ p # 0 => a.status = "settled" /\ a.reward = 0 /\ p >= a.settledAt + ChallengeWindow

RecordsOK == \A id \in Ids : RecordOK(att[id], pending[id], coined[id], height)

\* Attestations are numbered in the order of their submission.
Numbered == \E n \in 0..Last : \A id \in Ids : att[id].status # "none" <=> id <= n

\* The scans run on an armed chain, and the sweep handles rewards that are due.
ScansOK ==
    /\ stage # "txs" => armed
    /\ stage = "sweep" => \A id \in todo : pending[id] # 0 /\ pending[id] <= height

MoneyOK ==
    /\ supply \in Nat /\ supply <= MaxSupply
    /\ escrow <= supply
    /\ escrow = Bond * Cardinality(Flights(att))

\* Who has minted for a source since the arming holds it.
HoldersOK == \A s \in Sources : \A id \in minters[s] : ref[s] = id /\ att[id].status \in Paid

IInv == TypeOK /\ RecordsOK /\ Numbered /\ ScansOK /\ MoneyOK /\ HoldersOK

-----------------------------------------------------------------------------
(* Arithmetic and counting *)

\* The parameters the proofs compute with are amounts.
LEMMA RewardAmounts ==
    ASSUME BridgeAssumption
    PROVE  /\ Last \in Nat /\ Bond \in Nat \ {0} /\ ChallengeWindow \in Nat
           /\ ChallengeWindow # 0 /\ Base \in Nat /\ WitnessReward \in Nat
           /\ OtherMints \subseteq Nat /\ MaxHeight \in Nat \ {0}
  BY DEF BridgeAssumption

\* What MintWithCap grants is no more than asked and leaves the cap.
LEMMA MintFits ==
    ASSUME MaxSupplyAssumption, NEW s \in Nat, s <= MaxSupply, NEW n \in Nat
    PROVE  /\ MintWithCap(s, n) \in Nat
           /\ MintWithCap(s, n) <= n
           /\ s + MintWithCap(s, n) \in Nat
           /\ s + MintWithCap(s, n) <= MaxSupply
  BY DEF MintWithCap, MaxSupplyAssumption

\* Quotients of amounts are amounts.
LEMMA DivNat ==
    ASSUME NEW a \in Nat, NEW b \in Nat \ {0}
    PROVE  a \div b \in Nat
  OBVIOUS

\* The reward formula gives an amount.
LEMMA RewardNat ==
    ASSUME BridgeAssumption, NEW a \in AttestationRecord, ~WitnessOnly(a)
    PROVE  Reward(a) \in Nat
  <1>0. a.verified \in Nat /\ a.cited \in Nat /\ a.claims \in Nat
    BY DEF AttestationRecord
  <1>. DEFINE all == a.cited + a.claims
              good == a.verified + a.cited
  <1>1. all \in Nat \ {0} /\ good \in Nat
    BY <1>0 DEF WitnessOnly
  <1>2. Ratio(a) \in Nat
    <2>. HIDE DEF all, good
    <2>1. good * 10000 \in Nat
      BY <1>1
    <2>2. (good * 10000) \div all \in Nat
      BY <1>1, <2>1, DivNat
    <2>. QED
      BY <2>2 DEF Ratio, all, good
  <1>3. Base \in Nat /\ Weight \in Nat
    BY DEF BridgeAssumption
  <1>. DEFINE r == Ratio(a)
              L == (Base * r) \div 10000
  <1>. HIDE DEF r
  <1>4. L \in Nat
    <2>1. Base * r \in Nat
      BY <1>2, <1>3 DEF r
    <2>. QED
      BY <2>1, DivNat
  <1>. HIDE DEF L
  <1>5. L * Weight * 5000 \in Nat
    <2>1. L * Weight \in Nat
      BY <1>3, <1>4
    <2>. QED
      BY <2>1
  <1>6. ((L * Weight * 5000) \div 10000) \div 10000 \in Nat
    BY <1>5, DivNat
  <1>. QED
    BY <1>3, <1>6 DEF Reward, L, r

\* Bonds of one attestation more.
LEMMA BondTimes ==
    ASSUME BridgeAssumption, NEW n \in Nat
    PROVE  Bond * (n + 1) = Bond * n + Bond /\ Bond * n \in Nat /\ Bond \in Nat
  BY DEF BridgeAssumption

\* Identifiers are finitely many, so any set of them is counted.
LEMMA CountedIds ==
    ASSUME BridgeAssumption, NEW S \in SUBSET Ids
    PROVE  IsFiniteSet(S) /\ Cardinality(S) \in Nat
  <1>1. IsFiniteSet(Ids)
    BY FS_Interval DEF Ids, BridgeAssumption
  <1>. QED
    BY <1>1, FS_Subset, FS_CardinalityType

\* A set with at most one element, and one of which any two members agree.
LEMMA AtMostOne ==
    ASSUME NEW S, IsFiniteSet(S)
    PROVE  Cardinality(S) <= 1 <=> \A x, y \in S : x = y
  <1>1. ASSUME \A x, y \in S : x = y
        PROVE  Cardinality(S) <= 1
    <2>1. S = {} \/ \E x : S = {x}
      BY <1>1
    <2>. QED
      BY <2>1, FS_EmptySet, FS_Singleton
  <1>2. ASSUME Cardinality(S) <= 1, NEW x \in S, NEW y \in S, x # y
        PROVE  FALSE
    <2>1. IsFiniteSet(S \ {x}) /\ Cardinality(S \ {x}) = Cardinality(S) - 1
      BY FS_RemoveElement
    <2>2. Cardinality(S \ {x}) \in Nat /\ Cardinality(S) \in Nat
      BY <2>1, FS_CardinalityType
    <2>3. Cardinality(S \ {x}) = 0
      BY <1>2, <2>1, <2>2
    <2>4. S \ {x} = {}
      BY <2>1, <2>3, FS_EmptySet
    <2>. QED
      BY <1>2, <2>4
  <1>. QED
    BY <1>1, <1>2

-----------------------------------------------------------------------------
(* What steps leave of the records *)

\* The facts of one attestation.
LEMMA StoredRecord ==
    ASSUME IInv, NEW id \in Ids
    PROVE  /\ RecordOK(att[id], pending[id], coined[id], height)
           /\ att[id] \in AttestationRecord
           /\ att[id].status \in Statuses /\ att[id].source \in Sources \cup {Unsourced}
           /\ att[id].reward \in Nat /\ att[id].settledAt \in Nat /\ att[id].reward = coined[id]
           /\ att[id].status \notin Paid => coined[id] = 0 /\ att[id].reward = 0 /\ pending[id] = 0
           /\ pending[id] # 0 => coined[id] = 0 /\ att[id].reward = 0 /\ att[id].status = "settled"
           /\ height \in Nat /\ pending[id] \in Nat /\ coined[id] \in Nat
           /\ id \in Nat /\ id # None
  <1>1. RecordOK(att[id], pending[id], coined[id], height)
    BY DEF IInv, RecordsOK
  <1>2. height \in Nat /\ coined[id] \in Nat /\ id \in Nat /\ id # None
    BY DEF IInv, TypeOK, Ids, None
  <1>. QED
    BY <1>1, <1>2 DEF RecordOK, AttestationRecord, Paid

\* A step that touches one attestation keeps the records if it keeps that one.
LEMMA OneRecord ==
    ASSUME IInv, NEW id \in Ids, NEW b, NEW p, NEW c, height' = height,
           att' = [att EXCEPT ![id] = b], pending' = [pending EXCEPT ![id] = p],
           coined' = [coined EXCEPT ![id] = c], RecordOK(b, p, c, height), c \in Nat
    PROVE  /\ RecordsOK'
           /\ att' \in [Ids -> AttestationRecord] /\ pending' \in [Ids -> Nat] /\ coined' \in [Ids -> Nat]
  <1>1. att \in [Ids -> AttestationRecord] /\ pending \in [Ids -> Nat] /\ coined \in [Ids -> Nat]
    BY DEF IInv, TypeOK
  <1>2. b \in AttestationRecord /\ p \in Nat
    BY DEF RecordOK
  <1>3. ASSUME NEW i \in Ids
        PROVE  RecordOK(att'[i], pending'[i], coined'[i], height')
    <2>1. CASE i = id
      <3>1. att'[i] = b /\ pending'[i] = p /\ coined'[i] = c
        BY <1>1, <2>1
      <3>. QED
        BY <3>1
    <2>2. CASE i # id
      <3>1. att'[i] = att[i] /\ pending'[i] = pending[i] /\ coined'[i] = coined[i]
        BY <1>1, <2>2
      <3>2. RecordOK(att[i], pending[i], coined[i], height)
        BY StoredRecord
      <3>. QED
        BY <3>1, <3>2
    <2>. QED
      BY <2>1, <2>2
  <1>4. RecordsOK'
    BY <1>3 DEF RecordsOK, RecordOK, AttestationRecord
  <1>. QED
    BY <1>1, <1>2, <1>4

\* An attestation that ends frees one bond.
LEMMA FlightEndsOnce ==
    ASSUME BridgeAssumption, IInv, NEW id \in Ids, InFlight(att[id]), NEW b, ~InFlight(b),
           att' = [att EXCEPT ![id] = b]
    PROVE  /\ escrow - Bond = Bond * Cardinality(Flights(att'))
           /\ escrow - Bond \in Nat /\ Bond <= supply /\ supply \in Nat /\ Bond \in Nat
  <1>. DEFINE F == Flights(att)
              n == Cardinality(F \ {id})
  <1>1. id \in F /\ F \in SUBSET Ids
    BY DEF Flights
  <1>2. Flights(att') = F \ {id}
    BY DEF Flights, IInv, TypeOK
  <1>3. IsFiniteSet(F) /\ Cardinality(F) \in Nat
    BY <1>1, CountedIds
  <1>4. n \in Nat /\ Cardinality(F) = n + 1
    <2>. HIDE DEF F
    <2>1. IsFiniteSet(F \ {id}) /\ Cardinality(F \ {id}) = Cardinality(F) - 1
      BY <1>1, <1>3, FS_RemoveElement
    <2>2. n \in Nat
      BY <2>1, FS_CardinalityType
    <2>. QED
      BY <1>3, <2>1, <2>2
  <1>5. escrow = Bond * Cardinality(F) /\ escrow <= supply /\ supply \in Nat
    BY DEF IInv, MoneyOK
  <1>. HIDE DEF F, n
  <1>6. escrow = Bond * n + Bond /\ Bond * n \in Nat /\ Bond \in Nat
    BY <1>4, <1>5, BondTimes
  <1>7. escrow - Bond = Bond * n /\ Bond <= supply
    BY <1>5, <1>6
  <1>. QED
    BY <1>2, <1>5, <1>6, <1>7 DEF n

\* A step that changes the status of no attestation into or out of flight, or
\* in which nobody's submission counts as new.
LEMMA SameFlights ==
    ASSUME IInv, NEW id \in Ids, NEW b, InFlight(b) <=> InFlight(att[id]), b.status # "none",
           att[id].status # "none", att' = [att EXCEPT ![id] = b]
    PROVE  Flights(att') = Flights(att) /\ Numbered'
  <1>1. Flights(att') = Flights(att)
    BY DEF Flights, IInv, TypeOK
  <1>2. \A i \in Ids : att'[i].status # "none" <=> att[i].status # "none"
    BY DEF IInv, TypeOK
  <1>. QED
    BY <1>1, <1>2 DEF IInv, Numbered

\* The numbers stay in order.
LEMMA SameNumbers ==
    ASSUME IInv, NEW id \in Ids, NEW b, b.status # "none", att[id].status # "none", att' = [att EXCEPT ![id] = b]
    PROVE  Numbered'
  <1>1. \A i \in Ids : att'[i].status # "none" <=> att[i].status # "none"
    BY DEF IInv, TypeOK
  <1>. QED
    BY <1>1 DEF IInv, Numbered

\* The history a chain may start with satisfies the invariant.
LEMMA InitHolds ==
    ASSUME MaxSupplyAssumption, BridgeAssumption, Init
    PROVE  IInv
  <1>1. PICK n \in 0..Legacy : \E history \in [1..n -> LegacyAttestation] :
            att = [id \in Ids |-> IF id <= n THEN history[id] ELSE NoAttestation]
    BY DEF Init
  <1>2. PICK history \in [1..n -> LegacyAttestation] :
            att = [id \in Ids |-> IF id <= n THEN history[id] ELSE NoAttestation]
    BY <1>1
  <1>3. n \in Nat /\ n <= Last /\ Last \in Nat
    BY DEF BridgeAssumption
  <1>4. ASSUME NEW a \in LegacyAttestation
        PROVE  /\ a \in AttestationRecord /\ a.status \in Statuses \ {"none"}
               /\ a.settledAt \in {0, 1} /\ (~InFlight(a) => a.settledAt = 1)
               /\ a.reward > 0 => a.status \in Paid
    <2>1. /\ a.status \in Statuses \ {"none"} /\ a.source \in Sources \cup {Unsourced} /\ a.cited \in {0, 1}
          /\ a.claims \in 0..MaxClaims /\ a.verified \in 0..MaxClaims /\ a.rejected \in 0..MaxClaims
          /\ a.at \in {1} /\ a.settledAt \in {0, 1} /\ a.reward \in {0, Base, WitnessReward}
          /\ a = [status |-> a.status, source |-> a.source, cited |-> a.cited, claims |-> a.claims,
                  verified |-> a.verified, rejected |-> a.rejected, at |-> a.at, settledAt |-> a.settledAt,
                  reward |-> a.reward]
      BY DEF LegacyAttestation
    <2>2. a.settledAt = (IF InFlight(a) THEN 0 ELSE 1)
      BY DEF LegacyAttestation
    <2>3. InFlight(a) \/ a.status = "rejected" => a.reward = 0
      BY DEF LegacyAttestation
    <2>4. a.reward > 0 => a.status \in Paid
      BY <2>1, <2>3 DEF Statuses, InFlight, Paid
    <2>5. a.reward \in Nat
      <3>1. Base \in Nat /\ WitnessReward \in Nat
        BY RewardAmounts
      <3>. QED
        BY <2>1, <3>1
    <2>6. a \in AttestationRecord
      BY <2>1, <2>5 DEF AttestationRecord
    <2>. QED
      BY <2>1, <2>2, <2>4, <2>6
  <1>5. /\ NoAttestation \in AttestationRecord /\ NoAttestation.status = "none"
        /\ NoAttestation.reward = 0 /\ NoAttestation.settledAt = 0
    BY DEF NoAttestation, AttestationRecord, Statuses
  <1>6. \A id \in Ids : id \in Nat /\ (id <= n => id \in 1..n /\ att[id] = history[id] /\ history[id] \in LegacyAttestation)
                        /\ (~(id <= n) => att[id] = NoAttestation)
    BY <1>2, <1>3 DEF Ids
  <1>7. Numbered
    <2>1. \A id \in Ids : att[id].status # "none" <=> id <= n
      BY <1>4, <1>5, <1>6
    <2>2. n \in 0..Last
      BY <1>3
    <2>. QED
      BY <2>1, <2>2 DEF Numbered
  <1>8. \A id \in Ids : att[id] \in AttestationRecord /\ att[id].settledAt \in {0, 1} /\ att[id].reward \in Nat
                        /\ (att[id].reward > 0 => att[id].status \in Paid)
                        /\ (att[id].status = "settled" => att[id].settledAt = 1)
    <2>. TAKE id \in Ids
    <2>1. CASE id <= n
      <3>1. att[id] \in LegacyAttestation
        BY <1>6, <2>1
      <3>2. att[id] \in AttestationRecord /\ (att[id].reward > 0 => att[id].status \in Paid)
            /\ att[id].settledAt \in {0, 1} /\ (~InFlight(att[id]) => att[id].settledAt = 1)
        BY <1>4, <3>1
      <3>. QED
        BY <3>2 DEF AttestationRecord, InFlight
    <2>2. CASE ~(id <= n)
      <3>1. att[id] = NoAttestation
        BY <1>6, <2>2
      <3>. QED
        BY <1>5, <3>1
    <2>. QED
      BY <2>1, <2>2
  <1>9. /\ pending \in [Ids -> {0, 1 + ChallengeWindow}] /\ ChallengeWindow \in Nat \ {0}
        /\ \A id \in Ids : pending[id] # 0 => att[id].status = "settled" /\ att[id].reward = 0
    <2>1. pending \in [Ids -> IF HeldRewards THEN {0, 1 + ChallengeWindow} ELSE {0}]
      BY DEF Init
    <2>2. \A id \in Ids : pending[id] # 0 => att[id].status = "settled" /\ att[id].reward = 0
      BY DEF Init
    <2>3. pending \in [Ids -> {0, 1 + ChallengeWindow}]
      <3>1. CASE HeldRewards
        BY <2>1, <3>1
      <3>2. CASE ~HeldRewards
        <4>1. pending \in [Ids -> {0}]
          BY <2>1, <3>2
        <4>. QED
          BY <4>1
      <3>. QED
        BY <3>1, <3>2
    <2>4. ChallengeWindow \in Nat \ {0}
      BY RewardAmounts
    <2>. QED
      BY <2>2, <2>3, <2>4
  <1>10. coined = [id \in Ids |-> att[id].reward] /\ height = 1
    BY DEF Init
  <1>11. RecordsOK
    <2>. SUFFICES ASSUME NEW id \in Ids
                  PROVE  RecordOK(att[id], pending[id], coined[id], height)
      BY DEF RecordsOK
    <2>. QED
      BY <1>8, <1>9, <1>10 DEF RecordOK
  <1>12. MoneyOK
    <2>1. Flights(att) \in SUBSET Ids /\ Flights(att) = {id \in Ids : InFlight(att[id])}
      BY DEF Flights
    <2>2. Cardinality(Flights(att)) \in Nat
      BY <2>1, CountedIds
    <2>3. escrow = Bond * Cardinality(Flights(att))
      BY DEF Init, Flights
    <2>4. supply \in Supplies /\ supply >= escrow
      BY DEF Init
    <2>5. escrow \in Nat
      BY <2>2, <2>3, BondTimes
    <2>6. supply \in Nat /\ supply <= MaxSupply
      BY <2>4 DEF BridgeAssumption, MaxSupplyAssumption
    <2>. QED
      BY <2>3, <2>4, <2>5, <2>6 DEF MoneyOK
  <1>13. TypeOK
    <2>1. att \in [Ids -> AttestationRecord]
      BY <1>2, <1>8
    <2>2. pending \in [Ids -> Nat] /\ coined \in [Ids -> Nat]
      BY <1>8, <1>9, <1>10
    <2>3. supply \in Nat /\ escrow \in Int
      <3>1. Flights(att) \in SUBSET Ids
        BY DEF Flights
      <3>. QED
        BY <1>12, <3>1, CountedIds, BondTimes DEF MoneyOK
    <2>4. height \in 1..MaxHeight
      BY <1>10, RewardAmounts
    <2>. QED
      BY <2>1, <2>2, <2>3, <2>4 DEF Init, TypeOK, Ids, None
  <1>14. ScansOK /\ HoldersOK
    BY DEF Init, ScansOK, HoldersOK
  <1>. QED
    BY <1>7, <1>11, <1>12, <1>13, <1>14 DEF IInv

\* Without a mint, holders stay if they keep their source and their status.
LEMMA HoldersKept ==
    ASSUME IInv, minters' = minters,
           \A s \in Sources : minters[s] # {} => ref'[s] = ref[s],
           \A i \in Ids : att[i].status \in Paid => att'[i].status \in Paid
    PROVE  HoldersOK'
  BY DEF IInv, TypeOK, HoldersOK

-----------------------------------------------------------------------------
(* The actions, one by one *)

\* A new attestation takes the next number, a free source and one bond.
LEMMA SubmitKeeps ==
    ASSUME BridgeAssumption, IInv, NEW s \in Sources, NEW cited \in {0, 1}, Submit(s, cited)
    PROVE  IInv'
  <1>. DEFINE id == Cardinality({i \in Ids : att[i].status # "none"}) + 1
              b == [NoAttestation EXCEPT !.status = "ready", !.source = s, !.cited = cited, !.at = height]
  <1>1. /\ id \in Ids /\ SourceFree(s) /\ supply - escrow >= Bond /\ stage = "txs" /\ armed' = TRUE
        /\ att' = [att EXCEPT ![id] = b] /\ ref' = [ref EXCEPT ![s] = id] /\ escrow' = escrow + Bond
        /\ height' = height /\ stage' = stage /\ todo' = todo /\ pending' = pending /\ adapter' = adapter
        /\ supply' = supply /\ coined' = coined /\ minters' = minters
    BY DEF Submit
  <1>2. PICK n \in 0..Last : \A i \in Ids : att[i].status # "none" <=> i <= n
    BY DEF IInv, Numbered
  <1>3. id = n + 1
    <2>1. n \in Nat /\ n <= Last /\ Last \in Nat
      BY DEF BridgeAssumption
    <2>2. {i \in Ids : att[i].status # "none"} = 1..n
      BY <1>2, <2>1 DEF Ids
    <2>3. Cardinality(1..n) = n
      BY <2>1, FS_Interval
    <2>. QED
      BY <2>2, <2>3
  <1>4. /\ b.status = "ready" /\ b.source = s /\ b.cited = cited /\ b.at = height /\ b.settledAt = 0 /\ b.reward = 0
        /\ b \in AttestationRecord
    <2>. DEFINE m == [NoAttestation EXCEPT !.status = "ready"]
                o == [m EXCEPT !.source = s]
                q == [o EXCEPT !.cited = cited]
    <2>1. height \in Nat /\ cited \in Nat
      BY DEF IInv, TypeOK
    <2>2. /\ m \in AttestationRecord /\ m.status = "ready" /\ m.settledAt = 0 /\ m.reward = 0
      BY DEF NoAttestation, AttestationRecord, Statuses
    <2>3. b = [q EXCEPT !.at = height]
      OBVIOUS
    <2>. HIDE DEF m
    <2>4. o \in AttestationRecord /\ o.status = "ready" /\ o.source = s /\ o.settledAt = 0 /\ o.reward = 0
      BY <2>2 DEF AttestationRecord
    <2>. HIDE DEF o
    <2>5. /\ q \in AttestationRecord /\ q.status = "ready" /\ q.source = s /\ q.cited = cited
          /\ q.settledAt = 0 /\ q.reward = 0
      BY <2>1, <2>4 DEF AttestationRecord
    <2>. HIDE DEF q, b
    <2>. QED
      BY <2>1, <2>3, <2>5 DEF AttestationRecord
  <1>. HIDE DEF id, b
  <1>5. att[id].status = "none" /\ n \in Nat /\ id \in Nat
    <2>1. id \in Nat
      BY <1>1 DEF Ids
    <2>2. n \in Nat
      BY <1>3, RewardAmounts
    <2>3. ~(id <= n)
      BY <1>3, <2>1, <2>2
    <2>. QED
      BY <1>1, <1>2, <2>1, <2>2, <2>3
  <1>6. coined[id] = 0 /\ pending[id] = 0 /\ height \in Nat /\ id # None
    BY <1>1, <1>5, StoredRecord DEF Paid
  <1>7. /\ RecordsOK'
        /\ att' \in [Ids -> AttestationRecord] /\ pending' \in [Ids -> Nat] /\ coined' \in [Ids -> Nat]
    <2>1. RecordOK(b, 0, 0, height)
      BY <1>4, <1>6 DEF RecordOK
    <2>2. pending' = [pending EXCEPT ![id] = 0] /\ coined' = [coined EXCEPT ![id] = 0]
      BY <1>1, <1>6 DEF IInv, TypeOK
    <2>. QED
      BY <1>1, <2>1, <2>2, OneRecord
  <1>8. Numbered'
    <2>1. n + 1 \in 0..Last
      BY <1>1, <1>2, <1>3, RewardAmounts DEF Ids
    <2>2. \A i \in Ids : att'[i].status # "none" <=> i <= n + 1
      <3>. TAKE i \in Ids
      <3>1. CASE i = id
        BY <1>1, <1>3, <1>4, <1>5, <3>1 DEF IInv, TypeOK
      <3>2. CASE i # id
        <4>1. att'[i] = att[i] /\ i \in Nat
          BY <1>1, <3>2 DEF IInv, TypeOK, Ids
        <4>. QED
          BY <1>2, <1>3, <1>5, <3>2, <4>1
      <3>. QED
        BY <3>1, <3>2
    <2>. QED
      BY <2>1, <2>2 DEF Numbered
  <1>9. MoneyOK'
    <2>. DEFINE F == Flights(att)
    <2>1. F \in SUBSET Ids /\ id \notin F
      BY <1>5 DEF Flights, InFlight
    <2>2. Flights(att') = F \cup {id}
      BY <1>1, <1>4 DEF Flights, InFlight, IInv, TypeOK
    <2>3. IsFiniteSet(F) /\ Cardinality(F) \in Nat
      BY <2>1, CountedIds
    <2>. HIDE DEF F
    <2>4. Cardinality(F \cup {id}) = Cardinality(F) + 1
      BY <2>1, <2>3, FS_AddElement
    <2>5. escrow = Bond * Cardinality(F) /\ supply \in Nat /\ supply <= MaxSupply
      BY DEF IInv, MoneyOK, F
    <2>6. Bond * Cardinality(F \cup {id}) = escrow + Bond /\ escrow \in Nat /\ Bond \in Nat
      BY <2>3, <2>4, <2>5, BondTimes
    <2>7. escrow' = Bond * Cardinality(Flights(att'))
      BY <1>1, <2>2, <2>6
    <2>. QED
      BY <1>1, <2>5, <2>6, <2>7 DEF MoneyOK, Flights
  <1>10. HoldersOK'
    <2>1. minters[s] = {}
      <3>1. \A i \in minters[s] : ref[s] = i /\ i \in Ids
        BY DEF IInv, HoldersOK, TypeOK
      <3>2. \A i \in Ids : i # None
        BY StoredRecord
      <3>. QED
        BY <1>1, <3>1, <3>2 DEF SourceFree
    <2>2. \A r \in Sources : minters[r] # {} => ref'[r] = ref[r]
      BY <1>1, <2>1 DEF IInv, TypeOK
    <2>3. \A i \in Ids : att[i].status \in Paid => att'[i].status \in Paid
      BY <1>1, <1>5 DEF IInv, TypeOK, Paid
    <2>. QED
      BY <1>1, <2>2, <2>3, HoldersKept
  <1>11. TypeOK'
    <2>1. ref' \in [Sources -> Ids \cup {None}]
      BY <1>1 DEF IInv, TypeOK
    <2>2. escrow' \in Int
      <3>1. escrow \in Int
        BY DEF IInv, TypeOK
      <3>. QED
        BY <1>1, <3>1, RewardAmounts
    <2>. QED
      BY <1>1, <1>7, <2>1, <2>2 DEF IInv, TypeOK
  <1>12. ScansOK'
    BY <1>1 DEF ScansOK
  <1>. QED
    BY <1>7, <1>8, <1>9, <1>10, <1>11, <1>12 DEF IInv

\* A verdict leaves the attestation in flight.
LEMMA ResolvedKeeps ==
    ASSUME BridgeAssumption, IInv, NEW id \in Ids, NEW verdict \in BOOLEAN, OnClaimResolved(id, verdict)
    PROVE  IInv'
  <1>. DEFINE a == [att[id] EXCEPT !.verified = IF verdict THEN @ + 1 ELSE @,
                                   !.rejected = IF verdict THEN @ ELSE @ + 1]
              b == [a EXCEPT !.status = IF a.verified + a.rejected >= a.claims THEN "ready" ELSE @]
  <1>1. /\ stage = "txs" /\ att[id].status = "awaiting" /\ att' = [att EXCEPT ![id] = b]
        /\ height' = height /\ stage' = stage /\ todo' = todo /\ armed' = armed /\ ref' = ref
        /\ pending' = pending /\ adapter' = adapter /\ supply' = supply /\ escrow' = escrow
        /\ coined' = coined /\ minters' = minters
    BY DEF OnClaimResolved, coins
  <1>2. /\ a \in AttestationRecord /\ a.status = "awaiting"
        /\ a.reward = att[id].reward /\ a.settledAt = att[id].settledAt
    <2>. DEFINE r == att[id]
    <2>1. r \in AttestationRecord /\ r.status = "awaiting"
      BY <1>1, StoredRecord
    <2>. HIDE DEF r
    <2>2. r.verified \in Nat /\ r.rejected \in Nat
      BY <2>1 DEF AttestationRecord
    <2>. DEFINE m == [r EXCEPT !.verified = IF verdict THEN r.verified + 1 ELSE r.verified]
    <2>3. a = [m EXCEPT !.rejected = IF verdict THEN r.rejected ELSE r.rejected + 1]
      BY DEF r
    <2>5. m \in AttestationRecord /\ m.status = r.status /\ m.reward = r.reward /\ m.settledAt = r.settledAt
      BY <2>1, <2>2 DEF AttestationRecord
    <2>. HIDE DEF a, m
    <2>4. a \in AttestationRecord /\ a.status = r.status /\ a.reward = r.reward /\ a.settledAt = r.settledAt
      BY <2>2, <2>3, <2>5 DEF AttestationRecord
    <2>. QED
      BY <2>1, <2>4 DEF r
  <1>3. b \in AttestationRecord /\ b.status \in {"awaiting", "ready"} /\ b.reward = a.reward /\ b.settledAt = a.settledAt
    <2>. HIDE DEF a
    <2>. QED
      BY <1>2 DEF AttestationRecord, Statuses
  <1>. HIDE DEF a, b
  <1>4. coined[id] = 0 /\ att[id].reward = 0 /\ pending[id] = 0
        /\ RecordOK(att[id], pending[id], coined[id], height)
    BY <1>1, StoredRecord DEF Paid
  <1>5. /\ RecordsOK'
        /\ att' \in [Ids -> AttestationRecord] /\ pending' \in [Ids -> Nat] /\ coined' \in [Ids -> Nat]
    <2>1. RecordOK(b, 0, 0, height)
      BY <1>2, <1>3, <1>4 DEF RecordOK
    <2>2. pending' = [pending EXCEPT ![id] = 0] /\ coined' = [coined EXCEPT ![id] = 0]
      BY <1>1, <1>4 DEF IInv, TypeOK
    <2>. QED
      BY <1>1, <2>1, <2>2, OneRecord
  <1>6. Flights(att') = Flights(att) /\ Numbered'
    BY <1>1, <1>3, SameFlights DEF InFlight
  <1>7. MoneyOK'
    BY <1>1, <1>6 DEF IInv, MoneyOK, Flights
  <1>8. HoldersOK'
    BY <1>1, HoldersKept DEF IInv, TypeOK, Paid
  <1>9. TypeOK' /\ ScansOK'
    BY <1>1, <1>5 DEF IInv, TypeOK, ScansOK
  <1>. QED
    BY <1>5, <1>6, <1>7, <1>8, <1>9 DEF IInv

\* The record of an attestation that ends.
LEMMA ClosedFields ==
    ASSUME NEW a \in AttestationRecord, NEW st \in Statuses, NEW rw \in Nat, height \in Nat
    PROVE  LET b == Closed(a, st, rw)
           IN  /\ b \in AttestationRecord /\ b.status = st /\ b.settledAt = height /\ b.reward = rw
               /\ b.source = a.source
  <1>. DEFINE m == [a EXCEPT !.status = st]
              o == [m EXCEPT !.settledAt = height]
              b == Closed(a, st, rw)
  <1>1. b = [o EXCEPT !.reward = rw]
    BY DEF Closed
  <1>2. m \in AttestationRecord /\ m.status = st /\ m.source = a.source
    BY DEF AttestationRecord
  <1>. HIDE DEF m
  <1>3. o \in AttestationRecord /\ o.status = st /\ o.settledAt = height /\ o.source = a.source
    BY <1>2 DEF AttestationRecord
  <1>. HIDE DEF o, b
  <1>4. b \in AttestationRecord /\ b.status = st /\ b.settledAt = height /\ b.reward = rw /\ b.source = a.source
    BY <1>1, <1>3 DEF AttestationRecord
  <1>. QED
    BY <1>4 DEF b

\* Taking a source gives it to one who may mint, and takes it from nobody.
LEMMA TakenHolds ==
    ASSUME IInv, NEW id \in Ids, MayMint(id)
    PROVE  /\ RefTaken(id) \in [Sources -> Ids \cup {None}]
           /\ \A s \in Sources : ref[s] # None => RefTaken(id)[s] = ref[s]
           /\ att[id].source # Unsourced => att[id].source \in Sources /\ RefTaken(id)[att[id].source] = id
  <1>1. ref \in [Sources -> Ids \cup {None}] /\ att[id].source \in Sources \cup {Unsourced}
    BY StoredRecord DEF IInv, TypeOK
  <1>2. CASE att[id].source # Unsourced /\ ref[att[id].source] = None
    <2>1. RefTaken(id) = [ref EXCEPT ![att[id].source] = id]
      BY <1>2 DEF RefTaken
    <2>. QED
      BY <1>1, <1>2, <2>1
  <1>3. CASE ~(att[id].source # Unsourced /\ ref[att[id].source] = None)
    <2>1. RefTaken(id) = ref
      BY <1>3 DEF RefTaken
    <2>. QED
      BY <1>1, <1>3, <2>1 DEF MayMint
  <1>. QED
    BY <1>2, <1>3

\* The same when one who may not mint tries: it finds the source taken.
LEMMA TakenTyped ==
    ASSUME IInv, NEW id \in Ids
    PROVE  /\ RefTaken(id) \in [Sources -> Ids \cup {None}]
           /\ \A s \in Sources : ref[s] # None => RefTaken(id)[s] = ref[s]
           /\ ~MayMint(id) => RefTaken(id) = ref
  <1>1. ref \in [Sources -> Ids \cup {None}] /\ att[id].source \in Sources \cup {Unsourced}
    BY StoredRecord DEF IInv, TypeOK
  <1>2. CASE att[id].source # Unsourced /\ ref[att[id].source] = None
    <2>1. RefTaken(id) = [ref EXCEPT ![att[id].source] = id]
      BY <1>2 DEF RefTaken
    <2>. QED
      BY <1>1, <1>2, <2>1 DEF MayMint
  <1>3. CASE ~(att[id].source # Unsourced /\ ref[att[id].source] = None)
    <2>1. RefTaken(id) = ref
      BY <1>3 DEF RefTaken
    <2>. QED
      BY <1>1, <2>1
  <1>. QED
    BY <1>2, <1>3

\* Whoever has minted for a source is its only minter.
LEMMA MintersHold ==
    ASSUME IInv, NEW s \in Sources, minters[s] # {}
    PROVE  ref[s] \in Ids /\ ref[s] # None /\ minters[s] = {ref[s]} /\ att[ref[s]].status \in Paid
  <1>1. minters[s] \in SUBSET Ids /\ \A i \in minters[s] : ref[s] = i /\ att[i].status \in Paid
    BY DEF IInv, TypeOK, HoldersOK
  <1>2. \A i \in Ids : i # None
    BY StoredRecord
  <1>. QED
    BY <1>1, <1>2

\* Minting for one who holds its source, or for one without a source.
LEMMA MintedHolds ==
    ASSUME IInv, NEW id \in Ids, NEW n \in Nat, Minted(id, n), MayMint(id) \/ n = 0,
           att'[id].status \in Paid, att'[id].source = att[id].source,
           \A i \in Ids : att[i].status \in Paid => att'[i].status \in Paid,
           ref' \in [Sources -> Ids \cup {None}],
           \A s \in Sources : ref[s] # None => ref'[s] = ref[s],
           n > 0 /\ att[id].source # Unsourced => ref'[att[id].source] = id
    PROVE  HoldersOK' /\ minters' \in [Sources -> SUBSET Ids]
  <1>1. minters \in [Sources -> SUBSET Ids] /\ att[id].source \in Sources \cup {Unsourced}
    BY StoredRecord DEF IInv, TypeOK
  <1>2. CASE n > 0 /\ att[id].source # Unsourced
    <2>. DEFINE r == att[id].source
    <2>1. r \in Sources /\ minters' = [minters EXCEPT ![r] = minters[r] \cup {id}]
      BY <1>1, <1>2 DEF Minted
    <2>2. ref[r] \in {None, id} /\ ref'[r] = id
      BY <1>2 DEF MayMint
    <2>. HIDE DEF r
    <2>3. minters[r] \subseteq {id}
      BY <2>1, <2>2, MintersHold
    <2>4. ASSUME NEW s \in Sources, NEW i \in minters'[s]
          PROVE  ref'[s] = i /\ att'[i].status \in Paid
      <3>1. CASE s = r
        <4>1. i = id
          BY <1>1, <2>1, <2>3, <2>4, <3>1
        <4>. QED
          BY <2>2, <3>1, <4>1
      <3>2. CASE s # r
        <4>1. i \in minters[s]
          BY <1>1, <2>1, <2>4, <3>2
        <4>. QED
          BY <4>1, MintersHold
      <3>. QED
        BY <3>1, <3>2
    <2>5. HoldersOK'
      BY <2>4 DEF HoldersOK
    <2>. QED
      BY <1>1, <2>1, <2>5
  <1>3. CASE ~(n > 0 /\ att[id].source # Unsourced)
    <2>1. minters' = minters
      BY <1>3 DEF Minted
    <2>2. \A s \in Sources : minters[s] # {} => ref'[s] = ref[s]
      BY MintersHold
    <2>. QED
      BY <1>1, <2>1, <2>2, HoldersKept
  <1>. QED
    BY <1>2, <1>3

\* What all ways of settling have in common: the attestation ends with status st
\* and reward rw, of which nothing, or all in p blocks, is held back, and one bond
\* leaves the module account.
Ends(id, st, rw, p) ==
    /\ InFlight(att[id])
    /\ st \in {"settled", "partial", "rejected"} /\ rw \in Nat /\ p \in Nat
    /\ rw > 0 => st \in Paid
    /\ p # 0 => st = "settled" /\ rw = 0 /\ p = height + ChallengeWindow
    /\ att' = [att EXCEPT ![id] = Closed(att[id], st, rw)]
    /\ pending' = [pending EXCEPT ![id] = p] /\ coined' = [coined EXCEPT ![id] = rw]
    /\ escrow' = escrow - Bond /\ height' = height

\* It keeps the records, the numbers and the bonds.
LEMMA EndKeeps ==
    ASSUME BridgeAssumption, IInv, NEW id \in Ids, NEW st, NEW rw, NEW p, Ends(id, st, rw, p)
    PROVE  /\ RecordsOK' /\ Numbered'
           /\ att' \in [Ids -> AttestationRecord] /\ pending' \in [Ids -> Nat] /\ coined' \in [Ids -> Nat]
           /\ escrow' \in Nat /\ escrow' = Bond * Cardinality(Flights(att'))
           /\ escrow \in Int /\ Bond \in Nat /\ Bond <= supply
           /\ att'[id].status = st /\ att'[id].source = att[id].source
           /\ \A i \in Ids : att[i].status \in Paid => att'[i].status \in Paid
  <1>. USE DEF Ends
  <1>. DEFINE b == Closed(att[id], st, rw)
  <1>1. att[id] \in AttestationRecord /\ height \in Nat
    BY StoredRecord
  <1>2. st \in Statuses
    BY DEF Statuses
  <1>3. b \in AttestationRecord /\ b.status = st /\ b.settledAt = height /\ b.reward = rw /\ b.source = att[id].source
    BY <1>1, <1>2, ClosedFields
  <1>. HIDE DEF b
  <1>4. att' = [att EXCEPT ![id] = b]
    BY DEF b
  <1>5. RecordOK(b, p, rw, height)
    BY <1>1, <1>3, RewardAmounts DEF RecordOK
  <1>6. /\ RecordsOK'
        /\ att' \in [Ids -> AttestationRecord] /\ pending' \in [Ids -> Nat] /\ coined' \in [Ids -> Nat]
    BY <1>4, <1>5, OneRecord
  <1>7. Numbered'
    BY <1>3, <1>4, SameNumbers DEF InFlight
  <1>8. ~InFlight(b)
    BY <1>3 DEF InFlight
  <1>9. escrow - Bond = Bond * Cardinality(Flights(att')) /\ escrow - Bond \in Nat /\ Bond <= supply /\ Bond \in Nat
    BY <1>4, <1>8, FlightEndsOnce
  <1>10. att'[id] = b /\ \A i \in Ids : att[i].status \in Paid => att'[i].status \in Paid
    BY <1>4 DEF IInv, TypeOK, InFlight, Paid
  <1>11. escrow \in Int
    BY DEF IInv, TypeOK
  <1>. QED
    BY <1>3, <1>6, <1>7, <1>9, <1>10, <1>11

\* A settlement keeps the invariant if it keeps these parts of it.
LEMMA SettleParts ==
    ASSUME IInv, NEW id \in Ids, SettleAttestation(id), RecordsOK', Numbered', HoldersOK', MoneyOK',
           att' \in [Ids -> AttestationRecord], pending' \in [Ids -> Nat], coined' \in [Ids -> Nat],
           ref' \in [Sources -> Ids \cup {None}], minters' \in [Sources -> SUBSET Ids],
           supply' \in Nat, escrow' \in Int
    PROVE  IInv'
  <1>1. TypeOK'
    BY DEF IInv, TypeOK, SettleAttestation
  <1>2. ScansOK'
    BY DEF IInv, ScansOK, SettleAttestation
  <1>. QED
    BY <1>1, <1>2 DEF IInv

\* A rejected attestation mints nothing and held no source that has minted.
LEMMA RejectedKeeps ==
    ASSUME MaxSupplyAssumption, BridgeAssumption, IInv, NEW id \in Ids, SettleAttestation(id), SettleRejected(id)
    PROVE  IInv'
  <1>1. /\ InFlight(att[id]) /\ height' = height
        /\ att' = [att EXCEPT ![id] = Closed(att[id], "rejected", 0)]
        /\ ref' = RefReleased(id) /\ supply' = supply - Bond /\ escrow' = escrow - Bond
        /\ pending' = pending /\ coined' = coined /\ minters' = minters
    BY DEF SettleAttestation, SettleRejected
  <1>2. pending[id] = 0 /\ coined[id] = 0
    BY <1>1, StoredRecord DEF InFlight, Paid
  <1>3. pending' = [pending EXCEPT ![id] = 0] /\ coined' = [coined EXCEPT ![id] = 0]
    BY <1>1, <1>2 DEF IInv, TypeOK
  <1>4. /\ RecordsOK' /\ Numbered'
        /\ att' \in [Ids -> AttestationRecord] /\ pending' \in [Ids -> Nat] /\ coined' \in [Ids -> Nat]
        /\ escrow' \in Nat /\ escrow' = Bond * Cardinality(Flights(att'))
        /\ escrow \in Int /\ Bond \in Nat /\ Bond <= supply
        /\ \A i \in Ids : att[i].status \in Paid => att'[i].status \in Paid
    <2>. DEFINE st == "rejected"
                z == 0
    <2>1. st \in {"settled", "partial", "rejected"} /\ z \in Nat /\ ~(z > 0) /\ z = 0
      OBVIOUS
    <2>2. /\ att' = [att EXCEPT ![id] = Closed(att[id], st, z)] /\ pending' = [pending EXCEPT ![id] = z]
          /\ coined' = [coined EXCEPT ![id] = z]
      BY <1>1, <1>3
    <2>. HIDE DEF st, z
    <2>3. Ends(id, st, z, z)
      BY <1>1, <2>1, <2>2 DEF Ends
    <2>. QED
      BY <2>3, EndKeeps
  <1>5. supply \in Nat /\ supply <= MaxSupply /\ escrow <= supply /\ MaxSupply \in Nat
    BY DEF IInv, MoneyOK, MaxSupplyAssumption
  <1>6. supply' \in Nat /\ supply' <= MaxSupply /\ escrow' <= supply'
    BY <1>1, <1>4, <1>5
  <1>7. MoneyOK'
    BY <1>4, <1>6 DEF MoneyOK, Flights
  <1>8. /\ ref' \in [Sources -> Ids \cup {None}]
        /\ \A s \in Sources : minters[s] # {} => ref'[s] = ref[s]
    <2>1. ref \in [Sources -> Ids \cup {None}] /\ att[id].source \in Sources \cup {Unsourced}
      BY StoredRecord DEF IInv, TypeOK
    <2>2. CASE att[id].source # Unsourced /\ ref[att[id].source] = id
      <3>1. ref' = [ref EXCEPT ![att[id].source] = None]
        BY <1>1, <2>2 DEF RefReleased
      <3>2. minters[att[id].source] = {}
        BY <1>1, <2>1, <2>2, MintersHold DEF InFlight, Paid
      <3>. QED
        BY <2>1, <2>2, <3>1, <3>2
    <2>3. CASE ~(att[id].source # Unsourced /\ ref[att[id].source] = id)
      BY <1>1, <2>1, <2>3 DEF RefReleased
    <2>. QED
      BY <2>2, <2>3
  <1>9. HoldersOK' /\ minters' \in [Sources -> SUBSET Ids]
    BY <1>1, <1>4, <1>8, HoldersKept DEF IInv, TypeOK
  <1>. QED
    BY <1>4, <1>6, <1>7, <1>8, <1>9, SettleParts

\* A rewarded attestation mints what it records, if it holds its source.
LEMMA RewardedKeeps ==
    ASSUME MaxSupplyAssumption, BridgeAssumption, IInv, NEW id \in Ids, SettleAttestation(id), SettleRewarded(id)
    PROVE  IInv'
  <1>. DEFINE a == att[id]
              full == Reward(a)
              paid == IF MayMint(id) THEN MintWithCap(supply, full) ELSE 0
              st == IF a.rejected > 0 THEN "partial" ELSE "settled"
  <1>1. /\ InFlight(a) /\ height' = height /\ ~WitnessOnly(a)
        /\ att' = [att EXCEPT ![id] = Closed(a, st, paid)]
        /\ ref' = IF full > 0 THEN RefTaken(id) ELSE ref
        /\ Minted(id, paid) /\ escrow' = escrow - Bond /\ pending' = pending
    BY DEF SettleAttestation, SettleRewarded
  <1>2. a \in AttestationRecord /\ pending[id] = 0 /\ coined[id] = 0 /\ att[id].status \notin Paid
    BY <1>1, StoredRecord DEF InFlight, Paid
  <1>3. supply \in Nat /\ supply <= MaxSupply /\ escrow <= supply /\ MaxSupply \in Nat
    BY DEF IInv, MoneyOK, MaxSupplyAssumption
  <1>4. full \in Nat
    BY <1>1, <1>2, RewardNat
  <1>5. paid \in Nat /\ paid <= full /\ supply + paid <= MaxSupply
    <2>. DEFINE m == MintWithCap(supply, full)
    <2>. HIDE DEF full
    <2>1. m \in Nat /\ m <= full /\ supply + m <= MaxSupply
      BY <1>3, <1>4, MintFits
    <2>2. paid = m \/ paid = 0
      OBVIOUS
    <2>. HIDE DEF m, paid
    <2>. QED
      BY <1>3, <1>4, <2>1, <2>2
  <1>6. paid > 0 => MayMint(id)
    OBVIOUS
  <1>7. st \in {"settled", "partial", "rejected"} /\ st \in Paid
    BY DEF Paid
  <1>. HIDE DEF a, full, paid, st
  <1>8. supply' = supply + paid /\ coined' = [coined EXCEPT ![id] = paid] /\ pending' = [pending EXCEPT ![id] = 0]
    BY <1>1, <1>2, <1>5 DEF Minted, IInv, TypeOK
  <1>9. /\ RecordsOK' /\ Numbered'
        /\ att' \in [Ids -> AttestationRecord] /\ pending' \in [Ids -> Nat] /\ coined' \in [Ids -> Nat]
        /\ escrow' \in Nat /\ escrow' = Bond * Cardinality(Flights(att'))
        /\ escrow \in Int /\ Bond \in Nat /\ Bond <= supply
        /\ att'[id].status = st /\ att'[id].source = att[id].source
        /\ \A i \in Ids : att[i].status \in Paid => att'[i].status \in Paid
    <2>1. InFlight(att[id]) /\ att' = [att EXCEPT ![id] = Closed(att[id], st, paid)]
      BY <1>1 DEF a
    <2>2. Ends(id, st, paid, 0)
      BY <1>1, <1>5, <1>7, <1>8, <2>1 DEF Ends
    <2>. QED
      BY <2>2, EndKeeps
  <1>10. supply' \in Nat /\ supply' <= MaxSupply /\ escrow' <= supply'
    BY <1>1, <1>3, <1>5, <1>8, <1>9
  <1>11. MoneyOK'
    BY <1>9, <1>10 DEF MoneyOK, Flights
  <1>12. /\ ref' \in [Sources -> Ids \cup {None}]
         /\ \A s \in Sources : ref[s] # None => ref'[s] = ref[s]
         /\ paid > 0 /\ att[id].source # Unsourced => ref'[att[id].source] = id
    <2>1. CASE full > 0
      <3>1. ref' = RefTaken(id)
        BY <1>1, <2>1
      <3>. QED
        BY <1>6, <3>1, TakenHolds, TakenTyped
    <2>2. CASE ~(full > 0)
      <3>1. ref' = ref /\ ~(paid > 0)
        BY <1>1, <1>4, <1>5, <2>2
      <3>. QED
        BY <3>1 DEF IInv, TypeOK
    <2>. QED
      BY <2>1, <2>2
  <1>13. MayMint(id) \/ paid = 0
    BY <1>5, <1>6
  <1>14. HoldersOK' /\ minters' \in [Sources -> SUBSET Ids]
    BY <1>1, <1>5, <1>7, <1>9, <1>12, <1>13, MintedHolds
  <1>. QED
    BY <1>9, <1>10, <1>11, <1>12, <1>14, SettleParts

\* A witness-only link mints nothing yet.
LEMMA WitnessKeeps ==
    ASSUME MaxSupplyAssumption, BridgeAssumption, IInv, NEW id \in Ids, SettleAttestation(id), SettleWitness(id)
    PROVE  IInv'
  <1>. DEFINE p == IF MayMint(id) THEN height + ChallengeWindow ELSE 0
  <1>1. /\ InFlight(att[id]) /\ height' = height
        /\ att' = [att EXCEPT ![id] = Closed(att[id], "settled", 0)]
        /\ ref' = RefTaken(id) /\ pending' = Escrowed(id) /\ escrow' = escrow - Bond
        /\ supply' = supply /\ coined' = coined /\ minters' = minters
    BY DEF SettleAttestation, SettleWitness
  <1>2. pending[id] = 0 /\ coined[id] = 0 /\ height \in Nat
    BY <1>1, StoredRecord DEF InFlight, Paid
  <1>3. /\ pending' = [pending EXCEPT ![id] = p] /\ coined' = [coined EXCEPT ![id] = 0]
        /\ p \in Nat /\ (p # 0 => p = height + ChallengeWindow)
    <2>1. pending' = [pending EXCEPT ![id] = p] /\ coined' = [coined EXCEPT ![id] = 0]
      <3>1. CASE MayMint(id)
        BY <1>1, <1>2, <3>1 DEF IInv, TypeOK, Escrowed
      <3>2. CASE ~MayMint(id)
        BY <1>1, <1>2, <3>2 DEF IInv, TypeOK, Escrowed
      <3>. QED
        BY <3>1, <3>2
    <2>2. height + ChallengeWindow \in Nat
      BY <1>2 DEF BridgeAssumption
    <2>. QED
      BY <2>1, <2>2
  <1>. HIDE DEF p
  <1>4. /\ RecordsOK' /\ Numbered'
        /\ att' \in [Ids -> AttestationRecord] /\ pending' \in [Ids -> Nat] /\ coined' \in [Ids -> Nat]
        /\ escrow' \in Nat /\ escrow' = Bond * Cardinality(Flights(att'))
        /\ escrow \in Int /\ Bond \in Nat /\ Bond <= supply
        /\ \A i \in Ids : att[i].status \in Paid => att'[i].status \in Paid
    <2>. DEFINE st == "settled"
                z == 0
    <2>1. st \in {"settled", "partial", "rejected"} /\ z \in Nat /\ ~(z > 0) /\ z = 0 /\ st = "settled"
      OBVIOUS
    <2>2. att' = [att EXCEPT ![id] = Closed(att[id], st, z)] /\ coined' = [coined EXCEPT ![id] = z]
      BY <1>1, <1>3
    <2>. HIDE DEF st, z
    <2>3. Ends(id, st, z, p)
      BY <1>1, <1>3, <2>1, <2>2 DEF Ends
    <2>. QED
      BY <2>3, EndKeeps
  <1>5. supply \in Nat /\ supply <= MaxSupply /\ escrow <= supply
    BY DEF IInv, MoneyOK
  <1>6. supply' \in Nat /\ supply' <= MaxSupply /\ escrow' <= supply'
    BY <1>1, <1>4, <1>5
  <1>7. MoneyOK'
    BY <1>4, <1>6 DEF MoneyOK, Flights
  <1>8. /\ ref' \in [Sources -> Ids \cup {None}]
        /\ \A s \in Sources : ref[s] # None => ref'[s] = ref[s]
    BY <1>1, TakenTyped
  <1>9. HoldersOK' /\ minters' \in [Sources -> SUBSET Ids]
    <2>1. \A s \in Sources : minters[s] # {} => ref'[s] = ref[s]
      BY <1>8, MintersHold
    <2>. QED
      BY <1>1, <1>4, <2>1, HoldersKept DEF IInv, TypeOK
  <1>. QED
    BY <1>4, <1>6, <1>7, <1>8, <1>9, SettleParts

\* A sweep keeps the invariant if it keeps these parts of it.
LEMMA SweepParts ==
    ASSUME IInv, NEW id \in Ids, SweepOne(id), RecordsOK', Numbered', HoldersOK', MoneyOK',
           att' \in [Ids -> AttestationRecord], pending' \in [Ids -> Nat], coined' \in [Ids -> Nat],
           ref' \in [Sources -> Ids \cup {None}], minters' \in [Sources -> SUBSET Ids],
           supply' \in Nat, escrow' = escrow,
           \A i \in Ids \ {id} : pending'[i] = pending[i]
    PROVE  IInv'
  <1>1. TypeOK'
    BY DEF IInv, TypeOK, SweepOne
  <1>2. ScansOK'
    BY DEF IInv, ScansOK, SweepOne, TypeOK
  <1>. QED
    BY <1>1, <1>2 DEF IInv

\* Cancelling and deferring mint nothing.
LEMMA UnpaidKeeps ==
    ASSUME BridgeAssumption, IInv, NEW id \in Ids, SweepOne(id), Cancel(id) \/ Defer(id)
    PROVE  IInv'
  <1>. DEFINE p == IF Cancel(id) THEN 0 ELSE height + ChallengeWindow
  <1>1. /\ att' = att /\ ref' = ref /\ supply' = supply /\ escrow' = escrow /\ coined' = coined /\ minters' = minters
        /\ height' = height /\ id \in todo /\ stage = "sweep"
    BY DEF SweepOne, Cancel, Defer, coins
  <1>2. pending' = [pending EXCEPT ![id] = p] /\ p \in {0, height + ChallengeWindow}
    <2>1. CASE Cancel(id)
      BY <2>1 DEF Cancel
    <2>2. CASE ~Cancel(id)
      BY <2>2 DEF Defer
    <2>. QED
      BY <2>1, <2>2
  <1>. HIDE DEF p
  <1>3. /\ RecordOK(att[id], pending[id], coined[id], height) /\ pending[id] # 0
        /\ height \in Nat /\ coined[id] \in Nat /\ coined[id] = 0
    <2>1. pending[id] # 0
      BY <1>1 DEF IInv, ScansOK
    <2>. QED
      BY <2>1, StoredRecord
  <1>4. RecordOK(att[id], p, coined[id], height)
    <2>1. att[id].settledAt \in Nat /\ ChallengeWindow \in Nat /\ height + ChallengeWindow \in Nat
      <3>1. att[id].settledAt \in Nat /\ ChallengeWindow \in Nat
        BY StoredRecord, RewardAmounts
      <3>. QED
        BY <1>3, <3>1
    <2>. QED
      BY <1>2, <1>3, <2>1 DEF RecordOK
  <1>5. att' = [att EXCEPT ![id] = att[id]] /\ coined' = [coined EXCEPT ![id] = coined[id]]
    BY <1>1 DEF IInv, TypeOK
  <1>6. /\ RecordsOK'
        /\ att' \in [Ids -> AttestationRecord] /\ pending' \in [Ids -> Nat] /\ coined' \in [Ids -> Nat]
    BY <1>1, <1>2, <1>3, <1>4, <1>5, OneRecord
  <1>7. Numbered' /\ HoldersOK' /\ MoneyOK'
    BY <1>1 DEF IInv, Numbered, HoldersOK, MoneyOK, Flights
  <1>8. \A i \in Ids \ {id} : pending'[i] = pending[i]
    BY <1>2 DEF IInv, TypeOK
  <1>. QED
    BY <1>1, <1>6, <1>7, <1>8, SweepParts DEF IInv, TypeOK

\* A release mints once, for the holder of the source.
LEMMA ReleaseKeeps ==
    ASSUME MaxSupplyAssumption, BridgeAssumption, IInv, NEW id \in Ids, SweepOne(id), Release(id)
    PROVE  IInv'
  <1>1. height' = height /\ id \in todo /\ stage = "sweep" /\ MayMint(id) /\ ref' = RefTaken(id)
    BY DEF SweepOne, Release
  <1>2. /\ RecordOK(att[id], pending[id], coined[id], height) /\ pending[id] # 0 /\ att[id] \in AttestationRecord
        /\ height \in Nat /\ coined[id] = 0 /\ att[id].status = "settled" /\ att[id].reward = 0
        /\ att[id].settledAt <= height
    <2>1. pending[id] # 0
      BY <1>1 DEF IInv, ScansOK
    <2>. QED
      BY <2>1, StoredRecord DEF RecordOK
  <1>3. /\ ref' \in [Sources -> Ids \cup {None}]
        /\ \A s \in Sources : ref[s] # None => ref'[s] = ref[s]
        /\ att[id].source # Unsourced => ref'[att[id].source] = id
    BY <1>1, TakenHolds
  <1>4. CASE UNCHANGED <<att, pending, coins>>
    <2>1. att' = att /\ pending' = pending /\ supply' = supply /\ escrow' = escrow /\ coined' = coined /\ minters' = minters
      BY <1>4 DEF coins
    <2>2. RecordsOK' /\ Numbered' /\ MoneyOK'
      BY <1>1, <2>1 DEF IInv, RecordsOK, RecordOK, Numbered, MoneyOK, Flights, AttestationRecord
    <2>3. HoldersOK'
      <3>1. \A s \in Sources : minters[s] # {} => ref'[s] = ref[s]
        BY <1>3, MintersHold
      <3>. QED
        BY <2>1, <3>1, HoldersKept
    <2>4. /\ att' \in [Ids -> AttestationRecord] /\ pending' \in [Ids -> Nat] /\ coined' \in [Ids -> Nat]
          /\ minters' \in [Sources -> SUBSET Ids] /\ supply' \in Nat
      BY <2>1 DEF IInv, TypeOK
    <2>. QED
      BY <1>3, <2>1, <2>2, <2>3, <2>4, SweepParts
  <1>5. CASE LET paid == MintWithCap(supply, WitnessReward)
             IN  /\ Minted(id, paid)
                 /\ att' = [att EXCEPT ![id].reward = paid]
                 /\ pending' = [pending EXCEPT ![id] = 0]
                 /\ UNCHANGED escrow
    <2>. DEFINE paid == MintWithCap(supply, WitnessReward)
                r == att[id]
                b == [r EXCEPT !.reward = paid]
    <2>1. /\ Minted(id, paid) /\ att' = [att EXCEPT ![id] = b] /\ pending' = [pending EXCEPT ![id] = 0]
          /\ escrow' = escrow
      BY <1>5
    <2>2. supply \in Nat /\ supply <= MaxSupply /\ escrow <= supply /\ MaxSupply \in Nat /\ escrow \in Int
      BY DEF IInv, MoneyOK, MaxSupplyAssumption, TypeOK
    <2>3. paid \in Nat /\ supply + paid \in Nat /\ supply + paid <= MaxSupply
      BY <2>2, MintFits DEF BridgeAssumption
    <2>. HIDE DEF paid, r
    <2>4. /\ b \in AttestationRecord /\ b.status = r.status /\ b.reward = paid /\ b.settledAt = r.settledAt
          /\ b.source = r.source
      BY <1>2, <2>3 DEF AttestationRecord, r
    <2>. HIDE DEF b
    <2>5. supply' = supply + paid /\ coined' = [coined EXCEPT ![id] = paid]
      BY <1>2, <2>1, <2>3 DEF Minted, IInv, TypeOK
    <2>6. RecordOK(b, 0, paid, height)
      BY <1>2, <2>3, <2>4 DEF RecordOK, Paid, r
    <2>7. /\ RecordsOK'
          /\ att' \in [Ids -> AttestationRecord] /\ pending' \in [Ids -> Nat] /\ coined' \in [Ids -> Nat]
      BY <1>1, <2>1, <2>3, <2>5, <2>6, OneRecord
    <2>8. Flights(att') = Flights(att) /\ Numbered'
      BY <1>2, <2>1, <2>4, SameFlights DEF InFlight, r
    <2>9. escrow' = Bond * Cardinality(Flights(att'))
      BY <2>1, <2>8 DEF IInv, MoneyOK
    <2>10. supply' \in Nat /\ supply' <= MaxSupply /\ escrow' <= supply'
      BY <2>1, <2>2, <2>3, <2>5
    <2>11. MoneyOK'
      BY <2>9, <2>10 DEF MoneyOK, Flights
    <2>12. /\ att'[id].status \in Paid /\ att'[id].source = att[id].source
           /\ \A i \in Ids : att[i].status \in Paid => att'[i].status \in Paid
      <3>1. att'[id] = b /\ \A i \in Ids : i # id => att'[i] = att[i]
        BY <2>1 DEF IInv, TypeOK
      <3>. QED
        BY <1>2, <2>4, <3>1 DEF Paid, r
    <2>13. HoldersOK' /\ minters' \in [Sources -> SUBSET Ids]
      BY <1>1, <1>3, <2>1, <2>3, <2>12, MintedHolds
    <2>14. \A i \in Ids \ {id} : pending'[i] = pending[i]
      BY <2>1 DEF IInv, TypeOK
    <2>. QED
      BY <1>3, <2>1, <2>7, <2>8, <2>10, <2>11, <2>13, <2>14, SweepParts
  <1>. QED
    BY <1>4, <1>5 DEF Release

\* Steps that change no attestation, source or coin.
LEMMA QuietKeeps ==
    ASSUME IInv, height' \in 1..MaxHeight, height <= height', stage' \in {"txs", "timeouts", "drain", "sweep"},
           todo' \subseteq Ids, armed' = armed, adapter' \in [Adapters -> {"active", "suspended", "tombstoned"}],
           UNCHANGED <<att, ref, pending, coins>>, ScansOK'
    PROVE  IInv'
  <1>1. /\ att' = att /\ ref' = ref /\ pending' = pending /\ supply' = supply /\ escrow' = escrow
        /\ coined' = coined /\ minters' = minters
    BY DEF coins
  <1>2. TypeOK'
    BY <1>1 DEF IInv, TypeOK
  <1>3. Numbered' /\ HoldersOK' /\ MoneyOK'
    BY <1>1 DEF IInv, Numbered, HoldersOK, MoneyOK, Flights
  <1>4. RecordsOK'
    <2>1. ASSUME NEW id \in Ids
          PROVE  RecordOK(att[id], pending[id], coined[id], height')
      <3>1. RecordOK(att[id], pending[id], coined[id], height) /\ att[id].settledAt \in Nat /\ height \in Nat
        BY StoredRecord
      <3>2. height' \in Int
        OBVIOUS
      <3>. QED
        BY <3>1, <3>2 DEF RecordOK
    <2>. QED
      BY <1>1, <2>1 DEF RecordsOK, RecordOK, AttestationRecord
  <1>. QED
    BY <1>2, <1>3, <1>4 DEF IInv

\* A tombstone cancels rewards that are held back, and nothing else.
LEMMA TombstoneKeeps ==
    ASSUME IInv, NEW a \in Adapters, TombstoneAdapter(a)
    PROVE  IInv'
  <1>1. /\ stage = "txs" /\ stage' = stage /\ height' = height /\ todo' = todo /\ armed' = armed /\ att' = att
        /\ ref' = ref /\ supply' = supply /\ escrow' = escrow /\ coined' = coined /\ minters' = minters
        /\ adapter' = [adapter EXCEPT ![a] = "tombstoned"]
        /\ pending' = [id \in Ids |-> IF AdapterOf[att[id].source] = a THEN 0 ELSE pending[id]]
    BY DEF TombstoneAdapter, coins
  <1>2. ASSUME NEW id \in Ids
        PROVE  pending'[id] \in Nat /\ RecordOK(att[id], pending'[id], coined[id], height)
    <2>1. pending'[id] = 0 \/ pending'[id] = pending[id]
      BY <1>1
    <2>2. RecordOK(att[id], pending[id], coined[id], height)
      BY StoredRecord
    <2>. QED
      BY <2>1, <2>2 DEF RecordOK
  <1>3. RecordsOK'
    BY <1>1, <1>2 DEF RecordsOK, RecordOK, AttestationRecord
  <1>4. pending' \in [Ids -> Nat]
    BY <1>1, <1>2
  <1>5. TypeOK'
    BY <1>1, <1>4 DEF IInv, TypeOK
  <1>6. Numbered' /\ HoldersOK' /\ MoneyOK' /\ ScansOK'
    BY <1>1 DEF IInv, Numbered, HoldersOK, MoneyOK, Flights, ScansOK
  <1>. QED
    BY <1>3, <1>5, <1>6 DEF IInv

\* The upgrade seeds sources that nobody holds.
LEMMA UpgradeKeeps ==
    ASSUME IInv, UpgradeSeed
    PROVE  IInv'
  <1>1. /\ stage = "txs" /\ stage' = stage /\ height' = height /\ todo' = todo /\ armed' = TRUE /\ att' = att
        /\ adapter' = adapter /\ supply' = supply /\ escrow' = escrow /\ coined' = coined /\ minters' = minters
        /\ pending' = pending /\ ref' \in [Sources -> Ids \cup {None}]
        /\ \A s \in Sources : ref[s] # None => ref'[s] = ref[s]
    BY DEF UpgradeSeed, coins
  <1>2. HoldersOK'
    <2>1. \A s \in Sources : minters[s] # {} => ref'[s] = ref[s]
      BY <1>1, MintersHold
    <2>. QED
      BY <1>1, <2>1, HoldersKept
  <1>3. RecordsOK' /\ Numbered' /\ MoneyOK' /\ ScansOK'
    BY <1>1 DEF IInv, RecordsOK, RecordOK, AttestationRecord, Numbered, MoneyOK, Flights, ScansOK
  <1>4. TypeOK'
    BY <1>1 DEF IInv, TypeOK
  <1>. QED
    BY <1>2, <1>3, <1>4 DEF IInv

\* Other modules mint within the cap and burn what is not in escrow.
LEMMA ElsewhereKeeps ==
    ASSUME MaxSupplyAssumption, BridgeAssumption, IInv, NEW n \in OtherMints, MintElsewhere(n) \/ BurnElsewhere(n)
    PROVE  IInv'
  <1>1. /\ UNCHANGED <<height, stage, todo, armed, att, ref, pending, adapter, escrow, coined, minters>>
        /\ supply' = supply + MintWithCap(supply, n) \/ (supply - escrow >= n /\ supply' = supply - n)
    BY DEF MintElsewhere, BurnElsewhere
  <1>2. /\ supply \in Nat /\ supply <= MaxSupply /\ escrow <= supply /\ escrow \in Int /\ n \in Nat /\ MaxSupply \in Nat
        /\ escrow = Bond * Cardinality(Flights(att))
    BY RewardAmounts DEF IInv, MoneyOK, TypeOK, MaxSupplyAssumption
  <1>3. escrow \in Nat
    <2>1. Flights(att) \in SUBSET Ids
      BY DEF Flights
    <2>. QED
      BY <1>2, <2>1, CountedIds, BondTimes
  <1>4. supply' \in Nat /\ supply' <= MaxSupply /\ escrow <= supply'
    <2>1. CASE supply' = supply + MintWithCap(supply, n)
      BY <1>2, <2>1, MintFits
    <2>2. CASE supply - escrow >= n /\ supply' = supply - n
      BY <1>2, <1>3, <2>2
    <2>. QED
      BY <1>1, <2>1, <2>2
  <1>5. MoneyOK'
    BY <1>1, <1>2, <1>4 DEF MoneyOK, Flights
  <1>6. TypeOK' /\ RecordsOK' /\ Numbered' /\ HoldersOK' /\ ScansOK'
    BY <1>1, <1>4 DEF IInv, TypeOK, RecordsOK, RecordOK, AttestationRecord, Numbered, HoldersOK, ScansOK
  <1>. QED
    BY <1>5, <1>6 DEF IInv

\* The begin blocker keeps the invariant.
LEMMA BeginBlockKeeps ==
    ASSUME MaxSupplyAssumption, BridgeAssumption, IInv, BeginBlock
    PROVE  IInv'
  <1>0. /\ height \in Nat /\ height \in 1..MaxHeight /\ todo \subseteq Ids
        /\ adapter \in [Adapters -> {"active", "suspended", "tombstoned"}]
    BY DEF IInv, TypeOK
  <1>1. ASSUME NEW id \in Ids, SettleAttestation(id)
        PROVE  IInv'
    <2>1. SettleRejected(id) \/ SettleRewarded(id) \/ SettleWitness(id)
      BY <1>1 DEF SettleAttestation
    <2>. QED
      BY <1>1, <2>1, RejectedKeeps, RewardedKeeps, WitnessKeeps
  <1>2. ASSUME NEW id \in Ids, SettleFails(id)
        PROVE  IInv'
    <2>1. ScansOK'
      BY <1>2 DEF SettleFails, IInv, ScansOK
    <2>. QED
      BY <1>0, <1>2, <2>1, QuietKeeps DEF SettleFails
  <1>3. ASSUME NEW id \in Ids, SweepOne(id)
        PROVE  IInv'
    <2>1. Release(id) \/ Cancel(id) \/ Defer(id)
      BY <1>3 DEF SweepOne, Resolve
    <2>. QED
      BY <1>3, <2>1, ReleaseKeeps, UnpaidKeeps
  <1>4. ASSUME DrainReady
        PROVE  IInv'
    <2>1. ScansOK'
      BY <1>4 DEF DrainReady, IInv, ScansOK
    <2>. QED
      BY <1>0, <1>4, <2>1, QuietKeeps DEF DrainReady
  <1>5. ASSUME SweepWitnessRewards
        PROVE  IInv'
    <2>1. ScansOK'
      BY <1>5 DEF SweepWitnessRewards, IInv, ScansOK
    <2>. QED
      BY <1>0, <1>5, <2>1, QuietKeeps DEF SweepWitnessRewards
  <1>6. ASSUME BeginBlockDone
        PROVE  IInv'
    <2>1. ScansOK'
      BY <1>6 DEF BeginBlockDone, IInv, ScansOK
    <2>. QED
      BY <1>0, <1>6, <2>1, QuietKeeps DEF BeginBlockDone
  <1>. QED
    BY <1>1, <1>2, <1>3, <1>4, <1>5, <1>6 DEF BeginBlock

\* Every step keeps the invariant.
LEMMA NextKeeps ==
    ASSUME MaxSupplyAssumption, BridgeAssumption, IInv, [Next]_vars
    PROVE  IInv'
  <1>0. /\ height \in Nat /\ height \in 1..MaxHeight /\ MaxHeight \in Nat /\ todo \subseteq Ids
        /\ adapter \in [Adapters -> {"active", "suspended", "tombstoned"}]
        /\ stage \in {"txs", "timeouts", "drain", "sweep"}
    BY RewardAmounts DEF IInv, TypeOK
  <1>1. ASSUME NEW s \in Sources, NEW cited \in {0, 1}, Submit(s, cited)
        PROVE  IInv'
    BY <1>1, SubmitKeeps
  <1>2. ASSUME NEW id \in Ids, NEW verdict \in BOOLEAN, OnClaimResolved(id, verdict)
        PROVE  IInv'
    BY <1>2, ResolvedKeeps
  <1>3. ASSUME NEW a \in Adapters, NEW status \in {"active", "suspended", "tombstoned"}, RegisterAdapter(a, status)
        PROVE  IInv'
    <2>1. ScansOK' /\ adapter' \in [Adapters -> {"active", "suspended", "tombstoned"}]
      BY <1>0, <1>3 DEF RegisterAdapter, IInv, ScansOK
    <2>. QED
      BY <1>0, <1>3, <2>1, QuietKeeps DEF RegisterAdapter
  <1>4. ASSUME NEW a \in Adapters, SuspendAdapter(a)
        PROVE  IInv'
    <2>1. ScansOK' /\ adapter' \in [Adapters -> {"active", "suspended", "tombstoned"}]
      BY <1>0, <1>4 DEF SuspendAdapter, IInv, ScansOK
    <2>. QED
      BY <1>0, <1>4, <2>1, QuietKeeps DEF SuspendAdapter
  <1>5. ASSUME NEW a \in Adapters, TombstoneAdapter(a)
        PROVE  IInv'
    BY <1>5, TombstoneKeeps
  <1>6. ASSUME UpgradeSeed
        PROVE  IInv'
    BY <1>6, UpgradeKeeps
  <1>7. ASSUME NEW n \in OtherMints, MintElsewhere(n) \/ BurnElsewhere(n)
        PROVE  IInv'
    BY <1>7, ElsewhereKeeps
  <1>8. ASSUME NextBlock
        PROVE  IInv'
    <2>1. height' \in 1..MaxHeight /\ height <= height' /\ armed' = armed /\ adapter' = adapter
      BY <1>0, <1>8 DEF NextBlock
    <2>2. stage' \in {"txs", "timeouts", "drain", "sweep"} /\ todo' \subseteq Ids
      BY <1>0, <1>8 DEF NextBlock
    <2>3. ScansOK'
      BY <1>8 DEF NextBlock, IInv, ScansOK
    <2>. QED
      BY <1>0, <1>8, <2>1, <2>2, <2>3, QuietKeeps DEF NextBlock
  <1>9. ASSUME BeginBlock
        PROVE  IInv'
    BY <1>9, BeginBlockKeeps
  <1>10. ASSUME UNCHANGED vars
         PROVE  IInv'
    BY <1>10 DEF vars, IInv, TypeOK, RecordsOK, RecordOK, AttestationRecord, Numbered, HoldersOK, MoneyOK, Flights, ScansOK
  <1>. QED
    BY <1>1, <1>2, <1>3, <1>4, <1>5, <1>6, <1>7, <1>8, <1>9, <1>10 DEF Next

\* The invariant holds in every state the bridge reaches.
LEMMA Invariant ==
    ASSUME MaxSupplyAssumption, BridgeAssumption
    PROVE  Spec => []IInv
  <1>1. Init => IInv
    BY InitHolds
  <1>2. IInv /\ [Next]_vars => IInv'
    BY NextKeeps
  <1>. QED
    BY <1>1, <1>2, PTL DEF Spec

-----------------------------------------------------------------------------
(* One work item mints once *)

Spent(id) == att[id].status \in Paid /\ pending[id] = 0
Sourced(id) == att[id].source # Unsourced /\ coined[id] > 0

\* Before the arming nobody holds a source and no reward is held back; from then
\* on a source for which anything was minted is held by an attestation that will
\* not mint again.
WallOK ==
    /\ ~armed => (\A id \in Ids : pending[id] = 0) /\ (\A s \in Sources : ref[s] = None)
    /\ armed => \A id \in Ids : Sourced(id) => ref[att[id].source] \in Ids /\ Spent(ref[att[id].source])
    /\ \A i, j \in Ids : Sourced(i) /\ Sourced(j) /\ att[i].source = att[j].source => i = j

\* A step of an armed chain that mints nothing.
LEMMA WallUnminted ==
    ASSUME IInv, WallOK, armed, armed', coined' = coined,
           \A i \in Ids : coined[i] > 0 => att'[i].source = att[i].source,
           \A i \in Ids : Spent(i) => att'[i].status \in Paid /\ pending'[i] = 0,
           \A s \in Sources : ref[s] \in Ids /\ Spent(ref[s]) => ref'[s] = ref[s]
    PROVE  WallOK'
  <1>1. \A i \in Ids : att[i].source \in Sources \cup {Unsourced}
    BY StoredRecord
  <1>2. ASSUME NEW i \in Ids, coined'[i] > 0, att'[i].source # Unsourced
        PROVE  /\ Sourced(i) /\ att'[i].source = att[i].source
               /\ ref'[att'[i].source] \in Ids
               /\ att'[ref'[att'[i].source]].status \in Paid /\ pending'[ref'[att'[i].source]] = 0
    <2>1. Sourced(i) /\ att'[i].source = att[i].source /\ att[i].source \in Sources
      BY <1>1, <1>2 DEF Sourced
    <2>2. ref[att[i].source] \in Ids /\ Spent(ref[att[i].source])
      BY <2>1 DEF WallOK
    <2>. QED
      BY <2>1, <2>2
  <1>. QED
    BY <1>2 DEF WallOK, Sourced, Spent

\* A step that mints for an attestation that may.
LEMMA WallMinted ==
    ASSUME IInv, WallOK, armed, armed', NEW id \in Ids, ~Spent(id), MayMint(id), NEW n \in Nat,
           coined' = [coined EXCEPT ![id] = n],
           \A i \in Ids \ {id} : att'[i] = att[i] /\ pending'[i] = pending[i],
           att'[id].source = att[id].source, att'[id].status \in Paid, pending'[id] = 0,
           \A s \in Sources : ref[s] # None => ref'[s] = ref[s],
           att[id].source # Unsourced => ref'[att[id].source] = id
    PROVE  WallOK'
  <1>1. \A i \in Ids : att[i].source \in Sources \cup {Unsourced} /\ i # None
    BY StoredRecord
  <1>2. coined \in [Ids -> Nat]
    BY DEF IInv, TypeOK
  <1>3. ASSUME NEW i \in Ids, i # id, Sourced(i)
        PROVE  att[i].source # att[id].source
    <2>1. ref[att[i].source] \in Ids /\ Spent(ref[att[i].source])
      BY <1>3 DEF WallOK
    <2>2. ref[att[i].source] # None /\ ref[att[i].source] # id
      BY <1>1, <2>1
    <2>. QED
      BY <1>3, <2>2 DEF MayMint, Sourced
  <1>4. ASSUME NEW i \in Ids, coined'[i] > 0, att'[i].source # Unsourced
        PROVE  /\ att'[i].source = att[i].source
               /\ i # id => Sourced(i)
               /\ ref'[att'[i].source] \in Ids
               /\ att'[ref'[att'[i].source]].status \in Paid /\ pending'[ref'[att'[i].source]] = 0
    <2>1. CASE i = id
      BY <1>4, <2>1
    <2>2. CASE i # id
      <3>1. coined'[i] = coined[i] /\ att'[i] = att[i]
        BY <1>2, <2>2
      <3>2. Sourced(i) /\ att[i].source \in Sources
        BY <1>1, <1>4, <3>1 DEF Sourced
      <3>3. ref[att[i].source] \in Ids /\ Spent(ref[att[i].source]) /\ ref[att[i].source] # None
        BY <1>1, <3>2 DEF WallOK
      <3>4. ref'[att[i].source] = ref[att[i].source] /\ ref[att[i].source] # id
        BY <3>2, <3>3
      <3>5. att'[ref[att[i].source]] = att[ref[att[i].source]] /\ pending'[ref[att[i].source]] = pending[ref[att[i].source]]
        BY <3>3, <3>4
      <3>. QED
        BY <3>1, <3>2, <3>3, <3>4, <3>5 DEF Spent
    <2>. QED
      BY <2>1, <2>2
  <1>5. ASSUME NEW i \in Ids, NEW j \in Ids, coined'[i] > 0, coined'[j] > 0,
               att'[i].source # Unsourced, att'[j].source # Unsourced, att'[i].source = att'[j].source, i # j
        PROVE  FALSE
    <2>1. att[i].source = att[j].source /\ (i # id => Sourced(i)) /\ (j # id => Sourced(j))
      BY <1>4, <1>5
    <2>2. CASE i = id
      BY <1>3, <1>5, <2>1, <2>2
    <2>3. CASE j = id
      BY <1>3, <1>5, <2>1, <2>3
    <2>4. CASE i # id /\ j # id
      BY <1>5, <2>1, <2>4 DEF WallOK
    <2>. QED
      BY <2>2, <2>3, <2>4
  <1>. QED
    BY <1>4, <1>5 DEF WallOK, Sourced, Spent

\* A history in which work has minted once and no reward is held back.
LEMMA WallInit ==
    ASSUME MaxSupplyAssumption, BridgeAssumption, ~HeldRewards, Init
    PROVE  WallOK
  <1>1. \A id \in Ids : pending[id] = 0
    BY DEF Init
  <1>2. ASSUME NEW i \in Ids, NEW j \in Ids, Sourced(i), Sourced(j), att[i].source = att[j].source
        PROVE  i = j
    <2>. DEFINE s == att[i].source
                S == {id \in Ids : att[id].source = s /\ att[id].reward > 0}
    <2>1. s \in Sources
      BY <1>2, InitHolds, StoredRecord DEF Sourced
    <2>2. i \in S /\ j \in S
      BY <1>2 DEF Init, Sourced
    <2>3. Cardinality(S) <= 1
      BY <2>1 DEF Init
    <2>4. S \in SUBSET Ids
      OBVIOUS
    <2>. HIDE DEF S
    <2>5. IsFiniteSet(S)
      BY <2>4, CountedIds
    <2>. QED
      BY <2>2, <2>3, <2>5, AtMostOne
  <1>. QED
    BY <1>1, <1>2 DEF Init, WallOK

\* A submission, on an armed chain or as its first.
LEMMA WallSubmit ==
    ASSUME BridgeAssumption, IInv, IInv', WallOK, NEW s \in Sources, NEW cited \in {0, 1}, Submit(s, cited)
    PROVE  WallOK'
  <1>. DEFINE id == Cardinality({i \in Ids : att[i].status # "none"}) + 1
              b == [NoAttestation EXCEPT !.status = "ready", !.source = s, !.cited = cited, !.at = height]
  <1>1. /\ id \in Ids /\ ref[s] = None /\ armed' = TRUE /\ MayArm /\ pending' = pending /\ coined' = coined
        /\ att' = [att EXCEPT ![id] = b] /\ ref' = [ref EXCEPT ![s] = id]
    BY DEF Submit, SourceFree
  <1>2. b.status = "ready"
    BY DEF NoAttestation
  <1>. HIDE DEF id, b
  <1>3. \A i \in Ids : i # id => att'[i] = att[i]
    BY <1>1 DEF IInv, TypeOK
  <1>4. att'[id].status = "ready" /\ coined[id] = 0
    <2>1. att'[id].status = "ready"
      BY <1>1, <1>2 DEF IInv, TypeOK
    <2>2. coined'[id] = 0
      <3>1. RecordOK(att'[id], pending'[id], coined'[id], height')
        BY <1>1 DEF IInv, RecordsOK, RecordOK, AttestationRecord
      <3>2. att'[id].reward = coined'[id] /\ coined'[id] \in Nat
        BY <1>1, <3>1 DEF RecordOK, IInv, TypeOK
      <3>. QED
        BY <2>1, <3>1, <3>2 DEF RecordOK, Paid
    <2>. QED
      BY <1>1, <2>1, <2>2
  <1>5. CASE armed
    <2>1. \A i \in Ids : coined[i] > 0 => att'[i].source = att[i].source
      BY <1>3, <1>4
    <2>2. \A i \in Ids : Spent(i) => i # id
      <3>2. PICK n \in 0..Last : \A i \in Ids : att[i].status # "none" <=> i <= n
        BY DEF IInv, Numbered
      <3>0. n \in Nat /\ n <= Last /\ Last \in Nat
        BY DEF BridgeAssumption
      <3>3. {i \in Ids : att[i].status # "none"} = 1..n
        BY <3>0, <3>2 DEF Ids
      <3>4. id = n + 1
        <4>1. Cardinality(1..n) = n
          BY <3>0, FS_Interval
        <4>. QED
          BY <3>3, <4>1 DEF id
      <3>5. att[id].status = "none"
        BY <1>1, <3>0, <3>2, <3>4
      <3>. QED
        BY <3>5 DEF Spent, Paid
    <2>3. \A i \in Ids : Spent(i) => att'[i].status \in Paid /\ pending'[i] = 0
      BY <1>1, <1>3, <2>2 DEF Spent
    <2>4. \A r \in Sources : ref[r] \in Ids /\ Spent(ref[r]) => ref'[r] = ref[r]
      <3>1. \A i \in Ids : i # None
        BY StoredRecord
      <3>. QED
        BY <1>1, <3>1 DEF IInv, TypeOK
    <2>. QED
      BY <1>1, <1>5, <2>1, <2>3, <2>4, WallUnminted
  <1>6. CASE ~armed
    <2>1. \A i \in Ids : coined[i] = 0
      BY <1>1, <1>6, StoredRecord DEF MayArm, Paid
    <2>. QED
      BY <1>1, <2>1 DEF WallOK, Sourced
  <1>. QED
    BY <1>5, <1>6

\* The upgrade gives a source for which history has minted to a record that
\* history has paid.
LEMMA WallUpgrade ==
    ASSUME IInv, WallOK, UpgradeSeed
    PROVE  WallOK'
  <1>1. /\ armed' = TRUE /\ att' = att /\ coined' = coined /\ pending' = pending
        /\ \A s \in Sources : IF ref[s] = None /\ SeedCandidates(s) # {} THEN ref'[s] \in SeedCandidates(s)
                              ELSE ref'[s] = ref[s]
    BY DEF UpgradeSeed, coins
  <1>2. CASE armed
    <2>1. \A s \in Sources : ref[s] \in Ids => ref'[s] = ref[s]
      <3>1. \A i \in Ids : i # None
        BY StoredRecord
      <3>. QED
        BY <1>1, <3>1
    <2>. QED
      BY <1>1, <1>2, <2>1, WallUnminted DEF Spent
  <1>3. CASE ~armed
    <2>1. ASSUME NEW i \in Ids, Sourced(i)
          PROVE  ref'[att[i].source] \in Ids /\ Spent(ref'[att[i].source])
      <3>. DEFINE s == att[i].source
                  minted == {id \in Ids : att[id].source = s /\ SeedTier(att[id]) = 2}
      <3>1. s \in Sources /\ att[i].status \in Paid
        BY <2>1, StoredRecord DEF Sourced
      <3>2. i \in minted
        BY <3>1 DEF SeedTier, Paid
      <3>3. SeedCandidates(s) = minted
        BY <3>2 DEF SeedCandidates
      <3>4. ref'[s] \in minted
        BY <1>1, <1>3, <3>1, <3>2, <3>3 DEF WallOK
      <3>5. \A id \in minted : att[id].status \in Paid /\ pending[id] = 0
        BY <1>3 DEF SeedTier, Paid, WallOK
      <3>. QED
        BY <3>4, <3>5 DEF Spent
    <2>. QED
      BY <1>1, <2>1 DEF WallOK, Sourced, Spent
  <1>. QED
    BY <1>2, <1>3

\* A settlement.
LEMMA WallSettle ==
    ASSUME MaxSupplyAssumption, BridgeAssumption, IInv, WallOK, NEW id \in Ids, SettleAttestation(id)
    PROVE  WallOK'
  <1>1. /\ InFlight(att[id]) /\ stage # "txs" /\ armed' = armed /\ height' = height
        /\ SettleRejected(id) \/ SettleRewarded(id) \/ SettleWitness(id)
    BY DEF SettleAttestation
  <1>2. armed /\ ~Spent(id) /\ coined[id] = 0 /\ pending[id] = 0 /\ att[id] \in AttestationRecord /\ height \in Nat
    BY <1>1, StoredRecord DEF IInv, ScansOK, Spent, InFlight, Paid
  <1>3. CASE SettleRejected(id)
    <2>1. /\ att' = [att EXCEPT ![id] = Closed(att[id], "rejected", 0)]
          /\ ref' = RefReleased(id) /\ pending' = pending /\ coined' = coined
      BY <1>3 DEF SettleRejected
    <2>2. \A i \in Ids \ {id} : att'[i] = att[i]
      BY <2>1 DEF IInv, TypeOK
    <2>3. \A s \in Sources : ref[s] \in Ids /\ Spent(ref[s]) => ref'[s] = ref[s]
      <3>1. \A s \in Sources : ref[s] # id => ref'[s] = ref[s]
        BY <2>1 DEF RefReleased, IInv, TypeOK
      <3>. QED
        BY <1>2, <3>1
    <2>. QED
      BY <1>1, <1>2, <2>1, <2>2, <2>3, WallUnminted DEF Spent
  <1>4. CASE SettleWitness(id)
    <2>1. /\ att' = [att EXCEPT ![id] = Closed(att[id], "settled", 0)]
          /\ ref' = RefTaken(id) /\ pending' = Escrowed(id) /\ coined' = coined
      BY <1>4 DEF SettleWitness
    <2>2. \A i \in Ids \ {id} : att'[i] = att[i] /\ pending'[i] = pending[i]
      BY <2>1 DEF IInv, TypeOK, Escrowed
    <2>3. \A s \in Sources : ref[s] \in Ids => ref'[s] = ref[s]
      <3>1. \A i \in Ids : i # None
        BY StoredRecord
      <3>. QED
        BY <2>1, <3>1, TakenTyped
    <2>. QED
      BY <1>1, <1>2, <2>1, <2>2, <2>3, WallUnminted DEF Spent
  <1>5. CASE SettleRewarded(id)
    <2>. DEFINE a == att[id]
                full == Reward(a)
                paid == IF MayMint(id) THEN MintWithCap(supply, full) ELSE 0
                st == IF a.rejected > 0 THEN "partial" ELSE "settled"
    <2>1. /\ ~WitnessOnly(a) /\ att' = [att EXCEPT ![id] = Closed(a, st, paid)]
          /\ ref' = IF full > 0 THEN RefTaken(id) ELSE ref
          /\ Minted(id, paid) /\ pending' = pending
      BY <1>5 DEF SettleRewarded
    <2>2. full \in Nat
      BY <1>2, <2>1, RewardNat
    <2>3. paid \in Nat /\ paid <= full /\ (~MayMint(id) => paid = 0)
      <3>. DEFINE m == MintWithCap(supply, full)
      <3>. HIDE DEF full
      <3>1. supply \in Nat /\ supply <= MaxSupply
        BY DEF IInv, MoneyOK
      <3>2. m \in Nat /\ m <= full
        BY <2>2, <3>1, MintFits
      <3>. HIDE DEF m
      <3>. QED
        BY <2>2, <3>2 DEF m
    <2>4. st \in Statuses /\ st \in Paid
      BY DEF Statuses, Paid
    <2>. DEFINE b == Closed(a, st, paid)
    <2>. HIDE DEF full, paid, st
    <2>5. b.status = st /\ b.source = a.source
      BY <1>2, <2>3, <2>4, ClosedFields
    <2>. HIDE DEF b
    <2>6. /\ att'[id].status \in Paid /\ att'[id].source = att[id].source
          /\ \A i \in Ids \ {id} : att'[i] = att[i]
      <3>1. att' = [att EXCEPT ![id] = b]
        BY <2>1 DEF b
      <3>2. att'[id] = b /\ \A i \in Ids \ {id} : att'[i] = att[i]
        BY <3>1 DEF IInv, TypeOK
      <3>. QED
        BY <2>4, <2>5, <3>2
    <2>7. coined' = [coined EXCEPT ![id] = paid]
      BY <1>2, <2>1, <2>3 DEF Minted, IInv, TypeOK
    <2>8. \A s \in Sources : ref[s] # None => ref'[s] = ref[s]
      BY <2>1, TakenTyped
    <2>9. CASE MayMint(id) /\ paid > 0
      <3>1. ref' = RefTaken(id)
        BY <2>1, <2>2, <2>3, <2>9
      <3>2. att[id].source # Unsourced => ref'[att[id].source] = id
        BY <2>9, <3>1, TakenHolds
      <3>. QED
        BY <1>1, <1>2, <2>1, <2>3, <2>6, <2>7, <2>8, <2>9, <3>2, WallMinted
    <2>10. CASE ~(MayMint(id) /\ paid > 0)
      <3>1. paid = 0
        BY <2>3, <2>10
      <3>2. coined' = coined
        BY <1>2, <2>7, <3>1 DEF IInv, TypeOK
      <3>3. \A s \in Sources : ref[s] \in Ids => ref'[s] = ref[s]
        <4>1. \A i \in Ids : i # None
          BY StoredRecord
        <4>. QED
          BY <2>8, <4>1
      <3>4. \A i \in Ids : Spent(i) => att'[i].status \in Paid /\ pending'[i] = 0
        BY <1>2, <2>1, <2>6 DEF Spent
      <3>5. \A i \in Ids : coined[i] > 0 => att'[i].source = att[i].source
        BY <1>2, <2>6
      <3>. QED
        BY <1>1, <1>2, <3>2, <3>3, <3>4, <3>5, WallUnminted
    <2>. QED
      BY <2>9, <2>10
  <1>. QED
    BY <1>1, <1>3, <1>4, <1>5

\* A sweep.
LEMMA WallSweep ==
    ASSUME MaxSupplyAssumption, BridgeAssumption, IInv, WallOK, NEW id \in Ids, SweepOne(id)
    PROVE  WallOK'
  <1>1. /\ id \in todo /\ stage = "sweep" /\ armed' = armed
        /\ Release(id) \/ Cancel(id) \/ Defer(id)
    BY DEF SweepOne, Resolve
  <1>2. armed /\ pending[id] # 0 /\ ~Spent(id) /\ coined[id] = 0 /\ att[id].status = "settled"
    <2>1. armed /\ pending[id] # 0
      BY <1>1 DEF IInv, ScansOK
    <2>. QED
      BY <2>1, StoredRecord DEF Spent
  <1>3. CASE Cancel(id) \/ Defer(id)
    <2>1. att' = att /\ ref' = ref /\ coined' = coined /\ \A i \in Ids \ {id} : pending'[i] = pending[i]
      BY <1>3 DEF Cancel, Defer, coins, IInv, TypeOK
    <2>. QED
      BY <1>1, <1>2, <2>1, WallUnminted DEF Spent
  <1>4. CASE Release(id)
    <2>1. /\ MayMint(id) /\ ref' = RefTaken(id)
          /\ \A s \in Sources : ref[s] # None => ref'[s] = ref[s]
          /\ att[id].source # Unsourced => ref'[att[id].source] = id
      BY <1>4, TakenHolds DEF Release
    <2>2. CASE UNCHANGED <<att, pending, coins>>
      <3>1. att' = att /\ pending' = pending /\ coined' = coined
        BY <2>2 DEF coins
      <3>2. \A s \in Sources : ref[s] \in Ids => ref'[s] = ref[s]
        <4>1. \A i \in Ids : i # None
          BY StoredRecord
        <4>. QED
          BY <2>1, <4>1
      <3>. QED
        BY <1>1, <1>2, <3>1, <3>2, WallUnminted DEF Spent
    <2>3. CASE LET paid == MintWithCap(supply, WitnessReward)
               IN  /\ Minted(id, paid)
                   /\ att' = [att EXCEPT ![id].reward = paid]
                   /\ pending' = [pending EXCEPT ![id] = 0]
                   /\ UNCHANGED escrow
      <3>. DEFINE paid == MintWithCap(supply, WitnessReward)
                  b == [att[id] EXCEPT !.reward = paid]
      <3>1. Minted(id, paid) /\ att' = [att EXCEPT ![id] = b] /\ pending' = [pending EXCEPT ![id] = 0]
        BY <2>3
      <3>2. paid \in Nat
        <4>1. supply \in Nat /\ supply <= MaxSupply /\ WitnessReward \in Nat
          BY RewardAmounts DEF IInv, MoneyOK
        <4>. QED
          BY <4>1, MintFits
      <3>. HIDE DEF paid
      <3>3. b.status = att[id].status /\ b.source = att[id].source
        BY StoredRecord DEF AttestationRecord
      <3>. HIDE DEF b
      <3>4. /\ att'[id] = b /\ pending'[id] = 0
            /\ \A i \in Ids \ {id} : att'[i] = att[i] /\ pending'[i] = pending[i]
        BY <3>1 DEF IInv, TypeOK
      <3>5. coined' = [coined EXCEPT ![id] = paid]
        BY <1>2, <3>1, <3>2 DEF Minted, IInv, TypeOK
      <3>6. att'[id].source = att[id].source /\ att'[id].status \in Paid
        BY <1>2, <3>3, <3>4 DEF Paid
      <3>. QED
        BY <1>1, <1>2, <2>1, <3>2, <3>4, <3>5, <3>6, WallMinted
    <2>. QED
      BY <1>4, <2>2, <2>3 DEF Release
  <1>. QED
    BY <1>1, <1>3, <1>4

\* A step that leaves the attestations, the index and the coins alone, and holds
\* back no reward that was not held back before.
LEMMA WallQuiet ==
    ASSUME IInv, WallOK, armed' = armed, att' = att, ref' = ref, coined' = coined,
           \A i \in Ids : pending[i] = 0 => pending'[i] = 0
    PROVE  WallOK'
  BY DEF WallOK, Sourced, Spent

\* A verdict changes neither the source nor the standing of what is paid.
LEMMA WallResolved ==
    ASSUME IInv, WallOK, NEW id \in Ids, NEW verdict \in BOOLEAN, OnClaimResolved(id, verdict)
    PROVE  WallOK'
  <1>1. /\ armed' = armed /\ ref' = ref /\ coined' = coined /\ pending' = pending
        /\ att[id].status = "awaiting"
        /\ \A i \in Ids \ {id} : att'[i] = att[i]
    BY DEF OnClaimResolved, coins, IInv, TypeOK
  <1>2. coined[id] = 0 /\ ~Spent(id)
    BY <1>1, StoredRecord DEF Paid, Spent
  <1>3. \A i \in Ids : coined[i] > 0 => att'[i] = att[i]
    BY <1>1, <1>2
  <1>4. \A i \in Ids : Spent(i) => att'[i] = att[i]
    BY <1>1, <1>2
  <1>5. CASE armed
    <2>1. armed'
      BY <1>1, <1>5
    <2>2. \A i \in Ids : coined[i] > 0 => att'[i].source = att[i].source
      BY <1>3
    <2>3. \A i \in Ids : Spent(i) => att'[i].status \in Paid /\ pending'[i] = 0
      BY <1>1, <1>4 DEF Spent
    <2>4. \A s \in Sources : ref[s] \in Ids /\ Spent(ref[s]) => ref'[s] = ref[s]
      BY <1>1
    <2>. QED
      BY <1>1, <1>5, <2>1, <2>2, <2>3, <2>4, WallUnminted
  <1>6. CASE ~armed
    BY <1>1, <1>3, <1>6 DEF WallOK, Sourced
  <1>. QED
    BY <1>5, <1>6

\* Every step keeps the wall.
LEMMA WallNext ==
    ASSUME MaxSupplyAssumption, BridgeAssumption, IInv, IInv', WallOK, [Next]_vars
    PROVE  WallOK'
  <1>1. ASSUME NEW s \in Sources, NEW cited \in {0, 1}, Submit(s, cited)
        PROVE  WallOK'
    BY <1>1, WallSubmit
  <1>2. ASSUME NEW id \in Ids, NEW verdict \in BOOLEAN, OnClaimResolved(id, verdict)
        PROVE  WallOK'
    BY <1>2, WallResolved
  <1>3. ASSUME NEW a \in Adapters, NEW status \in {"active", "suspended", "tombstoned"},
               RegisterAdapter(a, status) \/ SuspendAdapter(a)
        PROVE  WallOK'
    BY <1>3, WallQuiet DEF RegisterAdapter, SuspendAdapter, coins
  <1>4. ASSUME NEW a \in Adapters, TombstoneAdapter(a)
        PROVE  WallOK'
    BY <1>4, WallQuiet DEF TombstoneAdapter, coins
  <1>5. ASSUME UpgradeSeed
        PROVE  WallOK'
    BY <1>5, WallUpgrade
  <1>6. ASSUME NEW n \in OtherMints, MintElsewhere(n) \/ BurnElsewhere(n)
        PROVE  WallOK'
    BY <1>6, WallQuiet DEF MintElsewhere, BurnElsewhere
  <1>7. ASSUME NextBlock \/ DrainReady \/ SweepWitnessRewards \/ BeginBlockDone
        PROVE  WallOK'
    BY <1>7, WallQuiet DEF NextBlock, DrainReady, SweepWitnessRewards, BeginBlockDone, coins
  <1>8. ASSUME NEW id \in Ids, SettleAttestation(id)
        PROVE  WallOK'
    BY <1>8, WallSettle
  <1>9. ASSUME NEW id \in Ids, SettleFails(id)
        PROVE  WallOK'
    BY <1>9, WallQuiet DEF SettleFails, coins
  <1>10. ASSUME NEW id \in Ids, SweepOne(id)
         PROVE  WallOK'
    BY <1>10, WallSweep
  <1>11. ASSUME UNCHANGED vars
         PROVE  WallOK'
    BY <1>11, WallQuiet DEF vars
  <1>. QED
    BY <1>1, <1>2, <1>3, <1>4, <1>5, <1>6, <1>7, <1>8, <1>9, <1>10, <1>11 DEF Next, BeginBlock

\* On a chain whose history holds no reward back the wall stands for ever.
LEMMA WallStands ==
    ASSUME MaxSupplyAssumption, BridgeAssumption, ~HeldRewards
    PROVE  Spec => []WallOK
  <1>1. Init => WallOK
    BY WallInit
  <1>2. IInv /\ IInv' /\ WallOK /\ [Next]_vars => WallOK'
    BY WallNext
  <1>3. Spec => []IInv
    BY Invariant
  <1>. QED
    BY <1>1, <1>2, <1>3, PTL DEF Spec

-----------------------------------------------------------------------------
(* Rewards follow survival *)

\* One step mints a witness reward only after its window, for an active adapter.
LEMMA SurvivedStep ==
    ASSUME BridgeAssumption, IInv, [Next]_vars
    PROVE  WitnessSurvived
  <1>. SUFFICES ASSUME NEW i \in Ids, coined'[i] > coined[i], WitnessOnly(att[i])
                PROVE  /\ att[i].status = "settled"
                       /\ height >= att[i].settledAt + ChallengeWindow
                       /\ AdapterStatus(i) = "active"
    BY DEF WitnessSurvived
  <1>0. coined \in [Ids -> Nat] /\ coined' # coined
    BY DEF IInv, TypeOK
  <1>1. PICK id \in Ids : SettleAttestation(id) \/ SweepOne(id)
    BY <1>0 DEF Next, BeginBlock, vars, coins, Submit, OnClaimResolved, RegisterAdapter, SuspendAdapter,
                TombstoneAdapter, UpgradeSeed, MintElsewhere, BurnElsewhere, NextBlock, SettleFails,
                DrainReady, SweepWitnessRewards, BeginBlockDone
  <1>2. CASE SettleAttestation(id)
    <2>1. SettleRewarded(id)
      BY <1>0, <1>2 DEF SettleAttestation, SettleRejected, SettleWitness
    <2>2. ~WitnessOnly(att[id]) /\ \E n : Minted(id, n)
      BY <2>1 DEF SettleRewarded
    <2>3. i = id
      BY <1>0, <2>2 DEF Minted
    <2>. QED
      BY <2>2, <2>3
  <1>3. CASE SweepOne(id)
    <2>1. Resolve(id) /\ stage = "sweep" /\ id \in todo
      BY <1>3 DEF SweepOne
    <2>2. AdapterStatus(id) = "active" /\ Release(id)
      BY <1>0, <2>1 DEF Resolve, Cancel, Defer, coins
    <2>3. \E n : Minted(id, n)
      BY <1>0, <2>2 DEF Release, coins
    <2>4. i = id
      BY <1>0, <2>3 DEF Minted
    <2>5. pending[id] # 0 /\ pending[id] <= height
      BY <2>1 DEF IInv, ScansOK
    <2>6. att[id].status = "settled" /\ pending[id] >= att[id].settledAt + ChallengeWindow
      BY <2>5, StoredRecord DEF RecordOK
    <2>7. pending[id] \in Nat /\ height \in Nat /\ att[id].settledAt \in Nat
      BY StoredRecord
    <2>8. ChallengeWindow \in Nat
      BY RewardAmounts
    <2>9. height >= att[id].settledAt + ChallengeWindow
      BY <2>5, <2>6, <2>7, <2>8
    <2>. QED
      BY <2>2, <2>4, <2>6, <2>9
  <1>. QED
    BY <1>1, <1>2, <1>3

-----------------------------------------------------------------------------
(* Results *)

\* Type correctness of the bridge: its stores hold what the keeper expects to
\* read back, the module balance is never off the integers it is computed in.
THEOREM TypeCorrect ==
    ASSUME MaxSupplyAssumption, BridgeAssumption
    PROVE  Spec => []TypeOK
  <1>1. IInv => TypeOK
    BY DEF IInv
  <1>. QED
    BY <1>1, Invariant, PTL

\* MintWithCap: settlements, witness rewards and what other modules mint and
\* burn in between never lift the bank supply over the cap.
THEOREM SupplyCapped ==
    ASSUME MaxSupplyAssumption, BridgeAssumption
    PROVE  Spec => []CapHolds
  <1>1. IInv => CapHolds
    BY DEF IInv, MoneyOK, CapHolds
  <1>. QED
    BY <1>1, Invariant, PTL

\* The module account holds one bond for every attestation in flight, through
\* submissions, rejections, settlements and refused ones: a bond leaves once.
THEOREM BondsAreBacked ==
    ASSUME MaxSupplyAssumption, BridgeAssumption
    PROVE  Spec => []BondsBacked
  <1>1. IInv => BondsBacked
    BY DEF IInv, MoneyOK, BondsBacked, Flights
  <1>. QED
    BY <1>1, Invariant, PTL

\* authorizeSourceMint: of all attestations that name a source one has minted
\* since the index was armed, and it holds the source for ever after.
THEOREM OneMinter ==
    ASSUME MaxSupplyAssumption, BridgeAssumption
    PROVE  Spec => []OneMinterPerSource
  <1>1. IInv => OneMinterPerSource
    <2>. SUFFICES ASSUME IInv, NEW s \in Sources, NEW id \in minters[s]
                  PROVE  minters[s] = {id} /\ ref[s] = id
      BY DEF OneMinterPerSource
    <2>. QED
      BY DEF IInv, HoldersOK
  <1>. QED
    BY <1>1, Invariant, PTL

\* The reward on the record is all that was ever minted for an attestation,
\* retries of settlements and of releases included.
THEOREM RewardRecorded ==
    ASSUME MaxSupplyAssumption, BridgeAssumption
    PROVE  Spec => []RewardIsCoined
  <1>1. IInv => RewardIsCoined
    BY StoredRecord DEF RewardIsCoined
  <1>. QED
    BY <1>1, Invariant, PTL

\* A witness reward on hold is unpaid and its attestation settled, whatever
\* suspensions, tombstones and sweeps happen to it.
THEOREM HeldRewardsUnpaid ==
    ASSUME MaxSupplyAssumption, BridgeAssumption
    PROVE  Spec => []HeldBackUnpaid
  <1>1. IInv => HeldBackUnpaid
    BY StoredRecord DEF HeldBackUnpaid
  <1>. QED
    BY <1>1, Invariant, PTL

\* SweepWitnessRewards: a step mints for a witness-only link only after the
\* challenge window counted from its settlement, with its adapter active.
THEOREM WitnessRewardsSurvive ==
    ASSUME MaxSupplyAssumption, BridgeAssumption
    PROVE  Spec => [][WitnessSurvived]_vars
  <1>1. IInv /\ [Next]_vars => [WitnessSurvived]_vars
    BY SurvivedStep
  <1>2. Spec => []IInv
    BY Invariant
  <1>. QED
    BY <1>1, <1>2, PTL DEF Spec

\* The source wall over the upgrade: on a chain whose history holds no witness
\* reward back, one external work item mints at most once, before and after the
\* index was seeded together.
THEOREM WorkMintsOnlyOnce ==
    ASSUME MaxSupplyAssumption, BridgeAssumption, ~HeldRewards
    PROVE  Spec => []WorkMintsOnce
  <1>1. IInv /\ WallOK => WorkMintsOnce
    <2>. SUFFICES ASSUME IInv, WallOK, NEW s \in Sources
                  PROVE  Cardinality({id \in Ids : att[id].source = s /\ coined[id] > 0}) <= 1
      BY DEF WorkMintsOnce
    <2>. DEFINE S == {id \in Ids : att[id].source = s /\ coined[id] > 0}
    <2>1. s # Unsourced
      BY DEF BridgeAssumption
    <2>2. \A i, j \in S : i = j
      BY <2>1 DEF WallOK, Sourced
    <2>3. S \in SUBSET Ids
      OBVIOUS
    <2>. HIDE DEF S
    <2>4. IsFiniteSet(S)
      BY <2>3, CountedIds
    <2>5. Cardinality(S) <= 1
      BY <2>2, <2>4, AtMostOne
    <2>. QED
      BY <2>5 DEF S
  <1>2. Spec => []IInv
    BY Invariant
  <1>3. Spec => []WallOK
    BY WallStands
  <1>. QED
    BY <1>1, <1>2, <1>3, PTL

\* The bridge keeps its promise as a whole, in every state and every step.
THEOREM BridgeKeepsPromise ==
    ASSUME MaxSupplyAssumption, BridgeAssumption
    PROVE  Spec => BridgeMintsOnce
  <1>1. HeldRewards \in BOOLEAN
    BY DEF BridgeAssumption
  <1>2. Spec => /\ []TypeOK /\ []CapHolds /\ []BondsBacked /\ []RewardIsCoined
                /\ []HeldBackUnpaid /\ []OneMinterPerSource
    BY TypeCorrect, SupplyCapped, BondsAreBacked, RewardRecorded, HeldRewardsUnpaid, OneMinter, PTL
  <1>3. Spec => [][WitnessSurvived]_vars
    BY WitnessRewardsSurvive
  <1>4. CASE ~HeldRewards
    <2>1. Spec => []WorkMintsOnce
      BY <1>4, WorkMintsOnlyOnce
    <2>2. TypeOK /\ CapHolds /\ BondsBacked /\ RewardIsCoined /\ HeldBackUnpaid /\ OneMinterPerSource
             /\ WorkMintsOnce => BridgeSafe
      BY DEF BridgeSafe
    <2>. QED
      BY <1>2, <1>3, <2>1, <2>2, PTL DEF BridgeMintsOnce
  <1>5. CASE HeldRewards
    <2>1. TypeOK /\ CapHolds /\ BondsBacked /\ RewardIsCoined /\ HeldBackUnpaid /\ OneMinterPerSource
             => BridgeSafe
      BY <1>5 DEF BridgeSafe
    <2>. QED
      BY <1>2, <1>3, <2>1, PTL DEF BridgeMintsOnce
  <1>. QED
    BY <1>1, <1>4, <1>5

-----------------------------------------------------------------------------
(* The inductive invariant of vesting schedules *)

VestAssumptions == Vest!ConfigAssumption /\ Vest!FactOfAssumption

Schedule == [status : {"none", "active", "paused", "completed", "falsified"},
             total : Totals \cup {0}, released : Nat, pausedAt : 0 .. MaxHeight,
             totalPaused : 0 .. MaxHeight, evidence : [Evidence -> 0 .. MaxEvidence],
             age : 0 .. MaxHeight]

\* A schedule accepted at height a, seen at height h.
ScheduleOK(s, a, h) ==
    /\ s \in Schedule
    /\ s.status = "none" => s.released = 0
    /\ s.status # "none" => a <= h
    /\ s.released <= Vest!MaxReleased(s.total)
    /\ s.status = "active" => h - a - s.totalPaused = s.age
    /\ s.status = "paused" => s.pausedAt <= h /\ s.pausedAt - a - s.totalPaused = s.age

SchedulesOK(S, h) == DOMAIN S = Vest!Ids /\ S = [id \in Vest!Ids |-> S[id]] /\ \A id \in Vest!Ids : ScheduleOK(S[id], id[3], h)

IndexOK(S, I) ==
    /\ I \in [Vest!Keys -> Vest!Ids \cup {Vest!None}]
    /\ \A id \in Vest!Ids : S[id].status # "none" => I[id[1]] \in Vest!Ids
    /\ \A k \in Vest!Keys : I[k] \in Vest!Ids => I[k][1] = k /\ S[I[k]].status # "none"
    /\ \A id, jd \in Vest!Ids : S[id].status # "none" /\ S[jd].status # "none" /\ id[1] = jd[1] /\ id[1] \in Claims => id = jd

\* Clawbacks are of falsified schedules, one each, and split them without loss.
ClawbackOK(c, s) ==
    /\ s.status = "falsified"
    /\ c.released \in Nat /\ c.reward \in Nat
    /\ c.reward + (s.released - c.released) = s.total

ClawbacksOK(S, C, D) ==
    /\ \A c \in C : c.schedule \in Vest!Ids /\ ClawbackOK(c, S[c.schedule])
    /\ \A c, d \in C : c.schedule = d.schedule => c = d
    /\ \A id \in Vest!Ids : S[id].status = "falsified" => Vest!LinkedFact(id) \in D

\* What the schedules of r show as released, those that do not exist included.
IdsOf(r) == {id \in Vest!Ids : id[2] = r}
ReleasedTo(S, r) == [id \in IdsOf(r) |-> S[id].released]
PaidOK(S, P) == P \in [Recipients -> Nat] /\ \A r \in Recipients : P[r] = Total(ReleasedTo(S, r))

VestInv ==
    /\ height \in 1 .. MaxHeight /\ balance \in Nat /\ disproven \subseteq Facts
    /\ SchedulesOK(schedule, height)
    /\ IndexOK(schedule, claimIndex)
    /\ ClawbacksOK(schedule, clawbacks, disproven)
    /\ PaidOK(schedule, vestPaid)

-----------------------------------------------------------------------------
(* Arithmetic *)

\* The constants the proofs compute with.
LEMMA VestParams ==
    ASSUME VestAssumptions
    PROVE  /\ CliffBlocks \in Nat /\ HalfLifeBlocks \in Nat \ {0} /\ MaxRelease \in 0 .. Vest!Whole
           /\ ReleasedClawbackRate \in Nat /\ Precision \in Nat \ {0} /\ FractionalScale \in Nat \ {0}
           /\ Ln2Scaled \in Nat /\ Totals \subseteq Nat \ {0} /\ Funds \subseteq Nat
           /\ MaxEvidence \in Nat /\ LastCreation \in Nat /\ MaxHeight \in Nat \ {0}
           /\ Vest!Whole \in Nat \ {0}
           /\ \A n \in 0 .. MaxHeight : 2^n \in Nat \ {0}
  <1>1. Vest!Whole \in Nat \ {0}
    BY SMT DEF Vest!Whole
  <1>. QED
    BY <1>1, SMT DEF VestAssumptions, Vest!ConfigAssumption

\* Of two numbers.
LEMMA LeastGreatest ==
    ASSUME NEW a \in Int, NEW b \in Int
    PROVE  /\ Vest!Min({a, b}) \in {a, b} /\ Vest!Min({a, b}) <= a /\ Vest!Min({a, b}) <= b
           /\ Vest!Max({a, b}) \in {a, b} /\ Vest!Max({a, b}) >= a /\ Vest!Max({a, b}) >= b
  <1>1. \E x \in {a, b} : \A y \in {a, b} : x <= y
    OBVIOUS
  <1>2. \E x \in {a, b} : \A y \in {a, b} : x >= y
    OBVIOUS
  <1>3. Vest!Min({a, b}) \in {a, b} /\ \A y \in {a, b} : Vest!Min({a, b}) <= y
    BY <1>1 DEF Vest!Min
  <1>4. Vest!Max({a, b}) \in {a, b} /\ \A y \in {a, b} : Vest!Max({a, b}) >= y
    BY <1>2 DEF Vest!Max
  <1>. QED
    BY <1>3, <1>4

\* A set without two different elements has at most one.
LEMMA NoTwoMembers ==
    ASSUME NEW S, \A x, y \in S : x = y
    PROVE  Cardinality(S) <= 1
  <1>1. CASE S = {}
    BY <1>1, FS_EmptySet
  <1>2. ASSUME NEW x \in S
        PROVE  Cardinality(S) <= 1
    <2>1. S = {x}
      BY <1>2
    <2>. QED
      BY <2>1, FS_Singleton
  <1>. QED
    BY <1>1, <1>2

\* A quotient lies under a bound that its divisor reaches.
LEMMA QuotientBound ==
    ASSUME NEW a \in Nat, NEW b \in Nat \ {0}, NEW c \in Nat
    PROVE  /\ a \div b \in Nat /\ b * (a \div b) <= a
           /\ b * c <= a => c <= a \div b
  <1>1. a \div b \in Nat /\ b * (a \div b) <= a /\ a < b * (a \div b) + b
    OBVIOUS
  <1>. DEFINE q == a \div b
  <1>. HIDE DEF q
  <1>2. ASSUME b * c <= a, c > q
        PROVE  FALSE
    <2>1. c - q \in Nat \ {0}
      BY <1>1, <1>2 DEF q
    <2>2. b * (c - q) >= b
      BY <2>1
    <2>3. b * (c - q) = b * c - b * q
      BY <1>1 DEF q
    <2>4. b * c \in Nat /\ b * q \in Nat
      BY <1>1 DEF q
    <2>. QED
      BY <1>1, <1>2, <2>2, <2>3, <2>4 DEF q
  <1>. QED
    BY <1>1, <1>2 DEF q

\* Rounding a share of the fraction down gives no more than the share itself.
LEMMA ShareOfFraction ==
    ASSUME NEW t \in Nat, NEW m \in Nat, NEW p \in Nat \ {0}, NEW w \in Nat \ {0},
           NEW f \in 0 .. ((m * p) \div w)
    PROVE  (t * f) \div p \in 0 .. ((t * m) \div w)
  <1>. DEFINE q == (t * f) \div p
  <1>1. m * p \in Nat /\ t * f \in Nat /\ t * m \in Nat
    OBVIOUS
  <1>2. q \in Nat /\ p * q <= t * f
    BY <1>1, QuotientBound
  <1>3. w * f <= m * p
    <2>. DEFINE z == (m * p) \div w
    <2>1. z \in Nat /\ w * z <= m * p
      BY <1>1, QuotientBound
    <2>2. f \in Nat /\ f <= z
      BY <2>1
    <2>. HIDE DEF z
    <2>3. w * f <= w * z
      BY <2>1, <2>2
    <2>4. w * f \in Nat /\ w * z \in Nat
      BY <2>1, <2>2
    <2>. QED
      BY <1>1, <2>1, <2>3, <2>4
  <1>. HIDE DEF q
  <1>4. w * (p * q) <= w * (t * f)
    <2>. DEFINE x == p * q
                y == t * f
    <2>1. x \in Nat /\ y \in Nat /\ x <= y
      BY <1>1, <1>2
    <2>. HIDE DEF x, y
    <2>2. w * x <= w * y
      BY <2>1
    <2>. QED
      BY <2>2 DEF x, y
  <1>5. t * (w * f) <= t * (m * p)
    <2>. DEFINE x == w * f
                y == m * p
    <2>1. x \in Nat /\ y \in Nat /\ x <= y
      BY <1>1, <1>3
    <2>. HIDE DEF x, y
    <2>2. t * x <= t * y
      BY <2>1
    <2>. QED
      BY <2>2 DEF x, y
  <1>6. w * (t * f) = t * (w * f) /\ w * (p * q) = p * (w * q) /\ t * (m * p) = p * (t * m)
    BY <1>2
  <1>7. p * (w * q) <= p * (t * m)
    BY <1>1, <1>2, <1>4, <1>5, <1>6
  <1>8. w * q <= t * m
    <2>. DEFINE x == w * q
                y == t * m
    <2>1. x \in Nat /\ y \in Nat /\ p * x <= p * y
      BY <1>1, <1>2, <1>7
    <2>. HIDE DEF x, y
    <2>2. x <= y
      <3>. SUFFICES ASSUME x > y PROVE FALSE
        BY <2>1
      <3>1. x - y \in Nat \ {0} /\ p * (x - y) = p * x - p * y
        BY <2>1
      <3>2. p * (x - y) >= p
        BY <3>1
      <3>. QED
        BY <2>1, <3>1, <3>2
    <2>. QED
      BY <2>2 DEF x, y
  <1>9. q <= (t * m) \div w
    BY <1>1, <1>2, <1>8, QuotientBound
  <1>. QED
    BY <1>1, <1>2, <1>9, QuotientBound DEF q

\* The cap and the reserve fit into the whole.
LEMMA CapAndReserve ==
    ASSUME NEW t \in Nat, NEW w \in Nat \ {0}, NEW m \in 0 .. w
    PROVE  /\ (t * m) \div w \in Nat /\ (t * (w - m)) \div w \in Nat
           /\ (t * m) \div w + (t * (w - m)) \div w <= t
  <1>. DEFINE x == (t * m) \div w
              y == (t * (w - m)) \div w
  <1>1. t * m \in Nat /\ t * (w - m) \in Nat /\ t * m + t * (w - m) = w * t
    OBVIOUS
  <1>2. x \in Nat /\ y \in Nat /\ w * x <= t * m /\ w * y <= t * (w - m)
    BY <1>1, QuotientBound
  <1>. HIDE DEF x, y
  <1>3. w * (x + y) = w * x + w * y /\ w * (x + y) \in Nat
    BY <1>2
  <1>4. w * (x + y) <= w * t
    BY <1>1, <1>2, <1>3
  <1>5. x + y <= t
    <2>. SUFFICES ASSUME x + y > t PROVE FALSE
      BY <1>2
    <2>. DEFINE d == x + y - t
    <2>1. d \in Nat \ {0} /\ w * d = w * (x + y) - w * t
      BY <1>2
    <2>. HIDE DEF d
    <2>2. w * d >= w
      BY <2>1
    <2>. QED
      BY <1>3, <1>4, <2>1, <2>2
  <1>. QED
    BY <1>2, <1>5 DEF x, y

-----------------------------------------------------------------------------
(* The curve *)

\* The bonus of evidence is an amount.
LEMMA BonusNat ==
    ASSUME VestAssumptions, NEW s \in Schedule
    PROVE  Vest!BonusBps(s) \in Nat
  <1>1. \A e \in Evidence : s.evidence[e] \in Nat
    BY VestParams DEF Schedule
  <1>. DEFINE part(e, n, c) == IF e \in Evidence THEN Vest!Min({c, s.evidence[e] * n}) ELSE 0
  <1>2. ASSUME NEW e, NEW n \in Nat, NEW c \in Nat
        PROVE  part(e, n, c) \in Nat
    <2>1. CASE e \in Evidence
      <3>. DEFINE x == s.evidence[e] * n
      <3>1. x \in Nat
        BY <1>1, <2>1
      <3>. HIDE DEF x
      <3>2. c \in Int /\ x \in Int
        BY <3>1
      <3>3. Vest!Min({c, x}) \in {c, x}
        BY <3>2, LeastGreatest
      <3>. QED
        BY <2>1, <3>1, <3>3 DEF x
    <2>. QED
      BY <2>1
  <1>. DEFINE b1 == part("defense", 1100, 5500)
              b2 == part("replication", 1100, 3300)
              b3 == part("corroboration", 500, 2200)
              b4 == part("citation", 200, 2200)
              top == 7700
              b == b1 + b2 + b3 + b4
  <1>3. Vest!BonusBps(s) = Vest!Min({top, b})
    BY SMT DEF Vest!BonusBps
  <1>4. top \in Nat
    BY SMT
  <1>. HIDE DEF part, top
  <1>5. b1 \in Nat /\ b2 \in Nat /\ b3 \in Nat /\ b4 \in Nat
    BY <1>2, SMT
  <1>. HIDE DEF b1, b2, b3, b4
  <1>6. b \in Nat
    BY <1>5
  <1>. HIDE DEF b
  <1>7. Vest!Min({top, b}) \in {top, b}
    BY <1>4, <1>6, LeastGreatest
  <1>. QED
    BY <1>3, <1>4, <1>6, <1>7

\* Evidence shortens the half-life, never to nothing.
LEMMA HalfLifePositive ==
    ASSUME VestAssumptions, NEW s \in Schedule
    PROVE  Vest!EffectiveHalfLife(s) \in Nat \ {0}
  <1>. DEFINE b == Vest!BonusBps(s)
              n == (HalfLifeBlocks * 10000) \div (10000 + b)
  <1>1. b \in Nat
    BY BonusNat
  <1>. HIDE DEF b
  <1>2. HalfLifeBlocks * 10000 \in Nat /\ 10000 + b \in Nat \ {0}
    BY <1>1, VestParams
  <1>3. n \in Nat
    BY <1>2, QuotientBound
  <1>. HIDE DEF n
  <1>4. \A x, y \in Int : Vest!Max({x, y}) \in {x, y} /\ Vest!Max({x, y}) >= x
    BY LeastGreatest
  <1>5. 1 \in Int /\ n \in Int
    BY <1>3
  <1>6. Vest!Max({1, n}) \in {1, n} /\ Vest!Max({1, n}) >= 1
    BY <1>4, <1>5, Zenon
  <1>7. Vest!Max({1, n}) \in Nat \ {0}
    BY <1>3, <1>6
  <1>. QED
    BY <1>7, VestParams DEF Vest!EffectiveHalfLife, b, n

\* The factor left after a time is a number.
LEMMA HalvingInt ==
    ASSUME VestAssumptions, NEW t \in 0 .. MaxHeight, NEW l \in Nat \ {0}
    PROVE  Vest!HalvingFactor(t, l) \in Int
  <1>1. ASSUME NEW r \in Nat
        PROVE  Vest!FractionalHalving(r, l) \in Int
    <2>. DEFINE x == ((r * Ln2Scaled) \div l) * (Precision \div FractionalScale)
                x2 == (x * x) \div Precision
                x3 == (x2 * x) \div Precision
                x4 == (x3 * x) \div Precision
                y == Precision - x + x2 \div 2 - x3 \div 6 + x4 \div 24
    <2>1. x \in Int
      <3>1. r * Ln2Scaled \in Nat
        BY VestParams
      <3>2. (r * Ln2Scaled) \div l \in Int
        BY <3>1
      <3>3. Precision \div FractionalScale \in Int
        BY VestParams
      <3>. QED
        BY <3>2, <3>3
    <2>. HIDE DEF x
    <2>2. x2 \in Int
      BY <2>1, VestParams
    <2>. HIDE DEF x2
    <2>3. x3 \in Int
      BY <2>1, <2>2, VestParams
    <2>. HIDE DEF x3
    <2>4. x4 \in Int
      BY <2>1, <2>3, VestParams
    <2>. HIDE DEF x4
    <2>5. y \in Int
      BY <2>1, <2>2, <2>3, <2>4, VestParams
    <2>. HIDE DEF y
    <2>6. Precision \in Int /\ 0 \in Int
      BY VestParams
    <2>. DEFINE z == Vest!Min({Precision, y})
    <2>7. z \in Int
      BY <2>5, <2>6, LeastGreatest
    <2>. HIDE DEF z
    <2>8. \A a, b \in Int : Vest!Max({a, b}) \in {a, b}
      BY LeastGreatest
    <2>9. Vest!Max({0, z}) \in Int
      BY <2>6, <2>7, <2>8, Zenon
    <2>. QED
      BY <2>9 DEF Vest!FractionalHalving, x, x2, x3, x4, y, z
  <1>. DEFINE full == t \div l
              rest == t % l
              remaining == Precision \div 2^full
  <1>2. t \in Nat /\ full \in 0 .. t /\ rest \in Nat
    <2>1. t \in Nat
      BY VestParams
    <2>2. full \in Nat /\ l * full <= t
      BY <2>1, QuotientBound
    <2>3. rest \in Nat
      BY <2>1
    <2>. HIDE DEF full
    <2>4. full <= l * full
      <3>1. (l - 1) * full \in Nat /\ l * full = full + (l - 1) * full
        BY <2>2
      <3>. QED
        BY <2>2, <3>1
    <2>5. l * full \in Nat
      BY <2>2
    <2>. QED
      BY <2>1, <2>2, <2>3, <2>4, <2>5
  <1>3. remaining \in Int
    <2>. HIDE DEF full
    <2>1. full \in 0 .. MaxHeight
      BY <1>2, VestParams
    <2>2. 2^full \in Nat \ {0}
      BY <2>1, VestParams
    <2>. DEFINE d == 2^full
    <2>. HIDE DEF d
    <2>3. Precision \div d \in Int
      BY <2>2, VestParams DEF d
    <2>. QED
      BY <2>3 DEF d
  <1>4. Vest!FractionalHalving(rest, l) \in Int
    BY <1>1, <1>2
  <1>. HIDE DEF full, rest, remaining
  <1>5. (remaining * Vest!FractionalHalving(rest, l)) \div Precision \in Int
    BY <1>3, <1>4, VestParams
  <1>. QED
    BY <1>3, <1>5 DEF Vest!HalvingFactor, full, rest, remaining

\* What an active schedule has vested stays within the cap of its category.
LEMMA VestedCapped ==
    ASSUME VestAssumptions, VestInv, NEW id \in Vest!Ids, schedule[id].status = "active"
    PROVE  Vest!Vested(id) \in 0 .. Vest!MaxReleased(schedule[id].total)
  <1>. DEFINE s == schedule[id]
              e == Vest!Elapsed(id)
  <1>1. /\ s \in Schedule /\ id[3] \in Nat \ {0} /\ height - id[3] - s.totalPaused = s.age
        /\ height \in 1 .. MaxHeight
    BY VestParams DEF VestInv, SchedulesOK, ScheduleOK, Vest!Ids
  <1>2. s.total \in Nat /\ s.age \in 0 .. MaxHeight
    BY <1>1, VestParams DEF Schedule
  <1>3. e = s.age
    BY <1>1, <1>2 DEF Vest!Elapsed, Vest!AcceptedAt, Schedule
  <1>4. Vest!MaxReleased(s.total) \in Nat
    BY <1>2, VestParams, CapAndReserve DEF Vest!MaxReleased
  <1>. HIDE DEF s, e
  <1>5. CASE height < Vest!AcceptedAt(id) + CliffBlocks \/ e <= CliffBlocks
    BY <1>4, <1>5 DEF Vest!Vested, s, e
  <1>6. CASE ~(height < Vest!AcceptedAt(id) + CliffBlocks \/ e <= CliffBlocks)
    <2>. DEFINE top == (MaxRelease * Precision) \div Vest!Whole
                f == Vest!ReleaseFraction(id)
    <2>1. Vest!EffectiveHalfLife(s) \in Nat \ {0}
      BY <1>1, HalfLifePositive
    <2>2. e - CliffBlocks \in 0 .. MaxHeight
      BY <1>2, <1>3, <1>6, VestParams
    <2>. DEFINE h == Vest!HalvingFactor(e - CliffBlocks, Vest!EffectiveHalfLife(s))
    <2>3. h \in Int
      BY <2>1, <2>2, HalvingInt
    <2>. HIDE DEF h
    <2>. DEFINE left == Precision - h
    <2>4. left \in Int /\ 0 \in Int
      BY <2>3, VestParams
    <2>. HIDE DEF left
    <2>5. MaxRelease * Precision \in Nat
      BY VestParams
    <2>6. top \in Nat
      BY <2>5, VestParams, QuotientBound
    <2>. HIDE DEF top
    <2>7. /\ \A a, b \in Int : Vest!Max({a, b}) \in {a, b} /\ Vest!Max({a, b}) >= a
          /\ \A a, b \in Int : Vest!Min({a, b}) \in {a, b} /\ Vest!Min({a, b}) <= a
      BY LeastGreatest
    <2>. DEFINE m == Vest!Max({0, left})
    <2>8. m \in {0, left} /\ m >= 0
      BY <2>4, <2>7, Zenon
    <2>9. m \in Nat
      BY <2>4, <2>8
    <2>. HIDE DEF m
    <2>10. Vest!Min({top, m}) \in {top, m} /\ Vest!Min({top, m}) <= top
      BY <2>6, <2>9, LeastGreatest
    <2>11. f = Vest!Min({top, m})
      BY DEF Vest!ReleaseFraction, top, m, left, h, s, e
    <2>. HIDE DEF f
    <2>12. f \in 0 .. top
      BY <2>6, <2>9, <2>10, <2>11
    <2>13. (s.total * f) \div Precision \in 0 .. Vest!MaxReleased(s.total)
      BY <1>2, <2>12, VestParams, ShareOfFraction DEF Vest!MaxReleased, top
    <2>14. Vest!Vested(id) = (s.total * f) \div Precision
      BY <1>6 DEF Vest!Vested, s, e, f
    <2>. QED
      BY <2>13, <2>14 DEF s
  <1>. QED
    BY <1>5, <1>6

\* What can be claimed keeps the release within the cap; what has ended or is
\* paused yields nothing.
LEMMA ClaimCapped ==
    ASSUME VestAssumptions, VestInv, NEW id \in Vest!Ids
    PROVE  /\ Vest!Claimable(id) \in Nat
           /\ schedule[id].status # "active" => Vest!Claimable(id) = 0
           /\ schedule[id].released + Vest!Claimable(id) <= Vest!MaxReleased(schedule[id].total)
  <1>. DEFINE s == schedule[id]
  <1>1. s \in Schedule /\ s.released <= Vest!MaxReleased(s.total)
    BY DEF VestInv, SchedulesOK, ScheduleOK
  <1>2. s.released \in Nat /\ s.total \in Nat
    BY <1>1, VestParams DEF Schedule
  <1>3. Vest!MaxReleased(s.total) \in Nat
    BY <1>2, VestParams, CapAndReserve DEF Vest!MaxReleased
  <1>. HIDE DEF s
  <1>4. CASE s.status = "active"
    <2>. DEFINE v == Vest!Vested(id)
                d == v - s.released
    <2>1. v \in 0 .. Vest!MaxReleased(s.total)
      BY <1>4, VestedCapped DEF s
    <2>. HIDE DEF v
    <2>2. d \in Int /\ 0 \in Int
      BY <1>2, <1>3, <2>1
    <2>. HIDE DEF d
    <2>3. \A a, b \in Int : Vest!Max({a, b}) \in {a, b} /\ Vest!Max({a, b}) >= a
      BY LeastGreatest
    <2>. DEFINE m == Vest!Max({0, d})
    <2>4. m \in {0, d} /\ m >= 0
      BY <2>2, <2>3, Zenon
    <2>. HIDE DEF m
    <2>5. m \in Nat /\ s.released + m <= Vest!MaxReleased(s.total)
      BY <1>1, <1>2, <1>3, <2>1, <2>2, <2>4 DEF d
    <2>6. Vest!Claimable(id) = m
      BY <1>4 DEF Vest!Claimable, m, d, v, s
    <2>. QED
      BY <1>4, <2>5, <2>6 DEF s
  <1>5. CASE s.status # "active"
    BY <1>1, <1>2, <1>5 DEF Vest!Claimable, s
  <1>. QED
    BY <1>4, <1>5

-----------------------------------------------------------------------------
(* One schedule is written *)

\* A schedule names its claim, its recipient and the height it was accepted at.
LEMMA IdParts ==
    ASSUME VestAssumptions
    PROVE  /\ \A id \in Vest!Ids : id[1] \in Vest!Keys /\ id[2] \in Recipients /\ id[3] \in 1 .. LastCreation
           /\ \A k \in Vest!Keys, r \in Recipients, h \in 1 .. LastCreation : <<k, r, h>> \in Vest!Ids
           /\ Vest!None \notin Vest!Ids
  BY DEF Vest!Ids, Vest!None

\* There are finitely many identifiers.
LEMMA IdsFinite ==
    ASSUME VestAssumptions
    PROVE  IsFiniteSet(Vest!Ids)
  <1>. DEFINE P == (Vest!Keys \X Recipients) \X (1 .. LastCreation)
              f == [q \in P |-> <<q[1][1], q[1][2], q[2]>>]
  <1>1. IsFiniteSet(Claims) /\ IsFiniteSet(Facts) /\ IsFiniteSet(Recipients) /\ LastCreation \in Nat
    BY VestCounts DEF VestAssumptions, Vest!ConfigAssumption
  <1>2. IsFiniteSet(Vest!Keys)
    BY <1>1, FS_Union DEF Vest!Keys
  <1>3. IsFiniteSet(Vest!Keys \X Recipients)
    BY <1>1, <1>2, FS_Product
  <1>4. IsFiniteSet(1 .. LastCreation)
    BY <1>1, FS_Interval
  <1>5. IsFiniteSet(P)
    <2>. DEFINE K == Vest!Keys \X Recipients
                L == 1 .. LastCreation
    <2>1. IsFiniteSet(K) /\ IsFiniteSet(L)
      BY <1>3, <1>4
    <2>. HIDE DEF K, L
    <2>2. IsFiniteSet(K \X L)
      BY <2>1, FS_Product
    <2>. QED
      BY <2>2 DEF K, L
  <1>6. f \in Surjection(P, Vest!Ids)
    <2>1. \A q \in P : f[q] \in Vest!Ids
      BY DEF Vest!Ids
    <2>2. \A id \in Vest!Ids : \E q \in P : f[q] = id
      <3>. SUFFICES ASSUME NEW id \in Vest!Ids PROVE \E q \in P : f[q] = id
        OBVIOUS
      <3>1. <<<<id[1], id[2]>>, id[3]>> \in P /\ f[<<<<id[1], id[2]>>, id[3]>>] = id
        BY DEF Vest!Ids
      <3>. QED
        BY <3>1
    <2>. QED
      BY <2>1, <2>2 DEF Surjection
  <1>. HIDE DEF P, f
  <1>. QED
    BY <1>5, <1>6, FS_Surjection

\* What a step writes into schedule id, paying nothing.
Rewrites(id, s) ==
    /\ schedule' = [schedule EXCEPT ![id] = s]
    /\ height' = height
    /\ ScheduleOK(s, id[3], height) /\ s.released = schedule[id].released

LEMMA RewriteKeeps ==
    ASSUME VestAssumptions, VestInv, NEW id \in Vest!Ids, NEW s, Rewrites(id, s)
    PROVE  /\ SchedulesOK(schedule', height')
           /\ \A r \in Recipients : ReleasedTo(schedule', r) = ReleasedTo(schedule, r)
  <1>1. DOMAIN schedule = Vest!Ids /\ \A jd \in Vest!Ids : schedule'[jd] = IF jd = id THEN s ELSE schedule[jd]
    BY DEF Rewrites, VestInv, SchedulesOK
  <1>2. SchedulesOK(schedule', height')
    BY <1>1 DEF Rewrites, VestInv, SchedulesOK
  <1>3. \A jd \in Vest!Ids : schedule'[jd].released = schedule[jd].released
    BY <1>1 DEF Rewrites
  <1>4. \A r \in Recipients : ReleasedTo(schedule', r) = ReleasedTo(schedule, r)
    BY <1>3 DEF ReleasedTo, IdsOf
  <1>. QED
    BY <1>2, <1>4

\* The claim index follows the writes.
LEMMA IndexFollows ==
    ASSUME VestAssumptions, VestInv, NEW id \in Vest!Ids, NEW s, Rewrites(id, s), s.status # "none", Vest!Written(id),
           schedule[id].status # "none" \/ id[1] \notin Claims \/ claimIndex[id[1]] = Vest!None
    PROVE  IndexOK(schedule', claimIndex')
  <1>1. /\ \A jd \in Vest!Ids : schedule'[jd] = IF jd = id THEN s ELSE schedule[jd]
        /\ id[1] \in Vest!Keys /\ Vest!None \notin Vest!Ids
    BY IdParts DEF Rewrites, VestInv, SchedulesOK
  <1>2. /\ claimIndex \in [Vest!Keys -> Vest!Ids \cup {Vest!None}]
        /\ \A k \in Vest!Keys : claimIndex'[k] = IF k = id[1] THEN id ELSE claimIndex[k]
        /\ claimIndex' \in [Vest!Keys -> Vest!Ids \cup {Vest!None}]
    BY <1>1 DEF Vest!Written, VestInv, IndexOK
  <1>3. \A jd \in Vest!Ids : schedule'[jd].status # "none" => claimIndex'[jd[1]] \in Vest!Ids
    BY <1>1, <1>2, IdParts DEF VestInv, IndexOK
  <1>4. \A k \in Vest!Keys : claimIndex'[k] \in Vest!Ids => claimIndex'[k][1] = k /\ schedule'[claimIndex'[k]].status # "none"
    BY <1>1, <1>2 DEF VestInv, IndexOK
  <1>5. \A jd \in Vest!Ids : schedule[jd].status # "none" /\ schedule[id].status = "none" => jd[1] # id[1] \/ id[1] \notin Claims
    BY <1>1 DEF VestInv, IndexOK
  <1>6. \A jd, kd \in Vest!Ids : schedule'[jd].status # "none" /\ schedule'[kd].status # "none" /\ jd[1] = kd[1] /\ jd[1] \in Claims
                            => jd = kd
    BY <1>1, <1>5 DEF VestInv, IndexOK
  <1>. QED
    BY <1>2, <1>3, <1>4, <1>6 DEF IndexOK

\* Clawbacks stand as long as no schedule becomes or stops being falsified.
LEMMA ClawbacksStand ==
    ASSUME VestAssumptions, VestInv, NEW id \in Vest!Ids, NEW s, Rewrites(id, s),
           s.status = "falsified" <=> schedule[id].status = "falsified",
           s.status = "falsified" => s.total = schedule[id].total,
           UNCHANGED <<clawbacks, disproven>>
    PROVE  ClawbacksOK(schedule', clawbacks', disproven')
  <1>1. \A jd \in Vest!Ids : schedule'[jd] = IF jd = id THEN s ELSE schedule[jd]
    BY DEF Rewrites, VestInv, SchedulesOK
  <1>2. s.released = schedule[id].released
    BY DEF Rewrites
  <1>. QED
    BY <1>1, <1>2 DEF VestInv, ClawbacksOK, ClawbackOK

\* A write that is no falsification keeps the invariant.
LEMMA WriteKeeps ==
    ASSUME VestAssumptions, VestInv, NEW id \in Vest!Ids, NEW s, Rewrites(id, s), s.status # "none", Vest!Written(id),
           schedule[id].status # "none" \/ id[1] \notin Claims \/ claimIndex[id[1]] = Vest!None,
           s.status = "falsified" <=> schedule[id].status = "falsified",
           s.status = "falsified" => s.total = schedule[id].total,
           UNCHANGED <<disproven, clawbacks, balance, vestPaid>>
    PROVE  VestInv'
  <1>1. SchedulesOK(schedule', height') /\ \A r \in Recipients : ReleasedTo(schedule', r) = ReleasedTo(schedule, r)
    BY RewriteKeeps
  <1>2. IndexOK(schedule', claimIndex')
    BY IndexFollows
  <1>3. ClawbacksOK(schedule', clawbacks', disproven')
    BY ClawbacksStand
  <1>4. PaidOK(schedule', vestPaid')
    BY <1>1 DEF VestInv, PaidOK
  <1>5. height' \in 1 .. MaxHeight /\ balance' \in Nat /\ disproven' \subseteq Facts
    BY DEF VestInv, Rewrites
  <1>. QED
    BY <1>1, <1>2, <1>3, <1>4, <1>5 DEF VestInv

-----------------------------------------------------------------------------
(* Actions *)

LEMMA CreatedKeeps ==
    ASSUME VestAssumptions, VestInv, NEW k \in Vest!Keys, NEW r \in Recipients, NEW total \in Totals,
           height <= LastCreation, Vest!Created(<<k, r, height>>, total),
           k \notin Claims \/ claimIndex[k] = Vest!None
    PROVE  VestInv'
  <1>. DEFINE id == <<k, r, height>>
              s == [Vest!NoSchedule EXCEPT !.status = "active", !.total = total]
  <1>1. id \in Vest!Ids /\ id[1] = k /\ id[3] = height
    BY IdParts, VestParams DEF VestInv
  <1>2. schedule[id].status = "none" /\ schedule[id].released = 0
    BY <1>1 DEF Vest!Created, Vest!Exists, VestInv, SchedulesOK, ScheduleOK
  <1>3. s \in Schedule /\ s.status = "active" /\ s.released = 0 /\ s.totalPaused = 0 /\ s.age = 0 /\ s.total = total
    <2>1. 0 \in 0 .. MaxHeight /\ 0 \in 0 .. MaxEvidence /\ total \in Totals \cup {0}
      BY VestParams
    <2>2. [e \in Evidence |-> 0] \in [Evidence -> 0 .. MaxEvidence]
      BY <2>1
    <2>3. /\ Vest!NoSchedule \in Schedule /\ Vest!NoSchedule.released = 0
          /\ Vest!NoSchedule.totalPaused = 0 /\ Vest!NoSchedule.age = 0
      BY <2>1, <2>2 DEF Vest!NoSchedule, Schedule
    <2>. QED
      BY <2>1, <2>3 DEF Schedule
  <1>4. Vest!MaxReleased(total) \in Nat
    BY VestParams, CapAndReserve DEF Vest!MaxReleased
  <1>5. height \in Nat
    BY VestParams DEF VestInv
  <1>. HIDE DEF id, s
  <1>6. ScheduleOK(s, id[3], height)
    BY <1>1, <1>3, <1>4, <1>5 DEF ScheduleOK
  <1>7. Rewrites(id, s)
    BY <1>2, <1>3, <1>6 DEF Rewrites, Vest!Created, id, s
  <1>8. Vest!Written(id) /\ UNCHANGED <<disproven, clawbacks, balance, vestPaid>>
    BY DEF Vest!Created, id
  <1>. QED
    BY <1>1, <1>2, <1>3, <1>7, <1>8, WriteKeeps

LEMMA CreateVestingKeeps ==
    ASSUME VestAssumptions, VestInv, NEW f \in Facts, NEW r \in Recipients, NEW total \in Totals,
           Vest!CreateVesting(f, r, total)
    PROVE  VestInv'
  BY CreatedKeeps DEF Vest!CreateVesting, Vest!Keys, VestAssumptions, Vest!FactOfAssumption

LEMMA CreateFromKnowledgeKeeps ==
    ASSUME VestAssumptions, VestInv, NEW c \in Claims, NEW r \in Recipients, NEW total \in Totals,
           Vest!CreateVestingScheduleFromKnowledge(c, r, total)
    PROVE  VestInv'
  BY CreatedKeeps DEF Vest!CreateVestingScheduleFromKnowledge, Vest!Keys

\* A schedule in place is rewritten without being paid.
LEMMA RewrittenKeeps ==
    ASSUME VestAssumptions, VestInv, NEW id \in Vest!Ids, NEW s, Vest!Rewritten(id, s),
           schedule[id].status # "none", s.status # "none", ScheduleOK(s, id[3], height),
           s.released = schedule[id].released, s.total = schedule[id].total,
           s.status = "falsified" <=> schedule[id].status = "falsified"
    PROVE  VestInv'
  <1>1. Rewrites(id, s) /\ Vest!Written(id) /\ UNCHANGED <<disproven, clawbacks, balance, vestPaid>>
    BY DEF Vest!Rewritten, Rewrites
  <1>. QED
    BY <1>1, WriteKeeps

LEMMA PauseKeeps ==
    ASSUME VestAssumptions, VestInv, NEW id \in Vest!Ids, Vest!PauseVesting(id)
    PROVE  VestInv'
  <1>. DEFINE s == [schedule[id] EXCEPT !.status = "paused", !.pausedAt = height]
  <1>1. schedule[id].status = "active" /\ Vest!Rewritten(id, s)
    BY DEF Vest!PauseVesting
  <1>2. ScheduleOK(schedule[id], id[3], height) /\ height \in 0 .. MaxHeight /\ height \in Nat
    BY VestParams DEF VestInv, SchedulesOK
  <1>3. /\ s \in Schedule /\ s.status = "paused" /\ s.pausedAt = height
        /\ s.released = schedule[id].released /\ s.total = schedule[id].total
        /\ s.totalPaused = schedule[id].totalPaused /\ s.age = schedule[id].age
    BY <1>2 DEF ScheduleOK, Schedule
  <1>. HIDE DEF s
  <1>4. ScheduleOK(s, id[3], height)
    BY <1>1, <1>2, <1>3 DEF ScheduleOK
  <1>. QED
    BY <1>1, <1>3, <1>4, RewrittenKeeps

LEMMA ResumeKeeps ==
    ASSUME VestAssumptions, VestInv, NEW id \in Vest!Ids, Vest!ResumeVesting(id)
    PROVE  VestInv'
  <1>. DEFINE s == [schedule[id] EXCEPT !.status = "active", !.pausedAt = 0,
                                        !.totalPaused = @ + (height - schedule[id].pausedAt)]
  <1>1. schedule[id].status = "paused" /\ Vest!Rewritten(id, s)
    BY DEF Vest!ResumeVesting
  <1>2. /\ ScheduleOK(schedule[id], id[3], height) /\ height \in 0 .. MaxHeight /\ height \in Nat
        /\ id[3] \in Nat /\ MaxHeight \in Nat
    BY VestParams, IdParts DEF VestInv, SchedulesOK
  <1>3. /\ schedule[id] \in Schedule /\ schedule[id].pausedAt \in 0 .. height
        /\ schedule[id].totalPaused \in Nat /\ schedule[id].age \in Nat
        /\ schedule[id].pausedAt - id[3] - schedule[id].totalPaused = schedule[id].age
    BY <1>1, <1>2 DEF ScheduleOK, Schedule
  <1>4. schedule[id].totalPaused + (height - schedule[id].pausedAt) \in 0 .. MaxHeight
    BY <1>2, <1>3
  <1>5. /\ s \in Schedule /\ s.status = "active"
        /\ s.totalPaused = schedule[id].totalPaused + (height - schedule[id].pausedAt)
        /\ s.released = schedule[id].released /\ s.total = schedule[id].total /\ s.age = schedule[id].age
    <2>. DEFINE q == schedule[id]
                t == q.totalPaused + (height - q.pausedAt)
    <2>1. q \in Schedule /\ t \in 0 .. MaxHeight /\ 0 \in 0 .. MaxHeight
      BY <1>2, <1>3, <1>4
    <2>2. s = [q EXCEPT !.status = "active", !.pausedAt = 0, !.totalPaused = t]
      BY <2>1 DEF Schedule
    <2>. HIDE DEF t, q
    <2>3. /\ s \in Schedule /\ s.status = "active" /\ s.totalPaused = t
          /\ s.released = q.released /\ s.total = q.total /\ s.age = q.age
      BY <2>1, <2>2 DEF Schedule
    <2>. QED
      BY <2>3 DEF t, q
  <1>. HIDE DEF s
  <1>6. ScheduleOK(s, id[3], height)
    BY <1>1, <1>2, <1>3, <1>5 DEF ScheduleOK
  <1>. QED
    BY <1>1, <1>5, <1>6, RewrittenKeeps

LEMMA CompleteKeeps ==
    ASSUME VestAssumptions, VestInv, NEW id \in Vest!Ids, Vest!CompleteVesting(id)
    PROVE  VestInv'
  <1>. DEFINE s == [schedule[id] EXCEPT !.status = "completed"]
  <1>1. schedule[id].status \in {"active", "paused"} /\ Vest!Rewritten(id, s)
    BY DEF Vest!CompleteVesting
  <1>2. ScheduleOK(schedule[id], id[3], height)
    BY DEF VestInv, SchedulesOK
  <1>3. s \in Schedule /\ s.status = "completed" /\ s.released = schedule[id].released /\ s.total = schedule[id].total
    BY <1>2 DEF ScheduleOK, Schedule
  <1>. HIDE DEF s
  <1>4. ScheduleOK(s, id[3], height)
    BY <1>1, <1>2, <1>3 DEF ScheduleOK
  <1>. QED
    BY <1>1, <1>3, <1>4, RewrittenKeeps

LEMMA AccelerateKeeps ==
    ASSUME VestAssumptions, VestInv, NEW id \in Vest!Ids, NEW e \in Evidence, Vest!AccelerateVesting(id, e)
    PROVE  VestInv'
  <1>. DEFINE s == [schedule[id] EXCEPT !.evidence[e] = @ + 1]
  <1>1. schedule[id].status # "none" /\ schedule[id].evidence[e] < MaxEvidence /\ Vest!Rewritten(id, s)
    BY DEF Vest!AccelerateVesting, Vest!Exists
  <1>2. ScheduleOK(schedule[id], id[3], height) /\ MaxEvidence \in Nat
    BY VestParams DEF VestInv, SchedulesOK
  <1>3. /\ s \in Schedule /\ s.status = schedule[id].status /\ s.pausedAt = schedule[id].pausedAt
        /\ s.released = schedule[id].released /\ s.total = schedule[id].total
        /\ s.totalPaused = schedule[id].totalPaused /\ s.age = schedule[id].age
    BY <1>1, <1>2 DEF ScheduleOK, Schedule
  <1>. HIDE DEF s
  <1>4. ScheduleOK(s, id[3], height)
    BY <1>1, <1>2, <1>3 DEF ScheduleOK
  <1>. QED
    BY <1>1, <1>3, <1>4, RewrittenKeeps

LEMMA DisproveKeeps ==
    ASSUME VestAssumptions, VestInv, NEW f \in Facts, Vest!Disprove(f)
    PROVE  VestInv'
  BY DEF Vest!Disprove, VestInv, SchedulesOK, IndexOK, ClawbacksOK, PaidOK

LEMMA NextBlockKeeps ==
    ASSUME VestAssumptions, VestInv, Vest!NextBlock
    PROVE  VestInv'
  <1>1. /\ height \in Nat /\ MaxHeight \in Nat /\ height' = height + 1 /\ height' \in 1 .. MaxHeight
        /\ UNCHANGED <<claimIndex, disproven, clawbacks, balance, vestPaid>>
    BY VestParams DEF Vest!NextBlock, VestInv
  <1>2. /\ DOMAIN schedule' = Vest!Ids
        /\ schedule' = [id \in Vest!Ids |-> schedule'[id]]
        /\ \A id \in Vest!Ids : schedule'[id] = IF schedule[id].status = "active"
                                                 THEN [schedule[id] EXCEPT !.age = @ + 1] ELSE schedule[id]
    BY DEF Vest!NextBlock
  <1>3. ASSUME NEW id \in Vest!Ids
        PROVE  /\ ScheduleOK(schedule'[id], id[3], height')
               /\ schedule'[id].status = schedule[id].status /\ schedule'[id].released = schedule[id].released
               /\ schedule'[id].total = schedule[id].total
    <2>1. ScheduleOK(schedule[id], id[3], height) /\ id[3] \in Nat \ {0}
      BY VestParams, IdParts DEF VestInv, SchedulesOK
    <2>2. CASE schedule[id].status = "active"
      <3>. DEFINE q == schedule[id]
                  s == [q EXCEPT !.age = q.age + 1]
      <3>1. q \in Schedule /\ q.status = "active" /\ id[3] <= height /\ height - id[3] - q.totalPaused = q.age
        BY <2>1, <2>2 DEF ScheduleOK
      <3>2. q.age \in Nat /\ q.totalPaused \in Nat /\ q.age + 1 \in 0 .. MaxHeight
        BY <1>1, <2>1, <3>1, VestParams DEF Schedule
      <3>3. schedule'[id] = s
        BY <1>2, <2>2
      <3>. HIDE DEF q
      <3>4. /\ s \in Schedule /\ s.status = "active" /\ s.age = q.age + 1 /\ s.released = q.released
            /\ s.total = q.total /\ s.totalPaused = q.totalPaused
        BY <3>1, <3>2 DEF Schedule
      <3>5. q.released <= Vest!MaxReleased(q.total)
        BY <2>1 DEF ScheduleOK, q
      <3>. HIDE DEF s
      <3>6. ScheduleOK(s, id[3], height')
        BY <1>1, <2>1, <3>1, <3>2, <3>4, <3>5 DEF ScheduleOK
      <3>. QED
        BY <3>3, <3>4, <3>6, <3>1 DEF q
    <2>3. CASE schedule[id].status # "active"
      <3>1. schedule'[id] = schedule[id]
        BY <1>2, <2>3
      <3>2. schedule[id].pausedAt \in Nat /\ schedule[id] \in Schedule
        BY <2>1, VestParams DEF ScheduleOK, Schedule
      <3>. DEFINE q == schedule[id]
      <3>. HIDE DEF q
      <3>3. ScheduleOK(q, id[3], height')
        BY <1>1, <2>1, <2>3, <3>2 DEF ScheduleOK, q
      <3>. QED
        BY <3>1, <3>3 DEF q
    <2>. QED
      BY <2>2, <2>3
  <1>4. SchedulesOK(schedule', height')
    BY <1>2, <1>3 DEF SchedulesOK
  <1>5. IndexOK(schedule', claimIndex')
    BY <1>1, <1>3 DEF VestInv, IndexOK
  <1>6. ClawbacksOK(schedule', clawbacks', disproven')
    BY <1>1, <1>3 DEF VestInv, ClawbacksOK, ClawbackOK
  <1>7. \A r \in Recipients : ReleasedTo(schedule', r) = ReleasedTo(schedule, r)
    BY <1>3 DEF ReleasedTo, IdsOf
  <1>8. PaidOK(schedule', vestPaid')
    BY <1>1, <1>7 DEF VestInv, PaidOK
  <1>. QED
    BY <1>1, <1>4, <1>5, <1>6, <1>8 DEF VestInv

\* The record of a clawback splits the schedule without loss.
LEMMA ClawbackSplits ==
    ASSUME VestAssumptions, VestInv, NEW id \in Vest!Ids
    PROVE  LET c == Vest!ClawbackOf(id)
           IN  /\ c.schedule = id /\ c.at = height /\ c.released \in Nat /\ c.reward \in Nat
               /\ c.reward + (schedule[id].released - c.released) = schedule[id].total
  <1>. DEFINE s == schedule[id]
              back == (s.released * ReleasedClawbackRate) \div 10000
              reserve == Vest!ReserveOf(s.total)
              rest == s.total - s.released - reserve
              unvested == Vest!Max({0, rest})
  <1>1. s \in Schedule /\ s.released <= Vest!MaxReleased(s.total)
    BY DEF VestInv, SchedulesOK, ScheduleOK
  <1>2. s.released \in Nat /\ s.total \in Nat
    BY <1>1, VestParams DEF Schedule
  <1>3. /\ Vest!MaxReleased(s.total) \in Nat /\ reserve \in Nat
        /\ Vest!MaxReleased(s.total) + reserve <= s.total
    <2>. DEFINE t == s.total
    <2>1. t \in Nat /\ MaxRelease \in 0 .. Vest!Whole /\ Vest!Whole \in Nat \ {0}
      BY <1>2, VestParams
    <2>. HIDE DEF t
    <2>2. Vest!MaxReleased(t) \in Nat /\ Vest!ReserveOf(t) \in Nat /\ Vest!MaxReleased(t) + Vest!ReserveOf(t) <= t
      BY <2>1, CapAndReserve DEF Vest!MaxReleased, Vest!ReserveOf
    <2>. QED
      BY <2>2 DEF t
  <1>4. back \in Nat
    <2>1. s.released * ReleasedClawbackRate \in Nat
      <3>1. \A a, b \in Nat : a * b \in Nat
        OBVIOUS
      <3>2. ReleasedClawbackRate \in Nat
        BY VestParams
      <3>. QED
        BY <1>2, <3>1, <3>2
    <2>. QED
      BY <2>1, SMT
  <1>5. Vest!ClawbackOf(id) = [schedule |-> id, at |-> height, released |-> back, unvested |-> unvested,
                          reserve |-> reserve, reward |-> back + unvested + reserve]
    BY DEF Vest!ClawbackOf
  <1>. HIDE DEF s, back, reserve
  <1>6. rest \in Nat
    BY <1>1, <1>2, <1>3
  <1>. HIDE DEF rest
  <1>7. rest \in Int /\ 0 \in Int /\ \A a, b \in Int : Vest!Max({a, b}) \in {a, b} /\ Vest!Max({a, b}) >= b
    BY <1>6, LeastGreatest
  <1>8. unvested \in {0, rest} /\ unvested >= rest
    BY <1>7, Zenon
  <1>. HIDE DEF unvested
  <1>9. unvested = rest
    BY <1>6, <1>8
  <1>10. back + unvested + reserve \in Nat /\ (back + unvested + reserve) + (s.released - back) = s.total
    BY <1>2, <1>3, <1>4, <1>6, <1>9 DEF rest
  <1>. QED
    BY <1>4, <1>5, <1>10 DEF s

LEMMA FalsifyKeeps ==
    ASSUME VestAssumptions, VestInv, NEW id \in Vest!Ids, Vest!FalsifyVesting(id)
    PROVE  VestInv'
  <1>. DEFINE t == claimIndex[id[1]]
              s == [schedule[t] EXCEPT !.status = "falsified"]
  <1>1. /\ schedule[id].status # "none" /\ schedule[t].status # "falsified" /\ Vest!LinkedFact(t) \in disproven
        /\ schedule' = [schedule EXCEPT ![t] = s] /\ Vest!Written(t)
        /\ clawbacks' = {c \in clawbacks : ~Vest!SameRecord(c, t)} \cup {Vest!ClawbackOf(t)}
        /\ UNCHANGED <<height, disproven, balance, vestPaid>>
    BY DEF Vest!FalsifyVesting, Vest!Exists, Vest!Adjudicated
  <1>2. t \in Vest!Ids
    BY <1>1 DEF VestInv, IndexOK
  <1>. HIDE DEF t
  <1>3. schedule[t].status # "none"
    BY <1>2, IdParts DEF VestInv, IndexOK, t
  <1>4. ScheduleOK(schedule[t], t[3], height)
    BY <1>2 DEF VestInv, SchedulesOK
  <1>5. s \in Schedule /\ s.status = "falsified" /\ s.released = schedule[t].released /\ s.total = schedule[t].total
    BY <1>4 DEF ScheduleOK, Schedule
  <1>. HIDE DEF s
  <1>6. ScheduleOK(s, t[3], height)
    BY <1>3, <1>4, <1>5 DEF ScheduleOK
  <1>7. Rewrites(t, s)
    BY <1>1, <1>5, <1>6 DEF Rewrites
  <1>8. SchedulesOK(schedule', height') /\ \A r \in Recipients : ReleasedTo(schedule', r) = ReleasedTo(schedule, r)
    BY <1>2, <1>7, RewriteKeeps
  <1>9. IndexOK(schedule', claimIndex')
    BY <1>1, <1>2, <1>3, <1>5, <1>7, IndexFollows
  <1>10. PaidOK(schedule', vestPaid')
    BY <1>1, <1>8 DEF VestInv, PaidOK
  <1>11. ClawbacksOK(schedule', clawbacks', disproven')
    <2>. DEFINE d == Vest!ClawbackOf(t)
    <2>1. \A jd \in Vest!Ids : schedule'[jd] = IF jd = t THEN s ELSE schedule[jd]
      BY <1>1 DEF VestInv, SchedulesOK
    <2>2. /\ d.schedule = t /\ d.released \in Nat /\ d.reward \in Nat
          /\ d.reward + (schedule[t].released - d.released) = schedule[t].total
      BY <1>2, ClawbackSplits
    <2>3. clawbacks' \subseteq clawbacks \cup {d}
      BY <1>1
    <2>. HIDE DEF d
    <2>4. \A c \in clawbacks : c.schedule \in Vest!Ids /\ c.schedule # t /\ ClawbackOK(c, schedule[c.schedule])
      BY <1>1 DEF VestInv, ClawbacksOK, ClawbackOK
    <2>5. \A c \in clawbacks' : c.schedule \in Vest!Ids /\ ClawbackOK(c, schedule'[c.schedule])
      BY <1>2, <1>5, <2>1, <2>2, <2>3, <2>4 DEF ClawbackOK
    <2>6. \A c, e \in clawbacks' : c.schedule = e.schedule => c = e
      BY <2>2, <2>3, <2>4 DEF VestInv, ClawbacksOK
    <2>7. \A jd \in Vest!Ids : schedule'[jd].status = "falsified" => Vest!LinkedFact(jd) \in disproven'
      BY <1>1, <2>1 DEF VestInv, ClawbacksOK
    <2>. QED
      BY <2>5, <2>6, <2>7 DEF ClawbacksOK
  <1>. QED
    BY <1>1, <1>8, <1>9, <1>10, <1>11 DEF VestInv

-----------------------------------------------------------------------------
(* Claims *)

\* A payment of a schedule keeps it in order.
LEMMA PaidOutOK ==
    ASSUME VestAssumptions, VestInv, NEW id \in Vest!Ids
    PROVE  /\ ScheduleOK(Vest!PaidOut(id), id[3], height)
           /\ Vest!PaidOut(id).released = schedule[id].released + Vest!Claimable(id)
           /\ Vest!PaidOut(id).total = schedule[id].total
           /\ Vest!PaidOut(id).status = "none" <=> schedule[id].status = "none"
           /\ Vest!PaidOut(id).status = "falsified" <=> schedule[id].status = "falsified"
           /\ schedule[id].status # "active" => Vest!PaidOut(id).released = schedule[id].released
  <1>. DEFINE q == schedule[id]
              n == Vest!Claimable(id)
              done == n > 0 /\ q.released + n >= Vest!MaxReleased(q.total)
              s == [q EXCEPT !.released = q.released + n, !.status = IF done THEN "completed" ELSE q.status]
  <1>1. ScheduleOK(q, id[3], height)
    BY DEF VestInv, SchedulesOK
  <1>2. n \in Nat /\ (q.status # "active" => n = 0) /\ q.released + n <= Vest!MaxReleased(q.total)
    BY ClaimCapped
  <1>3. Vest!PaidOut(id) = s
    BY <1>1 DEF Vest!PaidOut, ScheduleOK, Schedule
  <1>. HIDE DEF q, n
  <1>4. done => q.status = "active"
    BY <1>2
  <1>5. q.released \in Nat /\ q.released + n \in Nat
    BY <1>1, <1>2 DEF ScheduleOK, Schedule
  <1>. HIDE DEF done
  <1>6. /\ s \in Schedule /\ s.status = (IF done THEN "completed" ELSE q.status) /\ s.released = q.released + n
        /\ s.total = q.total /\ s.totalPaused = q.totalPaused /\ s.pausedAt = q.pausedAt /\ s.age = q.age
    BY <1>1, <1>5 DEF ScheduleOK, Schedule
  <1>. HIDE DEF s
  <1>7. ScheduleOK(s, id[3], height)
    BY <1>1, <1>2, <1>4, <1>5, <1>6 DEF ScheduleOK
  <1>8. q.status # "active" => s.released = q.released
    BY <1>2, <1>5, <1>6
  <1>. QED
    BY <1>3, <1>4, <1>6, <1>7, <1>8 DEF q, n

\* What is due is what the schedules will show beyond what they showed.
LEMMA DueRecorded ==
    ASSUME VestAssumptions, VestInv, NEW r \in Recipients, NEW S, S \subseteq IdsOf(r),
           \A id \in Vest!Ids : schedule'[id] = IF id \in S THEN Vest!PaidOut(id) ELSE schedule[id]
    PROVE  /\ Vest!Due(S) \in Nat
           /\ Total(ReleasedTo(schedule', r)) = Total(ReleasedTo(schedule, r)) + Vest!Due(S)
           /\ \A q \in Recipients \ {r} : ReleasedTo(schedule', q) = ReleasedTo(schedule, q)
  <1>. DEFINE T == IdsOf(r)
              f == ReleasedTo(schedule, r)
              g == [id \in T |-> IF id \in S THEN Vest!Claimable(id) ELSE 0]
              d == [id \in S |-> Vest!Claimable(id)]
  <1>1. T \subseteq Vest!Ids /\ IsFiniteSet(T) /\ IsFiniteSet(S)
    BY IdsFinite, FS_Subset DEF IdsOf
  <1>2. \A id \in Vest!Ids : Vest!Claimable(id) \in Nat /\ schedule[id].released \in Nat
    BY ClaimCapped DEF VestInv, SchedulesOK, ScheduleOK, Schedule
  <1>3. f \in [T -> Nat] /\ g \in [T -> Nat] /\ d \in [S -> Nat]
    BY <1>1, <1>2 DEF ReleasedTo
  <1>4. ReleasedTo(schedule', r) = [id \in T |-> f[id] + g[id]]
    BY <1>1, <1>2, PaidOutOK DEF ReleasedTo
  <1>5. \A id \in T : IF id \in S THEN d[id] = g[id] ELSE g[id] = 0
    OBVIOUS
  <1>6. Vest!Due(S) = Total(d)
    BY VestCounts DEF Vest!Due
  <1>7. \A q \in Recipients \ {r} : ReleasedTo(schedule', q) = ReleasedTo(schedule, q)
    BY DEF ReleasedTo, IdsOf
  <1>. HIDE DEF T, f, g, d
  <1>8. Total(d) = Total(g)
    BY <1>3, <1>5, TotalWithin DEF T
  <1>9. Total([id \in T |-> f[id] + g[id]]) = Total(f) + Total(g)
    BY <1>1, <1>3, TotalSum
  <1>10. Total(d) \in Nat
    BY <1>1, <1>3, TotalNat
  <1>. QED
    BY <1>4, <1>6, <1>7, <1>8, <1>9, <1>10 DEF f

LEMMA ClaimRewardsKeeps ==
    ASSUME VestAssumptions, VestInv, NEW r \in Recipients, NEW S, S \subseteq Vest!SchedulesOf(r), Vest!ClaimRewards(r, S)
    PROVE  VestInv'
  <1>1. S \subseteq IdsOf(r) /\ S \subseteq Vest!Ids
    BY DEF Vest!SchedulesOf, IdsOf
  <1>2. /\ DOMAIN schedule' = Vest!Ids
        /\ schedule' = [id \in Vest!Ids |-> schedule'[id]]
        /\ \A id \in Vest!Ids : schedule'[id] = IF id \in S THEN Vest!PaidOut(id) ELSE schedule[id]
    BY DEF Vest!ClaimRewards
  <1>3. ASSUME NEW id \in Vest!Ids
        PROVE  /\ ScheduleOK(schedule'[id], id[3], height)
               /\ schedule'[id].total = schedule[id].total
               /\ schedule'[id].status = "none" <=> schedule[id].status = "none"
               /\ schedule'[id].status = "falsified" <=> schedule[id].status = "falsified"
               /\ schedule[id].status # "active" => schedule'[id].released = schedule[id].released
    BY <1>2, PaidOutOK DEF VestInv, SchedulesOK
  <1>4. SchedulesOK(schedule', height')
    BY <1>2, <1>3 DEF SchedulesOK, Vest!ClaimRewards
  <1>5. IndexOK(schedule', claimIndex')
    <2>1. claimIndex' \in [Vest!Keys -> Vest!Ids \cup {Vest!None}]
      BY DEF Vest!ClaimRewards
    <2>2. ASSUME NEW k \in Vest!Keys
          PROVE  \/ claimIndex'[k] = claimIndex[k]
                 \/ claimIndex'[k] \in Vest!Ids /\ claimIndex'[k][1] = k /\ schedule[claimIndex'[k]].status = "active"
      BY <1>1 DEF Vest!ClaimRewards
    <2>3. \A id \in Vest!Ids : schedule'[id].status # "none" => claimIndex'[id[1]] \in Vest!Ids
      BY <1>3, <2>2, IdParts DEF VestInv, IndexOK
    <2>4. \A k \in Vest!Keys : claimIndex'[k] \in Vest!Ids => claimIndex'[k][1] = k /\ schedule'[claimIndex'[k]].status # "none"
      BY <1>3, <2>2 DEF VestInv, IndexOK
    <2>5. \A id, jd \in Vest!Ids : schedule'[id].status # "none" /\ schedule'[jd].status # "none" /\ id[1] = jd[1] /\ id[1] \in Claims
                              => id = jd
      BY <1>3 DEF VestInv, IndexOK
    <2>. QED
      BY <2>1, <2>3, <2>4, <2>5 DEF IndexOK
  <1>6. ClawbacksOK(schedule', clawbacks', disproven')
    <2>1. clawbacks' = clawbacks /\ disproven' = disproven
      BY DEF Vest!ClaimRewards
    <2>2. \A c \in clawbacks : ClawbackOK(c, schedule'[c.schedule])
      BY <1>3 DEF VestInv, ClawbacksOK, ClawbackOK
    <2>. QED
      BY <1>3, <2>1, <2>2 DEF VestInv, ClawbacksOK
  <1>7. /\ Vest!Due(S) \in Nat
        /\ Total(ReleasedTo(schedule', r)) = Total(ReleasedTo(schedule, r)) + Vest!Due(S)
        /\ \A q \in Recipients \ {r} : ReleasedTo(schedule', q) = ReleasedTo(schedule, q)
    BY <1>1, <1>2, DueRecorded
  <1>8. PaidOK(schedule', vestPaid')
    <2>1. vestPaid \in [Recipients -> Nat] /\ \A q \in Recipients : vestPaid[q] = Total(ReleasedTo(schedule, q))
      BY DEF VestInv, PaidOK
    <2>2. vestPaid' = [vestPaid EXCEPT ![r] = vestPaid[r] + Vest!Due(S)]
      BY <2>1 DEF Vest!ClaimRewards
    <2>3. vestPaid' \in [Recipients -> Nat]
      BY <1>7, <2>1, <2>2
    <2>4. ASSUME NEW q \in Recipients
          PROVE  vestPaid'[q] = Total(ReleasedTo(schedule', q))
      <3>1. CASE q = r
        BY <1>7, <2>1, <2>2, <3>1
      <3>2. CASE q # r
        BY <1>7, <2>1, <2>2, <3>2
      <3>. QED
        BY <3>1, <3>2
    <2>. QED
      BY <2>3, <2>4 DEF PaidOK
  <1>9. height' \in 1 .. MaxHeight /\ balance' \in Nat /\ disproven' \subseteq Facts
    BY <1>7 DEF VestInv, Vest!ClaimRewards
  <1>. QED
    BY <1>4, <1>5, <1>6, <1>8, <1>9 DEF VestInv

LEMMA ClaimVestingKeeps ==
    ASSUME VestAssumptions, VestInv, NEW r \in Recipients, Vest!ClaimVesting(r)
    PROVE  VestInv'
  <1>1. CASE \E id \in Vest!SchedulesOf(r) : Vest!ClaimRewards(r, {id})
    <2>1. PICK id \in Vest!SchedulesOf(r) : Vest!ClaimRewards(r, {id})
      BY <1>1
    <2>2. {id} \subseteq Vest!SchedulesOf(r)
      OBVIOUS
    <2>. QED
      BY <2>1, <2>2, ClaimRewardsKeeps
  <1>2. CASE Vest!ClaimRewards(r, Vest!SchedulesOf(r))
    BY <1>2, ClaimRewardsKeeps
  <1>. QED
    BY <1>1, <1>2 DEF Vest!ClaimVesting

-----------------------------------------------------------------------------
(* The specification *)

LEMMA VestingStarts ==
    ASSUME VestAssumptions, Vest!Init
    PROVE  VestInv
  <1>1. Vest!NoSchedule \in Schedule /\ Vest!NoSchedule.status = "none" /\ Vest!NoSchedule.released = 0 /\ Vest!NoSchedule.total = 0
    <2>1. 0 \in 0 .. MaxHeight /\ 0 \in 0 .. MaxEvidence
      BY VestParams
    <2>2. [e \in Evidence |-> 0] \in [Evidence -> 0 .. MaxEvidence]
      BY <2>1
    <2>. QED
      BY <2>1, <2>2 DEF Vest!NoSchedule, Schedule
  <1>2. Vest!MaxReleased(0) \in Nat
    BY VestParams, CapAndReserve DEF Vest!MaxReleased
  <1>3. schedule = [id \in Vest!Ids |-> schedule[id]] /\ DOMAIN schedule = Vest!Ids /\ \A id \in Vest!Ids : schedule[id] = Vest!NoSchedule
    BY DEF Vest!Init
  <1>4. SchedulesOK(schedule, height)
    BY <1>1, <1>2, <1>3 DEF SchedulesOK, ScheduleOK
  <1>5. IndexOK(schedule, claimIndex)
    BY <1>1, <1>3, IdParts DEF IndexOK, Vest!Init
  <1>6. ClawbacksOK(schedule, clawbacks, disproven)
    BY <1>1, <1>3 DEF ClawbacksOK, Vest!Init
  <1>7. PaidOK(schedule, vestPaid)
    <2>1. vestPaid \in [Recipients -> Nat] /\ \A r \in Recipients : vestPaid[r] = 0
      BY DEF Vest!Init
    <2>2. ASSUME NEW r \in Recipients
          PROVE  Total(ReleasedTo(schedule, r)) = 0
      <3>1. /\ ReleasedTo(schedule, r) \in [IdsOf(r) -> Nat]
            /\ \A id \in IdsOf(r) : ReleasedTo(schedule, r)[id] = 0
        BY <1>1, <1>3 DEF ReleasedTo, IdsOf
      <3>. QED
        BY <3>1, TotalZero
    <2>. QED
      BY <2>1, <2>2 DEF PaidOK
  <1>8. height \in 1 .. MaxHeight /\ balance \in Nat /\ disproven \subseteq Facts
    BY VestParams DEF Vest!Init
  <1>. QED
    BY <1>4, <1>5, <1>6, <1>7, <1>8 DEF VestInv

LEMMA VestingKept ==
    ASSUME VestAssumptions, VestInv, [Vest!Next]_(Vest!vars)
    PROVE  VestInv'
  <1>1. ASSUME NEW r \in Recipients, NEW total \in Totals, NEW f \in Facts, Vest!CreateVesting(f, r, total)
        PROVE  VestInv'
    BY <1>1, CreateVestingKeeps
  <1>2. ASSUME NEW r \in Recipients, NEW total \in Totals, NEW c \in Claims, Vest!CreateVestingScheduleFromKnowledge(c, r, total)
        PROVE  VestInv'
    BY <1>2, CreateFromKnowledgeKeeps
  <1>3. ASSUME NEW r \in Recipients, Vest!ClaimVesting(r)
        PROVE  VestInv'
    BY <1>3, ClaimVestingKeeps
  <1>4. ASSUME NEW id \in Vest!Ids, Vest!PauseVesting(id) \/ Vest!ResumeVesting(id) \/ Vest!CompleteVesting(id) \/ Vest!FalsifyVesting(id)
        PROVE  VestInv'
    BY <1>4, PauseKeeps, ResumeKeeps, CompleteKeeps, FalsifyKeeps
  <1>5. ASSUME NEW id \in Vest!Ids, NEW e \in Evidence, Vest!AccelerateVesting(id, e)
        PROVE  VestInv'
    BY <1>5, AccelerateKeeps
  <1>6. ASSUME NEW f \in Facts, Vest!Disprove(f)
        PROVE  VestInv'
    BY <1>6, DisproveKeeps
  <1>7. CASE Vest!NextBlock
    BY <1>7, NextBlockKeeps
  <1>8. CASE UNCHANGED Vest!vars
    BY <1>8 DEF Vest!vars, VestInv, SchedulesOK, IndexOK, ClawbacksOK, PaidOK
  <1>. QED
    BY <1>1, <1>2, <1>3, <1>4, <1>5, <1>6, <1>7, <1>8 DEF Vest!Next

\* What the invariant says in the words of the properties.
LEMMA VestingMeans ==
    ASSUME VestAssumptions, VestInv
    PROVE  /\ Vest!TypeOK /\ Vest!WithinCap /\ Vest!PaidIsReleased /\ Vest!PausedTimeExcluded
           /\ Vest!ClawbackConserves /\ Vest!FalsifiedIsDisproven /\ Vest!OneSchedulePerClaim
  <1>1. \A id \in Vest!Ids : ScheduleOK(schedule[id], id[3], height)
    BY DEF VestInv, SchedulesOK
  <1>2. Vest!TypeOK
    <2>1. schedule \in [Vest!Ids -> Schedule]
      BY <1>1 DEF VestInv, SchedulesOK, ScheduleOK
    <2>. QED
      BY <2>1 DEF Vest!TypeOK, Schedule, VestInv, IndexOK, PaidOK
  <1>3. Vest!WithinCap
    <2>. SUFFICES ASSUME NEW id \in Vest!Ids
                  PROVE  /\ schedule[id].released <= Vest!MaxReleased(schedule[id].total)
                         /\ schedule[id].released + Vest!ReserveOf(schedule[id].total) <= schedule[id].total
      BY DEF Vest!WithinCap
    <2>. DEFINE t == schedule[id].total
                n == schedule[id].released
    <2>1. t \in Nat /\ n \in Nat /\ n <= Vest!MaxReleased(t)
      BY <1>1, VestParams DEF ScheduleOK, Schedule
    <2>. HIDE DEF t, n
    <2>2. Vest!MaxReleased(t) \in Nat /\ Vest!ReserveOf(t) \in Nat /\ Vest!MaxReleased(t) + Vest!ReserveOf(t) <= t
      BY <2>1, VestParams, CapAndReserve DEF Vest!MaxReleased, Vest!ReserveOf
    <2>3. n <= Vest!MaxReleased(t) /\ n + Vest!ReserveOf(t) <= t
      BY <2>1, <2>2
    <2>. QED
      BY <2>3 DEF t, n
  <1>4. Vest!PaidIsReleased
    <2>. SUFFICES ASSUME NEW r \in Recipients
                  PROVE  vestPaid[r] = Total([id \in Vest!SchedulesOf(r) |-> schedule[id].released])
      BY VestCounts DEF Vest!PaidIsReleased
    <2>. DEFINE f == ReleasedTo(schedule, r)
                g == [id \in Vest!SchedulesOf(r) |-> schedule[id].released]
    <2>1. \A id \in Vest!Ids : schedule[id].released \in Nat /\ (schedule[id].status = "none" => schedule[id].released = 0)
      BY <1>1 DEF ScheduleOK, Schedule
    <2>2. /\ Vest!SchedulesOf(r) \subseteq IdsOf(r)
          /\ f \in [IdsOf(r) -> Nat] /\ g \in [Vest!SchedulesOf(r) -> Nat]
          /\ \A id \in IdsOf(r) : IF id \in Vest!SchedulesOf(r) THEN g[id] = f[id] ELSE f[id] = 0
      BY <2>1 DEF Vest!SchedulesOf, IdsOf, ReleasedTo, Vest!Exists
    <2>. HIDE DEF f, g
    <2>3. Total(g) = Total(f)
      BY <2>2, TotalWithin
    <2>. QED
      BY <2>3 DEF VestInv, PaidOK, f, g
  <1>5. Vest!PausedTimeExcluded
    <2>. SUFFICES ASSUME NEW id \in Vest!Ids, schedule[id].status \in {"active", "paused"}
                  PROVE  Vest!Elapsed(id) = schedule[id].age
      BY DEF Vest!PausedTimeExcluded
    <2>1. /\ ScheduleOK(schedule[id], id[3], height) /\ height \in Nat /\ id[3] \in Nat
          /\ schedule[id].totalPaused \in Nat /\ schedule[id].pausedAt \in Nat /\ schedule[id].age \in Nat
      BY <1>1, IdParts, VestParams DEF VestInv, ScheduleOK, Schedule
    <2>. QED
      BY <2>1 DEF Vest!Elapsed, Vest!AcceptedAt, ScheduleOK
  <1>6. Vest!ClawbackConserves
    BY DEF Vest!ClawbackConserves, VestInv, ClawbacksOK, ClawbackOK
  <1>7. Vest!FalsifiedIsDisproven
    <2>. SUFFICES ASSUME NEW id \in Vest!Ids, schedule[id].status = "falsified"
                  PROVE  Vest!LinkedFact(id) \in disproven /\ Cardinality({c \in clawbacks : c.schedule = id}) <= 1
      BY VestCounts DEF Vest!FalsifiedIsDisproven
    <2>1. \A c, d \in {c \in clawbacks : c.schedule = id} : c = d
      BY DEF VestInv, ClawbacksOK
    <2>2. Cardinality({c \in clawbacks : c.schedule = id}) <= 1
      BY <2>1, NoTwoMembers
    <2>. QED
      BY <2>2 DEF VestInv, ClawbacksOK
  <1>8. Vest!OneSchedulePerClaim
    <2>1. ASSUME NEW id \in Vest!Ids, Vest!Exists(id)
          PROVE  claimIndex[id[1]] # Vest!None /\ claimIndex[id[1]][1] = id[1]
      BY <2>1, IdParts DEF VestInv, IndexOK, Vest!Exists
    <2>2. ASSUME NEW c \in Claims
          PROVE  Cardinality({id \in Vest!Ids : Vest!Exists(id) /\ id[1] = c}) <= 1
      <3>1. \A id, jd \in {id \in Vest!Ids : Vest!Exists(id) /\ id[1] = c} : id = jd
        BY DEF VestInv, IndexOK, Vest!Exists
      <3>. QED
        BY <3>1, NoTwoMembers
    <2>. QED
      BY <2>1, <2>2, VestCounts DEF Vest!OneSchedulePerClaim
  <1>. QED
    BY <1>2, <1>3, <1>4, <1>5, <1>6, <1>7, <1>8

\* What has ended stays as it is.
LEMMA EndedKept ==
    ASSUME VestAssumptions, VestInv, [Vest!Next]_(Vest!vars)
    PROVE  Vest!EndedStaysEnded
  <1>. SUFFICES ASSUME NEW id \in Vest!Ids
                PROVE  /\ schedule[id].status = "falsified" => schedule'[id].status = "falsified"
                       /\ schedule[id].status \in {"falsified", "completed"} => schedule'[id].released = schedule[id].released
    BY DEF Vest!EndedStaysEnded
  <1>. DEFINE Same(s) == /\ schedule[id].status = "falsified" => s.status = "falsified"
                         /\ schedule[id].status \in {"falsified", "completed"} => s.released = schedule[id].released
  <1>1. DOMAIN schedule = Vest!Ids /\ schedule[id] \in Schedule
    BY DEF VestInv, SchedulesOK, ScheduleOK
  <1>2. ASSUME NEW r \in Recipients, NEW total \in Totals, NEW k \in Vest!Keys, Vest!Created(<<k, r, height>>, total)
        PROVE  Same(schedule'[id])
    BY <1>1, <1>2 DEF Vest!Created, Vest!Exists
  <1>3. ASSUME NEW r \in Recipients, NEW S, Vest!ClaimRewards(r, S)
        PROVE  Same(schedule'[id])
    <2>1. schedule'[id] = IF id \in S THEN Vest!PaidOut(id) ELSE schedule[id]
      BY <1>3 DEF Vest!ClaimRewards
    <2>. QED
      BY <2>1, PaidOutOK
  <1>4. ASSUME NEW jd \in Vest!Ids, Vest!PauseVesting(jd) \/ Vest!ResumeVesting(jd) \/ Vest!CompleteVesting(jd)
        PROVE  Same(schedule'[id])
    BY <1>1, <1>4 DEF Vest!PauseVesting, Vest!ResumeVesting, Vest!CompleteVesting, Vest!Rewritten
  <1>5. ASSUME NEW jd \in Vest!Ids, Vest!FalsifyVesting(jd)
        PROVE  Same(schedule'[id])
    BY <1>1, <1>5 DEF Vest!FalsifyVesting, Schedule
  <1>6. ASSUME NEW jd \in Vest!Ids, NEW e \in Evidence, Vest!AccelerateVesting(jd, e)
        PROVE  Same(schedule'[id])
    BY <1>1, <1>6 DEF Vest!AccelerateVesting, Vest!Rewritten, Schedule
  <1>7. CASE Vest!NextBlock
    BY <1>1, <1>7 DEF Vest!NextBlock
  <1>8. CASE UNCHANGED Vest!vars \/ \E f \in Facts : Vest!Disprove(f)
    BY <1>8 DEF Vest!vars, Vest!Disprove
  <1>9. ASSUME NEW r \in Recipients, NEW total \in Totals, NEW f \in Facts, Vest!CreateVesting(f, r, total)
        PROVE  Same(schedule'[id])
    BY <1>2, <1>9 DEF Vest!CreateVesting, Vest!Keys
  <1>10. ASSUME NEW r \in Recipients, NEW total \in Totals, NEW c \in Claims, Vest!CreateVestingScheduleFromKnowledge(c, r, total)
         PROVE  Same(schedule'[id])
    BY <1>2, <1>10 DEF Vest!CreateVestingScheduleFromKnowledge, Vest!Keys
  <1>11. ASSUME NEW r \in Recipients, Vest!ClaimVesting(r)
         PROVE  Same(schedule'[id])
    BY <1>3, <1>11 DEF Vest!ClaimVesting
  <1>. QED
    BY <1>4, <1>5, <1>6, <1>7, <1>8, <1>9, <1>10, <1>11 DEF Vest!Next

\* Vesting keeps its books: what a schedule shows as released is what its
\* recipient was sent and stays within the cap, paused time earns nothing, a
\* clawback splits a schedule without loss and happens for a DISPROVEN fact only
\* and once, a claim of knowledge has one schedule, and what has ended stays ended.
THEOREM SchedulesPayTheirShare ==
    ASSUME VestAssumptions
    PROVE  Vest!Spec => /\ [](/\ Vest!TypeOK /\ Vest!WithinCap /\ Vest!PaidIsReleased /\ Vest!PausedTimeExcluded
                              /\ Vest!ClawbackConserves /\ Vest!FalsifiedIsDisproven /\ Vest!OneSchedulePerClaim)
                        /\ [][Vest!EndedStaysEnded]_(Vest!vars)
  <1>1. Vest!Init => VestInv
    BY VestingStarts
  <1>2. VestInv /\ [Vest!Next]_(Vest!vars) => VestInv'
    BY VestingKept
  <1>3. VestInv /\ [Vest!Next]_(Vest!vars) => [Vest!EndedStaysEnded]_(Vest!vars)
    BY EndedKept
  <1>4. VestInv => /\ Vest!TypeOK /\ Vest!WithinCap /\ Vest!PaidIsReleased /\ Vest!PausedTimeExcluded
                   /\ Vest!ClawbackConserves /\ Vest!FalsifiedIsDisproven /\ Vest!OneSchedulePerClaim
    BY VestingMeans
  <1>. QED
    BY <1>1, <1>2, <1>3, <1>4, PTL DEF Vest!Spec

-----------------------------------------------------------------------------
(* Claiming pots: the inductive invariant *)

PotAssumptions == MaxSupplyAssumption /\ Claiming!UnitAssumption /\ Claiming!InputAssumption

PotRecord == [status : {"NONE", "ACTIVE", "DEPLETED", "EXPIRED"}, total : Nat, claimed : Nat,
              start : Nat, end : Nat, cliff : Nat, whitelist : SUBSET Agents]

\* A pot record q and the claims c of the agents on it.
PotBookOK(q, c) ==
    /\ q.claimed <= q.total /\ Total(c) = q.claimed
    /\ q.status = "NONE" => q = Claiming!NoPot
    /\ q.status # "NONE" => q.end > q.start

\* The seed pot q of agent a, claimed as c, at height h.
SeedOK(q, c, a, h) ==
    /\ q.total = PerUnit /\ q.end = q.start + 1 /\ q.cliff = 0 /\ q.whitelist = {a} /\ q.start <= h
    /\ q.status \in {"ACTIVE", "DEPLETED"} /\ (q.status = "DEPLETED" => q.claimed >= q.total)
    /\ \A b \in Agents \ {a} : c[b] = 0

Units(P) == [p \in Claiming!Pots |-> Claiming!PotCommitmentUnits(P[p].total)]
AdmittedIn(w) == {a \in registered : pot[a].start \div WindowBlocks = w}

PotBooksOK == \A p \in Claiming!Pots : PotBookOK(pot[p], claims[p])
SeedsOK == \A a \in Agents : pot[a].status # "NONE" => SeedOK(pot[a], claims[a], a, height)
ChargedOK == /\ Total(Units(pot)) <= committed
             /\ committed * PerUnit <= params.emissionCap
             /\ \A n \in Claiming!Generals : pot[n].status # "NONE" => n <= counter
WindowOK == /\ \A a \in registered : pot[a].status # "NONE" /\ pot[a].start \div WindowBlocks <= window.index
            /\ Cardinality(AdmittedIn(window.index)) = window.count
            /\ window.index <= height \div WindowBlocks
            /\ Claiming!WindowCount(height \div WindowBlocks) <= params.dailyCap

PotsInv == Claiming!TypeOK /\ PotBooksOK /\ SeedsOK /\ (version = 2 => ChargedOK) /\ WindowOK

-----------------------------------------------------------------------------
(* Constants, quotients and sets *)

LEMMA PotParameters ==
    ASSUME PotAssumptions
    PROVE  /\ PerUnit \in Nat \ {0} /\ WindowBlocks \in Nat \ {0} /\ MaxPots \in Nat /\ OtherMint \in Nat /\ MaxSupply \in Nat
           /\ IsFiniteSet(Agents) /\ IsFiniteSet(Claiming!Pots)
           /\ Agents \subseteq Claiming!Pots /\ Claiming!Generals \subseteq Claiming!Pots
           /\ Agents \cap Claiming!Generals = {} /\ Claiming!Generals \subseteq Nat \ {0}
           /\ \A s \in Shapes : /\ s \in PotRecord /\ s.claimed = 0
                                /\ s = [status |-> "NONE", total |-> s.total, claimed |-> 0, start |-> s.start,
                                        end |-> s.end, cliff |-> s.cliff, whitelist |-> s.whitelist]
           /\ \A q \in ParamChoices : q.emissionCap \in Nat /\ q.dailyCap \in Nat /\ q.minClaim \in Nat
  <1>1. IsFiniteSet(Claiming!Generals) /\ IsFiniteSet(Agents)
    BY FS_Interval, ClaimingCounts DEF PotAssumptions, Claiming!InputAssumption, Claiming!Generals
  <1>2. IsFiniteSet(Claiming!Pots)
    BY <1>1, FS_Union DEF Claiming!Pots
  <1>3. \A s \in Shapes : /\ s \in PotRecord /\ s.claimed = 0
                          /\ s = [status |-> "NONE", total |-> s.total, claimed |-> 0, start |-> s.start,
                                  end |-> s.end, cliff |-> s.cliff, whitelist |-> s.whitelist]
    BY DEF PotAssumptions, Claiming!InputAssumption, PotRecord
  <1>4. \A q \in ParamChoices : q.emissionCap \in Nat /\ q.dailyCap \in Nat /\ q.minClaim \in Nat
    BY DEF PotAssumptions, Claiming!InputAssumption
  <1>5. Claiming!Generals \subseteq Nat \ {0}
    BY DEF PotAssumptions, Claiming!InputAssumption, Claiming!Generals
  <1>. QED
    BY <1>1, <1>2, <1>3, <1>4, <1>5
       DEF PotAssumptions, Claiming!InputAssumption, Claiming!UnitAssumption, MaxSupplyAssumption, Claiming!Pots, Claiming!Generals

\* Charging a total covers it; nothing costs nothing and a seed one unit.
LEMMA UnitsCover ==
    ASSUME PotAssumptions
    PROVE  /\ \A t \in Nat : Claiming!PotCommitmentUnits(t) \in Nat /\ t <= PerUnit * Claiming!PotCommitmentUnits(t)
           /\ Claiming!PotCommitmentUnits(0) = 0
           /\ Claiming!PotCommitmentUnits(PerUnit) = 1
  <1>. DEFINE u == PerUnit
  <1>1. u \in Nat \ {0}
    BY PotParameters
  <1>. HIDE DEF u
  <1>2. ASSUME NEW n \in Nat
        PROVE  n \div u \in Nat /\ u * (n \div u) <= n /\ n < u * (n \div u) + u
    BY <1>1
  <1>3. ASSUME NEW t \in Nat
        PROVE  Claiming!PotCommitmentUnits(t) \in Nat /\ t <= u * Claiming!PotCommitmentUnits(t)
    <2>. DEFINE q == (t + u - 1) \div u
                z == u * q
    <2>1. t + u - 1 \in Nat
      BY <1>1
    <2>2. q \in Nat /\ z \in Nat /\ t + u - 1 < z + u
      BY <1>1, <1>2, <2>1
    <2>. HIDE DEF q, z
    <2>3. t <= z
      BY <1>1, <2>2
    <2>. QED
      BY <2>2, <2>3 DEF Claiming!PotCommitmentUnits, q, z, u
  <1>4. ASSUME NEW n \in {0, 1}, NEW m \in 0 .. (u - 1)
        PROVE  (n * u + m) \div u = n
    <2>. DEFINE k == n * u + m
                q == k \div u
                z == u * q
    <2>1. k \in Nat /\ q \in Nat /\ z \in Nat /\ z <= k /\ k < z + u
      BY <1>1, <1>2
    <2>2. ASSUME q > n PROVE FALSE
      <3>1. q - n - 1 \in Nat /\ u * (q - n - 1) = z - u * n - u /\ u * n = n * u /\ u * n \in Nat
        BY <1>1, <2>1, <2>2
      <3>2. u * (q - n - 1) \in Nat
        BY <1>1, <3>1
      <3>. HIDE DEF z, q
      <3>3. z >= u * n + u
        BY <1>1, <2>1, <3>1, <3>2
      <3>. QED
        BY <1>1, <2>1, <3>1, <3>3
    <2>3. ASSUME q < n PROVE FALSE
      <3>1. q = 0 /\ n = 1
        BY <2>1, <2>3
      <3>. QED
        BY <1>1, <2>1, <3>1
    <2>. HIDE DEF q
    <2>4. q = n
      BY <2>1, <2>2, <2>3
    <2>. QED
      BY <2>4 DEF q
  <1>5. Claiming!PotCommitmentUnits(0) = 0
    <2>1. u - 1 \in 0 .. (u - 1) /\ 0 * u + (u - 1) = 0 + u - 1
      BY <1>1
    <2>. QED
      BY <1>4, <2>1 DEF Claiming!PotCommitmentUnits, u
  <1>6. Claiming!PotCommitmentUnits(PerUnit) = 1
    <2>1. u - 1 \in 0 .. (u - 1) /\ 1 * u + (u - 1) = u + u - 1
      BY <1>1
    <2>. QED
      BY <1>4, <2>1 DEF Claiming!PotCommitmentUnits, u
  <1>. QED
    BY <1>3, <1>5, <1>6 DEF u

\* Windows follow one another.
LEMMA WindowsFollow ==
    ASSUME NEW w \in Nat \ {0}, NEW a \in Nat, NEW b \in Nat, a <= b
    PROVE  a \div w \in Nat /\ a \div w <= b \div w
  <1>1. a \div w \in Nat /\ w * (a \div w) <= a
    BY QuotientBound
  <1>. DEFINE q == a \div w
  <1>. HIDE DEF q
  <1>2. w * q \in Nat /\ w * q <= b
    BY <1>1 DEF q
  <1>. QED
    BY <1>1, <1>2, QuotientBound DEF q

\* The vested share of a total stays under it.
LEMMA ShareUnder ==
    ASSUME NEW t \in Nat, NEW d \in Nat \ {0}, NEW x \in Nat, x <= d
    PROVE  (t * x) \div d \in Nat /\ (t * x) \div d <= t
  <1>. DEFINE y == t * x
              q == y \div d
  <1>1. y \in Nat /\ y <= t * d
    <2>1. t * (d - x) \in Nat /\ t * (d - x) = t * d - t * x /\ t * d \in Nat /\ t * x \in Nat
      OBVIOUS
    <2>. QED
      BY <2>1
  <1>2. q \in Nat /\ d * q <= y
    <2>. HIDE DEF y
    <2>. QED
      BY <1>1, QuotientBound
  <1>. HIDE DEF y, q
  <1>3. q <= t
    <2>. SUFFICES ASSUME q > t PROVE FALSE
      BY <1>2
    <2>1. q - t \in Nat \ {0} /\ d * (q - t) = d * q - d * t /\ d * t = t * d /\ d * t \in Nat /\ d * q \in Nat
      BY <1>2
    <2>2. d * (q - t) >= d
      BY <2>1
    <2>. QED
      BY <1>1, <1>2, <2>1, <2>2
  <1>. QED
    BY <1>2, <1>3 DEF q, y

\* What a pot still owes, and what of it is minted, fits into its total.
LEMMA ClaimFits ==
    ASSUME PotAssumptions, PotsInv, NEW p \in Claiming!Pots, pot[p].status # "NONE"
    PROVE  /\ Claiming!CalculateClaimable(p) \in Nat
           /\ pot[p].claimed + Claiming!CalculateClaimable(p) <= pot[p].total
           /\ Claiming!MintWithCap(potSupply, Claiming!CalculateClaimable(p)) \in Nat
           /\ Claiming!MintWithCap(potSupply, Claiming!CalculateClaimable(p)) <= Claiming!CalculateClaimable(p)
  <1>. DEFINE q == pot[p]
              vested == IF height >= q.end THEN q.total ELSE (q.total * (height - q.start)) \div (q.end - q.start)
              due == Claiming!CalculateClaimable(p)
  <1>1. /\ q.total \in Nat /\ q.claimed \in Nat /\ q.start \in Nat /\ q.end \in Nat /\ q.cliff \in Nat
        /\ q.end > q.start /\ q.claimed <= q.total /\ height \in Nat /\ potSupply \in Nat
    BY DEF PotsInv, Claiming!TypeOK, PotBooksOK, PotBookOK
  <1>2. due = IF height < q.start + q.cliff \/ vested < q.claimed THEN 0 ELSE vested - q.claimed
    BY DEF Claiming!CalculateClaimable
  <1>3. ASSUME ~(height < q.start + q.cliff)
        PROVE  vested \in Nat /\ vested <= q.total
    <2>1. CASE height >= q.end
      BY <1>1, <2>1
    <2>2. CASE ~(height >= q.end)
      <3>. DEFINE t == q.total
                  x == height - q.start
                  d == q.end - q.start
      <3>1. t \in Nat /\ x \in Nat /\ d \in Nat \ {0} /\ x <= d
        BY <1>1, <1>3, <2>2
      <3>2. vested = (t * x) \div d
        BY <2>2
      <3>. HIDE DEF t, x, d, vested
      <3>3. vested \in Nat /\ vested <= t
        BY <3>1, <3>2, ShareUnder
      <3>. QED
        BY <3>3 DEF t
    <2>. QED
      BY <2>1, <2>2
  <1>. HIDE DEF vested, due
  <1>4. due \in Nat /\ q.claimed + due <= q.total
    BY <1>1, <1>2, <1>3
  <1>5. MaxSupply \in Nat
    BY PotParameters
  <1>6. Claiming!MintWithCap(potSupply, due) \in Nat /\ Claiming!MintWithCap(potSupply, due) <= due
    BY <1>1, <1>4, <1>5 DEF Claiming!MintWithCap
  <1>. QED
    BY <1>4, <1>6 DEF due

\* The greatest number of a bounded set.
LEMMA MaxOf ==
    ASSUME NEW b \in Nat, NEW T \in SUBSET (0 .. b), T # {}
    PROVE  Claiming!Max(T) \in T /\ \A y \in T : y <= Claiming!Max(T)
  <1>1. \E x \in T : \A y \in T : x >= y
    BY GreatestNumber
  <1>. QED
    BY <1>1 DEF Claiming!Max

\* Of two numbers.
LEMMA MaxOfTwo ==
    ASSUME NEW a \in Nat, NEW b \in Nat
    PROVE  Claiming!Max({a, b}) \in Nat /\ a <= Claiming!Max({a, b}) /\ b <= Claiming!Max({a, b})
  <1>1. \E x \in {a, b} : \A y \in {a, b} : x >= y
    OBVIOUS
  <1>2. Claiming!Max({a, b}) \in {a, b} /\ \A y \in {a, b} : Claiming!Max({a, b}) >= y
    BY <1>1 DEF Claiming!Max
  <1>. QED
    BY <1>2

\* What the stored pots were charged is what all records would cost.
LEMMA UnitsOfStored ==
    ASSUME PotAssumptions, PotsInv
    PROVE  /\ Units(pot) \in [Claiming!Pots -> Nat] /\ Total(Units(pot)) \in Nat
           /\ Claiming!DerivedUnits = Total(Units(pot))
           /\ Claiming!MaxPotSequence \in Nat
           /\ \A n \in Claiming!Generals : pot[n].status # "NONE" => n <= Claiming!MaxPotSequence
           /\ \/ Claiming!MaxPotSequence = 0
              \/ Claiming!MaxPotSequence \in Claiming!Generals /\ pot[Claiming!MaxPotSequence].status # "NONE"
  <1>1. \A p \in Claiming!Pots : /\ pot[p].total \in Nat /\ Claiming!PotCommitmentUnits(pot[p].total) \in Nat
                                 /\ pot[p].status = "NONE" => Claiming!PotCommitmentUnits(pot[p].total) = 0
    BY UnitsCover DEF PotsInv, Claiming!TypeOK, PotBooksOK, PotBookOK, Claiming!NoPot
  <1>2. Units(pot) \in [Claiming!Pots -> Nat]
    BY <1>1 DEF Units
  <1>3. Total(Units(pot)) \in Nat
    BY <1>2, PotParameters, TotalNat
  <1>. DEFINE g == [p \in Claiming!Stored |-> Claiming!PotCommitmentUnits(pot[p].total)]
  <1>4. Claiming!Stored \subseteq Claiming!Pots /\ g \in [Claiming!Stored -> Nat]
    BY <1>1 DEF Claiming!Stored
  <1>5. \A p \in Claiming!Pots : IF p \in Claiming!Stored THEN g[p] = Units(pot)[p] ELSE Units(pot)[p] = 0
    BY <1>1 DEF Units, Claiming!Stored
  <1>6. Total(g) = Total(Units(pot))
    <2>. HIDE DEF g
    <2>. QED
      BY <1>2, <1>4, <1>5, TotalWithin
  <1>7. Claiming!DerivedUnits = Total(Units(pot))
    BY <1>6, ClaimingCounts DEF Claiming!DerivedUnits
  <1>. DEFINE T == {0} \cup (Claiming!Stored \cap Claiming!Generals)
  <1>8. MaxPots \in Nat /\ T \in SUBSET (0 .. MaxPots) /\ T # {}
    BY PotParameters DEF Claiming!Generals
  <1>9. Claiming!MaxPotSequence \in T /\ \A y \in T : y <= Claiming!MaxPotSequence
    <2>. HIDE DEF T
    <2>1. Claiming!Max(T) \in T /\ \A y \in T : y <= Claiming!Max(T)
      BY <1>8, MaxOf
    <2>. QED
      BY <2>1 DEF Claiming!MaxPotSequence, T
  <1>10. \A n \in Claiming!Generals : pot[n].status # "NONE" => n \in T
    BY PotParameters DEF Claiming!Stored
  <1>. QED
    BY <1>2, <1>3, <1>7, <1>8, <1>9, <1>10 DEF Claiming!Stored

\* Nobody claimed of a pot that is not there.
LEMMA NothingClaimed ==
    ASSUME PotAssumptions, PotsInv, NEW p \in Claiming!Pots, pot[p].claimed = 0
    PROVE  \A a \in Agents : claims[p][a] = 0
  <1>1. claims[p] \in [Agents -> Nat] /\ Total(claims[p]) = 0 /\ IsFiniteSet(Agents)
    BY PotParameters DEF PotsInv, Claiming!TypeOK, PotBooksOK, PotBookOK
  <1>2. ASSUME NEW a \in Agents
        PROVE  claims[p][a] = 0
    <2>1. claims[p][a] <= Total(claims[p]) /\ claims[p][a] \in Nat
      BY <1>1, TotalAtLeast
    <2>. QED
      BY <1>1, <2>1
  <1>. QED
    BY <1>2

-----------------------------------------------------------------------------
(* Claiming pots: every step keeps the invariant *)

LEMMA PotsStart ==
    ASSUME PotAssumptions, Claiming!Init
    PROVE  PotsInv
  <1>. USE PotParameters
  <1>1. \A p \in Claiming!Pots : claims[p] = [a \in Agents |-> 0] /\ Total(claims[p]) = 0
    <2>1. \A p \in Claiming!Pots : claims[p] = [a \in Agents |-> 0]
      BY DEF Claiming!Init
    <2>2. [a \in Agents |-> 0] \in [Agents -> Nat] /\ \A x \in Agents : [a \in Agents |-> 0][x] = 0
      OBVIOUS
    <2>3. Total([a \in Agents |-> 0]) = 0
      BY <2>2, TotalZero
    <2>. QED
      BY <2>1, <2>3
  <1>. DEFINE Unclaimed == \A p \in Claiming!Pots : /\ pot[p].claimed = 0
                                                    /\ pot[p].status = "NONE" => pot[p] = Claiming!NoPot
                                                    /\ pot[p].status # "NONE" => pot[p].end > pot[p].start /\ p \in Claiming!Generals
  <1>2. pot \in [Claiming!Pots -> PotRecord] /\ Unclaimed
    <2>1. Claiming!NoPot \in PotRecord /\ Claiming!NoPot.status = "NONE" /\ Claiming!NoPot.claimed = 0
      BY DEF Claiming!NoPot, PotRecord
    <2>2. CASE pot = [p \in Claiming!Pots |-> Claiming!NoPot]
      BY <2>1, <2>2
    <2>3. ASSUME NEW n \in Claiming!Generals, NEW s \in {x \in Shapes : x.end > x.start},
                 pot = [p \in Claiming!Pots |-> IF p = n THEN [s EXCEPT !.status = "ACTIVE"] ELSE Claiming!NoPot]
          PROVE  pot \in [Claiming!Pots -> PotRecord] /\ Unclaimed
      <3>. DEFINE q == [s EXCEPT !.status = "ACTIVE"]
      <3>1. q \in PotRecord /\ q.claimed = 0 /\ q.status = "ACTIVE" /\ q.end > q.start
        BY DEF PotRecord
      <3>. HIDE DEF q
      <3>2. \A p \in Claiming!Pots : pot[p] = IF p = n THEN q ELSE Claiming!NoPot
        BY <2>3 DEF q
      <3>3. pot \in [Claiming!Pots -> PotRecord]
        <4>1. pot = [p \in Claiming!Pots |-> IF p = n THEN q ELSE Claiming!NoPot]
          BY <2>3 DEF q
        <4>. QED
          BY <2>1, <3>1, <4>1
      <3>. QED
        BY <2>1, <3>1, <3>2, <3>3
    <2>. QED
      BY <2>1, <2>2, <2>3 DEF Claiming!Init
  <1>3. Claiming!TypeOK
    BY <1>2 DEF Claiming!Init, Claiming!TypeOK, PotRecord
  <1>4. PotBooksOK
    BY <1>1, <1>2, <1>3 DEF PotBooksOK, PotBookOK, Claiming!TypeOK
  <1>5. SeedsOK
    BY <1>2 DEF SeedsOK
  <1>6. version = 2 => ChargedOK
    <2>. SUFFICES ASSUME version = 2 PROVE ChargedOK
      OBVIOUS
    <2>1. pot = [p \in Claiming!Pots |-> Claiming!NoPot] /\ committed = 0
      BY DEF Claiming!Init
    <2>2. Units(pot) \in [Claiming!Pots -> Nat] /\ \A p \in Claiming!Pots : Units(pot)[p] = 0
      BY <2>1, UnitsCover DEF Units, Claiming!NoPot
    <2>3. Total(Units(pot)) = 0
      BY <2>2, TotalZero
    <2>4. params.emissionCap \in Nat /\ committed * PerUnit = 0
      BY <1>3, <2>1 DEF Claiming!TypeOK
    <2>5. \A n \in Claiming!Generals : pot[n].status = "NONE"
      BY <2>1 DEF Claiming!NoPot
    <2>. QED
      BY <2>1, <2>3, <2>4, <2>5 DEF ChargedOK
  <1>7. WindowOK
    <2>1. registered = {} /\ window = [index |-> 0, count |-> 0] /\ height = 1
      BY DEF Claiming!Init
    <2>2. Cardinality(AdmittedIn(window.index)) = 0
      BY <2>1, FS_EmptySet DEF AdmittedIn
    <2>3. params.dailyCap \in Nat
      BY <1>3 DEF Claiming!TypeOK
    <2>4. height \div WindowBlocks \in Nat
      BY <2>1, WindowsFollow
    <2>5. Claiming!WindowCount(height \div WindowBlocks) = 0
      BY <2>1 DEF Claiming!WindowCount
    <2>. QED
      BY <2>1, <2>2, <2>3, <2>4, <2>5 DEF WindowOK
  <1>. QED
    BY <1>3, <1>4, <1>5, <1>6, <1>7 DEF PotsInv

\* The registrar's window is undisturbed while the records of its agents,
\* its own record, the height and the caps stay.
LEMMA WindowKept ==
    ASSUME PotsInv, UNCHANGED <<window, height, registered>>, params'.dailyCap = params.dailyCap,
           \A a \in registered : pot'[a].start = pot[a].start /\ pot'[a].status # "NONE"
    PROVE  WindowOK'
  <1>1. AdmittedIn(window.index)' = AdmittedIn(window.index)
    BY DEF AdmittedIn
  <1>2. Claiming!WindowCount(height \div WindowBlocks)' = Claiming!WindowCount(height \div WindowBlocks)
    BY DEF Claiming!WindowCount
  <1>3. \A a \in registered : pot'[a].status # "NONE" /\ pot'[a].start \div WindowBlocks <= window.index
    BY DEF PotsInv, WindowOK
  <1>. QED
    BY <1>1, <1>2, <1>3 DEF PotsInv, WindowOK

LEMMA CreatePotKeeps ==
    ASSUME PotAssumptions, PotsInv, NEW s \in Shapes, Claiming!CreatePot(s)
    PROVE  PotsInv'
  <1>. USE PotParameters
  <1>. DEFINE n == counter + 1
              q == [s EXCEPT !.status = "ACTIVE"]
              u == Claiming!PotCommitmentUnits(s.total)
  <1>1. /\ n \in Claiming!Generals /\ pot[n].status = "NONE" /\ pot[n] = Claiming!NoPot
        /\ counter \in Nat /\ version = 2 /\ s.end > s.start
    <2>1. version = 2 /\ counter < MaxPots /\ counter \in Nat /\ s.end > s.start
      BY DEF Claiming!CreatePot, PotsInv, Claiming!TypeOK
    <2>2. n \in Claiming!Generals
      BY <2>1 DEF Claiming!Generals
    <2>3. pot[n].status = "NONE"
      BY <2>1, <2>2 DEF PotsInv, ChargedOK
    <2>. QED
      BY <2>1, <2>2, <2>3 DEF PotsInv, PotBooksOK, PotBookOK
  <1>2. q \in PotRecord /\ q.status = "ACTIVE" /\ q.claimed = 0 /\ q.end > q.start /\ q.total = s.total /\ q.total \in Nat
    BY <1>1 DEF PotRecord
  <1>3. /\ pot' = [pot EXCEPT ![n] = q] /\ pot \in [Claiming!Pots -> PotRecord]
        /\ UNCHANGED <<claims, window, params, version, potSupply, height, registered>>
        /\ committed' = committed + u /\ counter' = n
    BY DEF Claiming!CreatePot, PotsInv, Claiming!TypeOK, PotRecord
  <1>. HIDE DEF q, n, u
  <1>4. \A p \in Claiming!Pots : pot'[p] = IF p = n THEN q ELSE pot[p]
    BY <1>3
  <1>5. u \in Nat
    BY <1>2, UnitsCover DEF u
  <1>6. Claiming!TypeOK'
    <2>1. pot' \in [Claiming!Pots -> PotRecord]
      BY <1>2, <1>3
    <2>2. committed' \in Nat /\ counter' \in Nat
      BY <1>1, <1>3, <1>5 DEF PotsInv, Claiming!TypeOK
    <2>. QED
      BY <1>3, <2>1, <2>2 DEF PotsInv, Claiming!TypeOK, PotRecord
  <1>7. PotBooksOK'
    <2>. SUFFICES ASSUME NEW p \in Claiming!Pots
                  PROVE  PotBookOK(pot'[p], claims[p])
      BY <1>3 DEF PotBooksOK
    <2>1. PotBookOK(pot[p], claims[p])
      BY DEF PotsInv, PotBooksOK
    <2>2. CASE p = n
      <3>1. pot[p] = Claiming!NoPot /\ Claiming!NoPot.claimed = 0
        BY <1>1, <2>2 DEF Claiming!NoPot
      <3>. QED
        BY <1>2, <1>4, <2>1, <2>2, <3>1 DEF PotBookOK
    <2>. QED
      BY <1>4, <2>1, <2>2
  <1>8. \A a \in Agents : pot'[a] = pot[a]
    BY <1>1, <1>4
  <1>9. SeedsOK'
    BY <1>3, <1>8 DEF PotsInv, SeedsOK
  <1>10. WindowOK'
    BY <1>3, <1>8, WindowKept DEF PotsInv, WindowOK, Claiming!TypeOK
  <1>11. ChargedOK'
    <2>. DEFINE f == Units(pot)
                g == Units(pot')
    <2>1. f \in [Claiming!Pots -> Nat] /\ f[n] = 0
      BY <1>1, UnitsOfStored, UnitsCover DEF Units, Claiming!NoPot
    <2>2. g \in [Claiming!Pots -> Nat] /\ g[n] = u /\ \A p \in Claiming!Pots : p # n => g[p] = f[p]
      BY <1>1, <1>2, <1>4, <1>5, <2>1 DEF Units, u
    <2>. HIDE DEF f, g
    <2>3. Total(g) = Total(f) - f[n] + g[n] /\ Total(f) \in Nat
      BY <1>1, <2>1, <2>2, TotalUpdate
    <2>4. Total(g) <= committed + u
      BY <1>1, <1>5, <2>1, <2>2, <2>3 DEF PotsInv, ChargedOK, Claiming!TypeOK, f
    <2>5. (committed + u) * PerUnit <= params.emissionCap
      BY DEF Claiming!CreatePot, Claiming!ProjectedFits, u
    <2>6. \A m \in Claiming!Generals : pot'[m].status # "NONE" => m <= counter'
      <3>. SUFFICES ASSUME NEW m \in Claiming!Generals, pot'[m].status # "NONE"
                    PROVE  m <= n
        BY <1>3
      <3>1. CASE m = n
        BY <1>1, <3>1
      <3>2. CASE m # n
        <4>1. m <= counter /\ n = counter + 1
          BY <1>1, <1>4, <3>2 DEF PotsInv, ChargedOK, n
        <4>. QED
          BY <1>1, <4>1
      <3>. QED
        BY <3>1, <3>2
    <2>. QED
      BY <1>3, <2>4, <2>5, <2>6 DEF ChargedOK, g
  <1>. QED
    BY <1>6, <1>7, <1>9, <1>10, <1>11 DEF PotsInv

LEMMA AddBootstrapKeeps ==
    ASSUME PotAssumptions, PotsInv, NEW batch \in SUBSET Agents, NEW isRegistrar \in BOOLEAN,
           Claiming!AddBootstrapEntry(batch, isRegistrar)
    PROVE  PotsInv'
  <1>. USE PotParameters
  <1>. DEFINE new == Claiming!Admitted(batch)
              n == Cardinality(new)
              w == height \div WindowBlocks
              seed(a) == Claiming!MakeBootstrapPotForAgent(a)
  <1>1. /\ new \in SUBSET Agents /\ IsFiniteSet(new) /\ n \in Nat /\ new \subseteq Claiming!Pots
        /\ \A a \in new : pot[a].status = "NONE" /\ pot[a] = Claiming!NoPot
    <2>1. new \in SUBSET Agents /\ \A a \in new : pot[a].status = "NONE"
      BY DEF Claiming!Admitted
    <2>2. IsFiniteSet(new) /\ n \in Nat
      BY <2>1, FS_Subset, FS_CardinalityType
    <2>. QED
      BY <2>1, <2>2 DEF PotsInv, PotBooksOK, PotBookOK
  <1>2. /\ version = 2 /\ Claiming!ProjectedFits(n) /\ (isRegistrar => Claiming!WindowCount(w) + n <= params.dailyCap)
        /\ window' = IF isRegistrar THEN [index |-> w, count |-> Claiming!WindowCount(w) + n] ELSE window
        /\ committed' = committed + n
        /\ pot' = [p \in Claiming!Pots |-> IF p \in new THEN seed(p) ELSE pot[p]]
        /\ registered' = IF isRegistrar THEN registered \cup new ELSE registered
        /\ UNCHANGED <<claims, counter, params, version, potSupply, height>>
    BY ClaimingCounts DEF Claiming!AddBootstrapEntry
  <1>. HIDE DEF new, n
  <1>3. /\ height \in Nat /\ w \in Nat /\ Claiming!WindowCount(w) \in Nat /\ committed \in Nat
        /\ window.index \in Nat /\ window.count \in Nat
    BY WindowsFollow DEF PotsInv, Claiming!TypeOK, Claiming!WindowCount
  <1>. HIDE DEF w
  <1>4. \A a \in Agents : /\ seed(a) \in PotRecord /\ seed(a).status = "ACTIVE" /\ seed(a).claimed = 0
                          /\ seed(a).total = PerUnit /\ seed(a).start = height /\ seed(a).end = height + 1
                          /\ seed(a).cliff = 0 /\ seed(a).whitelist = {a}
    BY <1>3 DEF Claiming!MakeBootstrapPotForAgent, PotRecord
  <1>. HIDE DEF seed
  <1>5. \A p \in Claiming!Pots : pot'[p] = IF p \in new THEN seed(p) ELSE pot[p]
    BY <1>2
  <1>6. Claiming!TypeOK'
    <2>1. pot' \in [Claiming!Pots -> PotRecord]
      BY <1>1, <1>2, <1>4 DEF PotsInv, Claiming!TypeOK, PotRecord
    <2>2. window' \in [index : Nat, count : Nat]
      <3>1. CASE isRegistrar
        BY <1>1, <1>2, <1>3, <3>1
      <3>2. CASE ~isRegistrar
        BY <1>2, <3>2 DEF PotsInv, Claiming!TypeOK
      <3>. QED
        BY <3>1, <3>2
    <2>3. committed' \in Nat /\ registered' \in SUBSET Agents
      BY <1>1, <1>2, <1>3 DEF PotsInv, Claiming!TypeOK
    <2>. QED
      BY <1>2, <2>1, <2>2, <2>3 DEF PotsInv, Claiming!TypeOK, PotRecord
  <1>7. PotBooksOK'
    <2>. SUFFICES ASSUME NEW p \in Claiming!Pots
                  PROVE  PotBookOK(pot'[p], claims[p])
      BY <1>2 DEF PotBooksOK
    <2>1. PotBookOK(pot[p], claims[p])
      BY DEF PotsInv, PotBooksOK
    <2>2. CASE p \in new
      <3>1. pot[p].claimed = 0 /\ Total(claims[p]) = 0
        BY <1>1, <2>1, <2>2 DEF PotBookOK, Claiming!NoPot
      <3>2. pot'[p] = seed(p) /\ p \in Agents
        BY <1>1, <1>5, <2>2
      <3>. QED
        BY <1>3, <1>4, <3>1, <3>2 DEF PotBookOK
    <2>. QED
      BY <1>5, <2>1, <2>2
  <1>8. SeedsOK'
    <2>. SUFFICES ASSUME NEW a \in Agents, pot'[a].status # "NONE"
                  PROVE  SeedOK(pot'[a], claims[a], a, height)
      BY <1>2 DEF SeedsOK
    <2>1. CASE a \in new
      <3>1. pot[a].claimed = 0
        BY <1>1, <2>1 DEF Claiming!NoPot
      <3>2. \A b \in Agents : claims[a][b] = 0
        BY <3>1, NothingClaimed
      <3>. QED
        BY <1>3, <1>4, <1>5, <2>1, <3>2 DEF SeedOK
    <2>2. CASE a \notin new
      BY <1>5, <2>2 DEF PotsInv, SeedsOK
    <2>. QED
      BY <2>1, <2>2
  <1>9. ChargedOK'
    <2>. DEFINE f == Units(pot)
                g == [p \in Claiming!Pots |-> IF p \in new THEN 1 ELSE 0]
                h == [p \in Claiming!Pots |-> f[p] + g[p]]
    <2>1. f \in [Claiming!Pots -> Nat] /\ g \in [Claiming!Pots -> Nat] /\ Total(f) \in Nat
      BY UnitsOfStored
    <2>2. Units(pot') = h
      <3>1. ASSUME NEW p \in Claiming!Pots
            PROVE  Units(pot')[p] = h[p]
        <4>1. CASE p \in new
          <5>1. Units(pot')[p] = 1 /\ f[p] = 0
            BY <1>1, <1>4, <1>5, <4>1, UnitsCover DEF Units, Claiming!NoPot
          <5>. QED
            BY <4>1, <5>1
        <4>2. CASE p \notin new
          <5>1. Units(pot')[p] = f[p] /\ f[p] \in Nat
            BY <1>5, <2>1, <4>2 DEF Units
          <5>. QED
            BY <4>2, <5>1
        <4>. QED
          BY <4>1, <4>2
      <3>2. Units(pot') = [p \in Claiming!Pots |-> Units(pot')[p]]
        BY DEF Units
      <3>. QED
        BY <3>1, <3>2
    <2>3. Total(g) = n
      BY <1>1, TotalCounts DEF n
    <2>. HIDE DEF f, g
    <2>4. Total(h) = Total(f) + n
      BY <2>1, <2>3, TotalSum
    <2>. HIDE DEF h
    <2>5. Total(Units(pot')) <= committed + n
      BY <1>1, <1>2, <1>3, <2>1, <2>2, <2>4 DEF PotsInv, ChargedOK, f
    <2>6. (committed + n) * PerUnit <= params.emissionCap
      BY <1>2 DEF Claiming!ProjectedFits
    <2>7. \A m \in Claiming!Generals : pot'[m] = pot[m]
      BY <1>1, <1>5
    <2>. QED
      BY <1>2, <2>5, <2>6, <2>7 DEF PotsInv, ChargedOK
  <1>10. WindowOK'
    <2>1. registered \subseteq Agents /\ registered \cap new = {} /\ IsFiniteSet(registered)
      BY <1>1, FS_Subset DEF PotsInv, WindowOK, Claiming!TypeOK
    <2>2. \A a \in registered : pot'[a] = pot[a]
      BY <1>5, <2>1
    <2>3. CASE ~isRegistrar
      BY <1>2, <2>2, <2>3, WindowKept DEF PotsInv, WindowOK
    <2>4. CASE isRegistrar
      <3>1. \A a \in new : pot'[a].start = height /\ pot'[a].status # "NONE"
        BY <1>1, <1>4, <1>5
      <3>2. window'.index = w /\ window'.count = Claiming!WindowCount(w) + n /\ registered' = registered \cup new
        BY <1>2, <2>4
      <3>3. window.index <= w
        BY DEF PotsInv, WindowOK, w
      <3>4. \A a \in registered : pot[a].start \in Nat /\ pot[a].start \div WindowBlocks \in Nat
        BY <2>1, WindowsFollow DEF PotsInv, Claiming!TypeOK
      <3>5. \A a \in registered' : pot'[a].status # "NONE" /\ pot'[a].start \div WindowBlocks <= w
        <4>1. ASSUME NEW a \in registered
              PROVE  pot'[a].status # "NONE" /\ pot'[a].start \div WindowBlocks <= w
          <5>1. pot[a].status # "NONE" /\ pot[a].start \div WindowBlocks <= window.index
            BY DEF PotsInv, WindowOK
          <5>. QED
            BY <1>3, <2>2, <3>3, <3>4, <5>1
        <4>2. ASSUME NEW a \in new
              PROVE  pot'[a].status # "NONE" /\ pot'[a].start \div WindowBlocks <= w
          BY <1>3, <3>1 DEF w
        <4>. QED
          BY <3>2, <4>1, <4>2
      <3>. DEFINE old == {a \in registered : pot[a].start \div WindowBlocks = w}
      <3>6. AdmittedIn(w)' = old \cup new
        <4>1. AdmittedIn(w)' = {a \in registered' : pot'[a].start \div WindowBlocks = w}
          BY <1>2 DEF AdmittedIn, w
        <4>. QED
          BY <2>2, <3>1, <3>2, <4>1 DEF w
      <3>7. IsFiniteSet(old) /\ old \cap new = {} /\ Cardinality(old) = Claiming!WindowCount(w)
        <4>1. IsFiniteSet(old) /\ old \cap new = {}
          BY <2>1, FS_Subset
        <4>2. CASE window.index = w
          <5>1. old = AdmittedIn(window.index)
            BY <4>2 DEF AdmittedIn
          <5>. QED
            BY <4>1, <4>2, <5>1 DEF PotsInv, WindowOK, Claiming!WindowCount
        <4>3. CASE window.index # w
          <5>1. \A a \in registered : pot[a].start \div WindowBlocks # w
            BY <1>3, <3>3, <3>4, <4>3 DEF PotsInv, WindowOK
          <5>2. old = {}
            BY <5>1
          <5>. QED
            BY <4>3, <5>2, FS_EmptySet DEF Claiming!WindowCount
        <4>. QED
          BY <4>1, <4>2, <4>3
      <3>. HIDE DEF old
      <3>8. Cardinality(old \cup new) = Cardinality(old) + Cardinality(new) - Cardinality({})
        BY <1>1, <3>7, FS_Union
      <3>9. Cardinality(AdmittedIn(w)') = window'.count
        BY <1>1, <1>3, <3>2, <3>6, <3>7, <3>8, FS_EmptySet DEF n
      <3>10. AdmittedIn(window.index)' = AdmittedIn(w)'
        BY <1>2, <3>2 DEF AdmittedIn, w
      <3>11. Claiming!WindowCount(height \div WindowBlocks)' = Claiming!WindowCount(w) + n
        BY <1>2, <3>2 DEF Claiming!WindowCount, w
      <3>12. window'.index <= height' \div WindowBlocks
        BY <1>2, <1>3, <3>2 DEF w
      <3>13. Claiming!WindowCount(height \div WindowBlocks)' <= params'.dailyCap
        BY <1>2, <2>4, <3>11
      <3>. QED
        BY <3>2, <3>5, <3>9, <3>10, <3>12, <3>13 DEF WindowOK
    <2>. QED
      BY <2>3, <2>4
  <1>. QED
    BY <1>6, <1>7, <1>8, <1>9, <1>10 DEF PotsInv

\* The seeds stand while their records, the claims on them and what is passed
\* of the height only grow.
LEMMA SeedsStand ==
    ASSUME PotAssumptions, PotsInv, claims' = claims, height' \in Nat, height <= height',
           \A a \in Agents : pot'[a] = pot[a]
    PROVE  SeedsOK'
  <1>. SUFFICES ASSUME NEW a \in Agents, pot'[a].status # "NONE"
                PROVE  SeedOK(pot'[a], claims[a], a, height')
    BY DEF SeedsOK
  <1>1. SeedOK(pot[a], claims[a], a, height) /\ height \in Nat /\ pot[a].start \in Nat
    BY PotParameters DEF PotsInv, SeedsOK, Claiming!TypeOK
  <1>. QED
    BY <1>1 DEF SeedOK

LEMMA ClaimKeeps ==
    ASSUME PotAssumptions, PotsInv, NEW p \in Claiming!Pots, NEW a \in Agents, Claiming!Claim(p, a)
    PROVE  PotsInv'
  <1>. USE PotParameters
  <1>. DEFINE amount == Claiming!MintWithCap(potSupply, Claiming!CalculateClaimable(p))
              q == pot[p]
              r == Claiming!AfterClaim(q, amount)
  <1>1. /\ q.status = "ACTIVE" /\ (q.whitelist # {} => a \in q.whitelist) /\ claims[p][a] = 0 /\ version = 2
        /\ potSupply' = potSupply + amount /\ claims' = [claims EXCEPT ![p][a] = amount]
        /\ pot' = [pot EXCEPT ![p] = r] /\ pot \in [Claiming!Pots -> PotRecord]
        /\ UNCHANGED <<committed, counter, window, params, version, height, registered>>
    BY DEF Claiming!Claim, PotsInv, Claiming!TypeOK, PotRecord
  <1>2. amount \in Nat /\ q.claimed + amount <= q.total /\ q \in PotRecord /\ q.claimed \in Nat /\ q.total \in Nat
    <2>1. /\ Claiming!CalculateClaimable(p) \in Nat /\ q.claimed + Claiming!CalculateClaimable(p) <= q.total
          /\ amount \in Nat /\ amount <= Claiming!CalculateClaimable(p)
      BY <1>1, ClaimFits
    <2>2. q \in PotRecord
      BY <1>1
    <2>3. q.claimed \in Nat /\ q.total \in Nat
      BY <2>2 DEF PotRecord
    <2>. HIDE DEF amount, q
    <2>. QED
      BY <2>1, <2>2, <2>3
  <1>. HIDE DEF amount, q
  <1>3. /\ r \in PotRecord /\ r.claimed = q.claimed + amount /\ r.status \in {"ACTIVE", "DEPLETED"}
        /\ r.total = q.total /\ r.start = q.start /\ r.end = q.end /\ r.cliff = q.cliff /\ r.whitelist = q.whitelist
        /\ (r.status = "DEPLETED" => r.claimed >= r.total)
    <2>. DEFINE n == q.claimed + amount
                st == IF n >= q.total THEN "DEPLETED" ELSE q.status
    <2>1. r = [q EXCEPT !.claimed = n, !.status = st]
      BY DEF Claiming!AfterClaim
    <2>2. n \in Nat /\ st \in {"ACTIVE", "DEPLETED"} /\ (st = "DEPLETED" => n >= q.total)
      BY <1>1, <1>2
    <2>. HIDE DEF r, n, st
    <2>3. /\ r \in PotRecord /\ r.claimed = n /\ r.status = st
          /\ r.total = q.total /\ r.start = q.start /\ r.end = q.end /\ r.cliff = q.cliff /\ r.whitelist = q.whitelist
      BY <1>2, <2>1, <2>2 DEF PotRecord
    <2>. QED
      BY <2>2, <2>3 DEF n
  <1>. HIDE DEF r
  <1>4. \A x \in Claiming!Pots : pot'[x] = IF x = p THEN r ELSE pot[x]
    BY <1>1
  <1>5. /\ claims \in [Claiming!Pots -> [Agents -> Nat]] /\ claims' \in [Claiming!Pots -> [Agents -> Nat]]
        /\ claims'[p] = [claims[p] EXCEPT ![a] = amount] /\ \A x \in Claiming!Pots : x # p => claims'[x] = claims[x]
    BY <1>1, <1>2 DEF PotsInv, Claiming!TypeOK
  <1>6. Claiming!TypeOK'
    <2>1. pot' \in [Claiming!Pots -> PotRecord]
      BY <1>1, <1>3
    <2>2. potSupply' \in Nat
      BY <1>1, <1>2 DEF PotsInv, Claiming!TypeOK
    <2>. QED
      BY <1>1, <1>5, <2>1, <2>2 DEF PotsInv, Claiming!TypeOK, PotRecord
  <1>7. PotBooksOK'
    <2>. SUFFICES ASSUME NEW x \in Claiming!Pots
                  PROVE  PotBookOK(pot'[x], claims'[x])
      BY DEF PotBooksOK
    <2>1. PotBookOK(pot[x], claims[x])
      BY DEF PotsInv, PotBooksOK
    <2>2. CASE x = p
      <3>. DEFINE f == claims[p]
                  g == claims'[p]
      <3>1. f \in [Agents -> Nat] /\ g \in [Agents -> Nat] /\ f[a] = 0 /\ g[a] = amount /\ \A b \in Agents : b # a => g[b] = f[b]
        BY <1>1, <1>5
      <3>. HIDE DEF f, g
      <3>2. Total(g) = Total(f) - f[a] + g[a] /\ Total(f) \in Nat
        BY <3>1, TotalUpdate
      <3>3. Total(f) = q.claimed /\ q.end > q.start
        BY <1>1, <2>1, <2>2 DEF PotBookOK, f, q
      <3>4. Total(g) = r.claimed
        BY <1>2, <1>3, <3>1, <3>2, <3>3
      <3>. QED
        BY <1>2, <1>3, <1>4, <2>2, <3>3, <3>4 DEF PotBookOK, g
    <2>. QED
      BY <1>4, <1>5, <2>1, <2>2
  <1>8. SeedsOK'
    <2>. SUFFICES ASSUME NEW b \in Agents, pot'[b].status # "NONE"
                  PROVE  SeedOK(pot'[b], claims'[b], b, height)
      BY <1>1 DEF SeedsOK
    <2>1. CASE b = p
      <3>1. SeedOK(q, claims[b], b, height)
        BY <1>1, <2>1 DEF PotsInv, SeedsOK, q
      <3>2. a = b
        BY <1>1, <3>1 DEF SeedOK
      <3>3. \A c \in Agents \ {b} : claims'[b][c] = 0
        BY <1>5, <2>1, <3>1, <3>2 DEF SeedOK
      <3>. QED
        BY <1>3, <1>4, <2>1, <3>1, <3>3 DEF SeedOK
    <2>2. CASE b # p
      BY <1>4, <1>5, <2>2 DEF PotsInv, SeedsOK
    <2>. QED
      BY <2>1, <2>2
  <1>9. ChargedOK'
    <2>1. Units(pot') = Units(pot)
      BY <1>3, <1>4 DEF Units, q
    <2>2. \A m \in Claiming!Generals : pot'[m].status # "NONE" => pot[m].status # "NONE"
      BY <1>1, <1>4 DEF q
    <2>. QED
      BY <1>1, <2>1, <2>2 DEF PotsInv, ChargedOK
  <1>10. WindowOK'
    <2>1. \A b \in registered : pot'[b].start = pot[b].start /\ pot'[b].status # "NONE"
      BY <1>3, <1>4 DEF q, PotsInv, WindowOK, Claiming!TypeOK
    <2>. QED
      BY <1>1, <2>1, WindowKept
  <1>. QED
    BY <1>6, <1>7, <1>8, <1>9, <1>10 DEF PotsInv

LEMMA UpdatePotParamsKeeps ==
    ASSUME PotAssumptions, PotsInv, NEW new \in ParamChoices, Claiming!UpdatePotParams(new)
    PROVE  PotsInv'
  <1>1. /\ committed * PerUnit <= params'.emissionCap /\ Claiming!WindowCount(height \div WindowBlocks) <= params'.dailyCap
        /\ params' = new /\ UNCHANGED <<pot, claims, committed, counter, window, version, potSupply, height, registered>>
    BY DEF Claiming!UpdatePotParams
  <1>2. Claiming!TypeOK' /\ PotBooksOK' /\ SeedsOK'
    BY <1>1 DEF PotsInv, Claiming!TypeOK, PotBooksOK, SeedsOK
  <1>3. version' = 2 => ChargedOK'
    BY <1>1 DEF PotsInv, ChargedOK
  <1>4. WindowOK'
    <2>1. Claiming!WindowCount(height \div WindowBlocks)' = Claiming!WindowCount(height \div WindowBlocks)
      BY <1>1 DEF Claiming!WindowCount
    <2>2. AdmittedIn(window.index)' = AdmittedIn(window.index)
      BY <1>1 DEF AdmittedIn
    <2>. QED
      BY <1>1, <2>1, <2>2 DEF PotsInv, WindowOK
  <1>. QED
    BY <1>2, <1>3, <1>4 DEF PotsInv

LEMMA PotBlockKeeps ==
    ASSUME PotAssumptions, PotsInv, Claiming!NextBlock
    PROVE  PotsInv'
  <1>. USE PotParameters
  <1>1. /\ height' = height + 1 /\ height \in Nat /\ version = 2
        /\ pot' = [p \in Claiming!Pots |-> IF p \in Claiming!Expiring THEN [pot[p] EXCEPT !.status = "EXPIRED"] ELSE pot[p]]
        /\ pot \in [Claiming!Pots -> PotRecord]
        /\ UNCHANGED <<claims, committed, counter, window, params, version, potSupply, registered>>
    BY DEF Claiming!NextBlock, PotsInv, Claiming!TypeOK, PotRecord
  <1>2. ASSUME NEW p \in Claiming!Pots
        PROVE  /\ pot'[p] \in PotRecord
               /\ \/ pot'[p] = pot[p]
                  \/ pot'[p] = [pot[p] EXCEPT !.status = "EXPIRED"] /\ p \in Claiming!Generals /\ pot[p].status = "ACTIVE"
    <2>1. pot[p] \in PotRecord /\ [pot[p] EXCEPT !.status = "EXPIRED"] \in PotRecord
      BY <1>1 DEF PotRecord
    <2>2. CASE p \in Claiming!Expiring
      <3>1. p \in Claiming!Generals /\ pot[p].status = "ACTIVE"
        BY <2>2 DEF Claiming!Expiring, Claiming!Active
      <3>2. pot'[p] = [pot[p] EXCEPT !.status = "EXPIRED"]
        BY <1>1, <2>2
      <3>. QED
        BY <2>1, <3>1, <3>2
    <2>3. CASE p \notin Claiming!Expiring
      <3>1. pot'[p] = pot[p]
        BY <1>1, <2>3
      <3>. QED
        BY <2>1, <3>1
    <2>. QED
      BY <2>2, <2>3
  <1>3. \A a \in Agents : pot'[a] = pot[a]
    BY <1>2
  <1>4. \A p \in Claiming!Pots : /\ pot'[p].status = "NONE" <=> pot[p].status = "NONE"
                                 /\ pot'[p].total = pot[p].total /\ pot'[p].claimed = pot[p].claimed
                                 /\ pot'[p].start = pot[p].start /\ pot'[p].end = pot[p].end
                                 /\ pot[p].status = "NONE" => pot'[p] = pot[p]
    <2>. SUFFICES ASSUME NEW p \in Claiming!Pots
                  PROVE  /\ pot'[p].status = "NONE" <=> pot[p].status = "NONE"
                         /\ pot'[p].total = pot[p].total /\ pot'[p].claimed = pot[p].claimed
                         /\ pot'[p].start = pot[p].start /\ pot'[p].end = pot[p].end
                         /\ pot[p].status = "NONE" => pot'[p] = pot[p]
      OBVIOUS
    <2>. DEFINE q == pot[p]
                r == [q EXCEPT !.status = "EXPIRED"]
    <2>1. q \in PotRecord /\ pot'[p] \in {q, r} /\ (pot'[p] # q => q.status = "ACTIVE")
      BY <1>1, <1>2
    <2>2. r.status = "EXPIRED" /\ r.total = q.total /\ r.claimed = q.claimed /\ r.start = q.start /\ r.end = q.end
      <3>. HIDE DEF q
      <3>. QED
        BY <2>1 DEF PotRecord
    <2>. HIDE DEF q, r
    <2>3. /\ pot'[p].status = "NONE" <=> q.status = "NONE"
          /\ pot'[p].total = q.total /\ pot'[p].claimed = q.claimed
          /\ pot'[p].start = q.start /\ pot'[p].end = q.end
          /\ q.status = "NONE" => pot'[p] = q
      BY <2>1, <2>2
    <2>. QED
      BY <2>3 DEF q
  <1>5. Claiming!TypeOK'
    <2>1. pot' \in [Claiming!Pots -> PotRecord]
      BY <1>1, <1>2
    <2>. QED
      BY <1>1, <2>1 DEF PotsInv, Claiming!TypeOK, PotRecord
  <1>6. PotBooksOK'
    BY <1>1, <1>4 DEF PotsInv, PotBooksOK, PotBookOK
  <1>7. SeedsOK'
    <2>1. height' \in Nat /\ height <= height' /\ claims' = claims
      BY <1>1
    <2>. QED
      BY <1>3, <2>1, SeedsStand
  <1>8. ChargedOK'
    <2>1. Units(pot') = Units(pot)
      BY <1>4 DEF Units
    <2>. QED
      BY <1>1, <1>4, <2>1 DEF PotsInv, ChargedOK
  <1>9. WindowOK'
    <2>1. \A a \in registered : pot'[a] = pot[a]
      BY <1>3 DEF PotsInv, Claiming!TypeOK
    <2>2. AdmittedIn(window.index)' = AdmittedIn(window.index)
      BY <1>1, <2>1 DEF AdmittedIn
    <2>. DEFINE w == height \div WindowBlocks
                v == height' \div WindowBlocks
    <2>3. w \in Nat /\ v \in Nat /\ w <= v
      BY <1>1, WindowsFollow
    <2>4. window.index \in Nat /\ window.index <= w /\ Claiming!WindowCount(w) <= params.dailyCap /\ params.dailyCap \in Nat
      BY DEF PotsInv, WindowOK, Claiming!TypeOK
    <2>5. Claiming!WindowCount(height \div WindowBlocks)' = IF window.index = v THEN window.count ELSE 0
      BY <1>1 DEF Claiming!WindowCount
    <2>6. Claiming!WindowCount(w) = IF window.index = w THEN window.count ELSE 0
      BY DEF Claiming!WindowCount
    <2>. HIDE DEF w, v
    <2>7. window.index = v => window.index = w
      BY <2>3, <2>4
    <2>8. Claiming!WindowCount(height \div WindowBlocks)' <= params'.dailyCap
      BY <1>1, <2>4, <2>5, <2>6, <2>7
    <2>9. window.index <= v
      BY <2>3, <2>4
    <2>10. \A a \in registered : pot'[a].status # "NONE" /\ pot'[a].start \div WindowBlocks <= window.index
      BY <2>1 DEF PotsInv, WindowOK
    <2>11. window'.index <= height' \div WindowBlocks
      BY <1>1, <2>9 DEF v
    <2>. QED
      BY <1>1, <2>2, <2>8, <2>10, <2>11 DEF PotsInv, WindowOK
  <1>. QED
    BY <1>1, <1>5, <1>6, <1>7, <1>8, <1>9 DEF PotsInv

LEMMA PotMigrateKeeps ==
    ASSUME PotAssumptions, PotsInv, Claiming!Migrate
    PROVE  PotsInv'
  <1>1. /\ committed' = Claiming!Max({committed, Claiming!DerivedUnits}) /\ committed' * PerUnit <= params.emissionCap
        /\ counter' = Claiming!Max({counter, Claiming!MaxPotSequence}) /\ version' = 2
        /\ UNCHANGED <<pot, claims, window, params, potSupply, height, registered>>
    BY DEF Claiming!Migrate, Claiming!MigratedCounter
  <1>2. committed' \in Nat /\ Claiming!DerivedUnits <= committed' /\ counter' \in Nat /\ Claiming!MaxPotSequence <= counter'
    BY <1>1, UnitsOfStored, MaxOfTwo DEF PotsInv, Claiming!TypeOK
  <1>3. Claiming!TypeOK' /\ PotBooksOK' /\ SeedsOK'
    BY <1>1, <1>2 DEF PotsInv, Claiming!TypeOK, PotBooksOK, SeedsOK
  <1>4. ChargedOK'
    <2>1. Total(Units(pot)) <= committed'
      BY <1>2, UnitsOfStored
    <2>2. ASSUME NEW n \in Claiming!Generals, pot[n].status # "NONE"
          PROVE  n <= counter'
      <3>1. n <= Claiming!MaxPotSequence /\ Claiming!MaxPotSequence \in Nat /\ n \in Nat
        BY <2>2, UnitsOfStored, PotParameters
      <3>. QED
        BY <1>2, <3>1
    <2>. QED
      BY <1>1, <2>1, <2>2 DEF ChargedOK
  <1>5. WindowOK'
    BY <1>1, WindowKept DEF PotsInv, WindowOK
  <1>. QED
    BY <1>3, <1>4, <1>5 DEF PotsInv

LEMMA PotElsewhereKeeps ==
    ASSUME PotAssumptions, PotsInv, Claiming!MintElsewhere \/ UNCHANGED Claiming!vars
    PROVE  PotsInv'
  <1>1. /\ potSupply' = potSupply + Claiming!MintWithCap(potSupply, OtherMint) \/ potSupply' = potSupply
        /\ UNCHANGED <<pot, claims, committed, counter, window, params, version, height, registered>>
    BY DEF Claiming!MintElsewhere, Claiming!vars
  <1>2. potSupply' \in Nat
    BY <1>1, PotParameters DEF Claiming!MintWithCap, PotsInv, Claiming!TypeOK
  <1>3. Claiming!TypeOK' /\ PotBooksOK' /\ SeedsOK' /\ (version' = 2 => ChargedOK')
    BY <1>1, <1>2 DEF PotsInv, Claiming!TypeOK, PotBooksOK, SeedsOK, ChargedOK
  <1>4. WindowOK'
    BY <1>1, WindowKept DEF PotsInv, WindowOK
  <1>. QED
    BY <1>3, <1>4 DEF PotsInv

LEMMA PotsKept ==
    ASSUME PotAssumptions, PotsInv, [Claiming!Next]_(Claiming!vars)
    PROVE  PotsInv'
  <1>1. ASSUME NEW s \in Shapes, Claiming!CreatePot(s)
        PROVE  PotsInv'
    BY <1>1, CreatePotKeeps
  <1>2. ASSUME NEW batch \in SUBSET Agents \ {{}}, NEW isRegistrar \in BOOLEAN, Claiming!AddBootstrapEntry(batch, isRegistrar)
        PROVE  PotsInv'
    BY <1>2, AddBootstrapKeeps
  <1>3. ASSUME NEW p \in Claiming!Pots, NEW a \in Agents, Claiming!Claim(p, a)
        PROVE  PotsInv'
    BY <1>3, ClaimKeeps
  <1>4. ASSUME NEW new \in ParamChoices, Claiming!UpdatePotParams(new)
        PROVE  PotsInv'
    BY <1>4, UpdatePotParamsKeeps
  <1>. QED
    BY <1>1, <1>2, <1>3, <1>4, PotBlockKeeps, PotMigrateKeeps, PotElsewhereKeeps DEF Claiming!Next

-----------------------------------------------------------------------------
(* Claiming pots: what the invariant says in the words of the properties *)

LEMMA PotsMean ==
    ASSUME PotAssumptions, PotsInv
    PROVE  Claiming!ExportValidates /\ Claiming!LifetimeBudget /\ Claiming!RegistrarRate /\ Claiming!SeedWaits
  <1>. USE PotParameters
  <1>1. Claiming!ExportValidates
    <2>. SUFFICES ASSUME version = 2 PROVE Claiming!GenesisValid
      BY DEF Claiming!ExportValidates
    <2>1. \A p \in Claiming!Stored : /\ pot[p].end > pot[p].start
                                     /\ pot[p].claimed <= pot[p].total
                                     /\ Claiming!Paid(p) = pot[p].claimed
      BY ClaimingCounts DEF PotsInv, PotBooksOK, PotBookOK, Claiming!Stored, Claiming!Paid
    <2>2. \A p \in Claiming!Pots, a \in Agents : claims[p][a] # 0 => p \in Claiming!Stored
      BY NothingClaimed DEF PotsInv, PotBooksOK, PotBookOK, Claiming!NoPot, Claiming!Stored
    <2>3. Claiming!DerivedUnits <= committed /\ committed * PerUnit <= params.emissionCap
      BY UnitsOfStored DEF PotsInv, ChargedOK
    <2>4. Claiming!MaxPotSequence <= counter
      BY UnitsOfStored DEF PotsInv, ChargedOK, Claiming!TypeOK
    <2>. QED
      BY <2>1, <2>2, <2>3, <2>4 DEF Claiming!GenesisValid
  <1>2. Claiming!LifetimeBudget
    <2>. SUFFICES ASSUME version = 2
                  PROVE  Total([p \in Claiming!Pots |-> Claiming!Paid(p)]) <= params.emissionCap
      BY ClaimingCounts DEF Claiming!LifetimeBudget
    <2>. DEFINE f == Units(pot)
                g == [p \in Claiming!Pots |-> Claiming!Paid(p)]
                b == Total(f)
                e == params.emissionCap
    <2>1. f \in [Claiming!Pots -> Nat] /\ b \in Nat /\ b <= committed /\ committed \in Nat /\ committed * PerUnit <= e /\ e \in Nat
      BY UnitsOfStored DEF PotsInv, ChargedOK, Claiming!TypeOK
    <2>2. ASSUME NEW p \in Claiming!Pots
          PROVE  g[p] \in Nat /\ g[p] <= PerUnit * f[p]
      <3>1. /\ g[p] = pot[p].claimed /\ pot[p].claimed <= pot[p].total
            /\ pot[p].claimed \in Nat /\ pot[p].total \in Nat
        BY ClaimingCounts DEF PotsInv, PotBooksOK, PotBookOK, Claiming!TypeOK, Claiming!Paid
      <3>2. f[p] \in Nat /\ pot[p].total <= PerUnit * f[p] /\ PerUnit * f[p] \in Nat
        BY <2>1, <3>1, UnitsCover DEF Units
      <3>. HIDE DEF f, g
      <3>. QED
        BY <3>1, <3>2
    <2>3. g \in [Claiming!Pots -> Nat]
      BY <2>2
    <2>. HIDE DEF f, g
    <2>4. Total(g) <= PerUnit * Total(f) /\ Total(g) \in Nat
      BY <2>1, <2>2, <2>3, TotalScaled, TotalNat
    <2>5. PerUnit * b <= PerUnit * committed
      <3>. HIDE DEF b, e
      <3>1. PerUnit * (committed - b) \in Nat /\ PerUnit * (committed - b) = PerUnit * committed - PerUnit * b
        BY <2>1
      <3>2. PerUnit * committed \in Nat /\ PerUnit * b \in Nat
        BY <2>1
      <3>. QED
        BY <3>1, <3>2
    <2>6. PerUnit * committed = committed * PerUnit
      BY <2>1
    <2>7. PerUnit * b \in Nat /\ committed * PerUnit \in Nat
      BY <2>1
    <2>8. Total(g) <= e
      <3>. DEFINE x == PerUnit * b
                  y == committed * PerUnit
      <3>1. Total(g) <= x /\ x <= y /\ y <= e /\ x \in Nat /\ y \in Nat
        BY <2>1, <2>4, <2>5, <2>6, <2>7
      <3>. HIDE DEF x, y, e
      <3>. QED
        BY <2>1, <2>4, <3>1
    <2>. QED
      BY <2>8 DEF g
  <1>3. Claiming!RegistrarRate
    <2>. DEFINE w == height \div WindowBlocks
    <2>1. /\ w \in Nat /\ window.index <= w /\ window.index \in Nat
          /\ Claiming!WindowCount(w) <= params.dailyCap /\ params.dailyCap \in Nat
      BY WindowsFollow DEF PotsInv, WindowOK, Claiming!TypeOK
    <2>2. \A a \in registered : pot[a].start \div WindowBlocks \in Nat /\ pot[a].start \div WindowBlocks <= window.index
      BY WindowsFollow DEF PotsInv, WindowOK, Claiming!TypeOK
    <2>. HIDE DEF w
    <2>3. Cardinality(AdmittedIn(w)) <= params.dailyCap
      <3>1. CASE window.index = w
        BY <2>1, <3>1 DEF PotsInv, WindowOK, Claiming!WindowCount
      <3>2. CASE window.index # w
        <4>1. AdmittedIn(w) = {}
          BY <2>1, <2>2, <3>2 DEF AdmittedIn
        <4>. QED
          BY <2>1, <4>1, FS_EmptySet
      <3>. QED
        BY <3>1, <3>2
    <2>. QED
      BY <2>3, ClaimingCounts DEF Claiming!RegistrarRate, AdmittedIn, w
  <1>4. Claiming!SeedWaits
    <2>. SUFFICES ASSUME NEW a \in Agents, pot[a].status # "NONE", claims[a][a] = 0
                  PROVE  pot[a].status = "ACTIVE" /\ (height >= pot[a].end => Claiming!CalculateClaimable(a) = PerUnit)
      BY DEF Claiming!SeedWaits
    <2>1. /\ SeedOK(pot[a], claims[a], a, height) /\ claims[a] \in [Agents -> Nat] /\ Total(claims[a]) = pot[a].claimed
          /\ pot[a].start \in Nat /\ pot[a].end \in Nat /\ height \in Nat
      BY DEF PotsInv, SeedsOK, Claiming!TypeOK, PotBooksOK, PotBookOK
    <2>2. \A b \in Agents : claims[a][b] = 0
      BY <2>1 DEF SeedOK
    <2>3. pot[a].claimed = 0
      BY <2>1, <2>2, TotalZero
    <2>4. pot[a].status = "ACTIVE"
      BY <2>1, <2>3 DEF SeedOK
    <2>5. ASSUME height >= pot[a].end
          PROVE  Claiming!CalculateClaimable(a) = PerUnit
      <3>1. pot[a].total = PerUnit /\ ~(height < pot[a].start + pot[a].cliff)
        BY <2>1, <2>5 DEF SeedOK
      <3>. QED
        BY <2>3, <2>5, <3>1 DEF Claiming!CalculateClaimable
    <2>. QED
      BY <2>4, <2>5
  <1>. QED
    BY <1>1, <1>2, <1>3, <1>4

\* A pot that has ended stays as it is.
LEMMA EndedPots ==
    ASSUME PotAssumptions, PotsInv, [Claiming!Next]_(Claiming!vars)
    PROVE  Claiming!TerminalKept
  <1>. USE PotParameters
  <1>. SUFFICES ASSUME NEW p \in Claiming!Pots, pot[p].status \in {"DEPLETED", "EXPIRED"}
                PROVE  pot'[p] = pot[p]
    BY DEF Claiming!TerminalKept
  <1>1. pot \in [Claiming!Pots -> PotRecord]
    BY DEF PotsInv, Claiming!TypeOK, PotRecord
  <1>2. ASSUME NEW s \in Shapes, Claiming!CreatePot(s)
        PROVE  pot'[p] = pot[p]
    <2>1. version = 2 /\ counter \in Nat /\ pot' = [pot EXCEPT ![counter + 1] = [s EXCEPT !.status = "ACTIVE"]]
      BY <1>2 DEF Claiming!CreatePot, PotsInv, Claiming!TypeOK
    <2>2. p # counter + 1
      <3>1. CASE p \in Claiming!Generals
        BY <2>1, <3>1 DEF PotsInv, ChargedOK
      <3>2. CASE p \in Agents
        <4>1. counter < MaxPots
          BY <1>2 DEF Claiming!CreatePot
        <4>2. counter + 1 \in Claiming!Generals
          BY <2>1, <4>1 DEF Claiming!Generals
        <4>. QED
          BY <3>2, <4>2
      <3>. QED
        BY <3>1, <3>2 DEF Claiming!Pots
    <2>. QED
      BY <1>1, <2>1, <2>2
  <1>3. ASSUME NEW batch, NEW isRegistrar, Claiming!AddBootstrapEntry(batch, isRegistrar)
        PROVE  pot'[p] = pot[p]
    BY <1>1, <1>3 DEF Claiming!AddBootstrapEntry, Claiming!Admitted
  <1>4. ASSUME NEW x \in Claiming!Pots, NEW a \in Agents, Claiming!Claim(x, a)
        PROVE  pot'[p] = pot[p]
    BY <1>1, <1>4 DEF Claiming!Claim
  <1>5. ASSUME Claiming!NextBlock
        PROVE  pot'[p] = pot[p]
    BY <1>1, <1>5 DEF Claiming!NextBlock, Claiming!Expiring, Claiming!Active
  <1>6. ASSUME \/ \E new \in ParamChoices : Claiming!UpdatePotParams(new)
               \/ Claiming!Migrate \/ Claiming!MintElsewhere \/ UNCHANGED Claiming!vars
        PROVE  pot'[p] = pot[p]
    BY <1>6 DEF Claiming!UpdatePotParams, Claiming!Migrate, Claiming!MintElsewhere, Claiming!vars
  <1>. QED
    BY <1>2, <1>3, <1>4, <1>5, <1>6 DEF Claiming!Next

\* Claiming pots keep their budget: all claims together stay within the
\* emission cap in force, the registrar within its rate, an unclaimed seed waits
\* for its agent, every state exports a genesis that is accepted, and a
\* terminal pot stays as it is.
THEOREM PotsStayInBudget ==
    ASSUME PotAssumptions
    PROVE  Claiming!Spec => /\ [](/\ Claiming!TypeOK /\ Claiming!LifetimeBudget /\ Claiming!ExportValidates
                                  /\ Claiming!RegistrarRate /\ Claiming!SeedWaits)
                            /\ [][Claiming!TerminalKept]_(Claiming!vars)
  <1>1. Claiming!Init => PotsInv
    BY PotsStart
  <1>2. PotsInv /\ [Claiming!Next]_(Claiming!vars) => PotsInv'
    BY PotsKept
  <1>3. PotsInv => /\ Claiming!TypeOK /\ Claiming!LifetimeBudget /\ Claiming!ExportValidates
                   /\ Claiming!RegistrarRate /\ Claiming!SeedWaits
    BY PotsMean DEF PotsInv
  <1>4. PotsInv /\ [Claiming!Next]_(Claiming!vars) => [Claiming!TerminalKept]_(Claiming!vars)
    BY EndedPots
  <1>. QED
    BY <1>1, <1>2, <1>3, <1>4, PTL DEF Claiming!Spec

-----------------------------------------------------------------------------
(* Tokens: the inductive invariant *)

TokenAssumptions == MaxSupplyAssumption /\ Tok!TokensAssumption

Holdings == [a \in Accounts |-> bal[a] + wrapped[a]]
Power(a) == [to \in Accounts |-> deleg[<<a, to>>]]

LedgerOK == /\ {bal, tot, wrapped} \subseteq [Accounts -> Nat] /\ {allow, deleg} \subseteq [Accounts \X Accounts -> Nat]
            /\ tok = Void => \A a \in Accounts : bal[a] = 0 /\ wrapped[a] = 0
            /\ tok # Void => /\ tok \in Tok!Token
                             /\ tok.supply = Total(Holdings)
                             /\ tok.max > 0 => tok.supply <= tok.max
PowerOK == \A a \in Accounts : tot[a] = Total(Power(a)) /\ tot[a] <= bal[a]

\* How many blocks of a range have begun at height h.
Begun(range, h) == IF h < range[1] THEN 0 ELSE IF h > range[2] THEN range[2] - range[1] + 1 ELSE h - range[1] + 1
PeriodOK(p, range, h) ==
    /\ p \in [rate : Rates, to : Accounts, active : BOOLEAN, emitted : Nat]
    /\ range[1] < range[2] /\ p.emitted <= p.rate * Begun(range, h)
PeriodsOK(ps, h) ==
    /\ ps = [r \in DOMAIN ps |-> ps[r]] /\ DOMAIN ps \subseteq Ranges
    /\ \A r \in DOMAIN ps : PeriodOK(ps[r], r, h)
MintedOK(sup, paid) ==
    /\ sup \in Nat /\ sup <= MaxSupply
    /\ paid \in [Accounts -> Nat] /\ sup = StartSupply + Total(paid)
EmissionOK == PeriodsOK(periods, height) /\ MintedOK(tokSupply, got)

TokensInv == LedgerOK /\ PowerOK /\ EmissionOK /\ height \in Nat

\* What the assumptions say of the parameters.
LEMMA TokenParameters ==
    ASSUME TokenAssumptions
    PROVE  /\ IsFiniteSet(Accounts) /\ Blocked \subseteq Accounts /\ Void \notin Tok!Token
           /\ Initials \subseteq Nat /\ Maxima \subseteq Nat /\ Amounts \subseteq Nat /\ Rates \subseteq Nat
           /\ IsFiniteSet(Ranges) /\ \A r \in Ranges : r[1] \in Nat /\ r[2] \in Nat
           /\ StartSupply \in Nat /\ StartSupply <= MaxSupply /\ MaxSupply \in Nat
  BY TokenCounts DEF TokenAssumptions, Tok!TokensAssumption, MaxSupplyAssumption

\* The account balances and the delegations that a step leaves alone stay sound.
LEMMA SameLedger ==
    ASSUME TokensInv, UNCHANGED <<tok, bal, deleg, tot, wrapped>>, allow' \in [Accounts \X Accounts -> Nat]
    PROVE  LedgerOK' /\ PowerOK'
  <1>1. Holdings' = Holdings /\ \A a \in Accounts : Power(a)' = Power(a)
    BY DEF Holdings, Power
  <1>2. LedgerOK'
    BY <1>1 DEF TokensInv, LedgerOK
  <1>3. PowerOK'
    BY <1>1 DEF TokensInv, PowerOK
  <1>. QED
    BY <1>2, <1>3

\* The emission that a step leaves alone stays sound.
LEMMA SameEmission ==
    ASSUME TokensInv, UNCHANGED Tok!emission
    PROVE  EmissionOK' /\ height' \in Nat
  BY DEF TokensInv, EmissionOK, PeriodsOK, PeriodOK, MintedOK, Tok!emission

\* A holding is a part of the supply.
LEMMA HeldIsSupplied ==
    ASSUME TokenAssumptions, TokensInv, tok # Void
    PROVE  /\ tok.supply \in Nat /\ Holdings \in [Accounts -> Nat]
           /\ \A a \in Accounts : bal[a] \in Nat /\ wrapped[a] \in Nat /\ bal[a] + wrapped[a] <= tok.supply
  <1>1. tok.supply \in Nat /\ tok.supply = Total(Holdings) /\ bal \in [Accounts -> Nat] /\ wrapped \in [Accounts -> Nat]
    BY DEF TokensInv, LedgerOK, Tok!Token
  <1>2. Holdings \in [Accounts -> Nat]
    BY <1>1 DEF Holdings
  <1>3. \A a \in Accounts : Holdings[a] <= Total(Holdings)
    BY <1>2, TokenParameters, TotalAtLeast
  <1>. QED
    BY <1>1, <1>2, <1>3 DEF Holdings

\* What an account may spend is not delegated.
LEMMA Spendable ==
    ASSUME TokensInv, NEW a \in Accounts, NEW n \in Nat, Tok!Undelegated(a) >= n
    PROVE  bal[a] \in Nat /\ tot[a] \in Nat /\ n <= bal[a] - tot[a] /\ bal[a] - n \in Nat
  <1>1. bal[a] \in Nat /\ tot[a] \in Nat /\ tot[a] <= bal[a]
    BY DEF TokensInv, LedgerOK, PowerOK
  <1>. QED
    BY <1>1 DEF Tok!Undelegated

-----------------------------------------------------------------------------
(* Tokens: every step keeps the books *)

LEMMA TokensStart ==
    ASSUME TokenAssumptions, Tok!Init
    PROVE  TokensInv
  <1>. USE TokenParameters
  <1>1. LedgerOK
    BY DEF Tok!Init, LedgerOK
  <1>2. PowerOK
    <2>. SUFFICES ASSUME NEW a \in Accounts
                  PROVE  tot[a] = Total(Power(a)) /\ tot[a] <= bal[a]
      BY DEF PowerOK
    <2>1. Power(a) \in [Accounts -> Nat] /\ \A x \in Accounts : Power(a)[x] = 0
      BY DEF Tok!Init, Power
    <2>2. Total(Power(a)) = 0
      BY <2>1, TotalZero
    <2>. QED
      BY <2>2 DEF Tok!Init
  <1>3. EmissionOK
    <2>1. got \in [Accounts -> Nat] /\ \A x \in Accounts : got[x] = 0
      BY DEF Tok!Init
    <2>2. Total(got) = 0
      BY <2>1, TotalZero
    <2>3. PeriodsOK(periods, height)
      <3>1. periods = [r \in {} |-> 0]
        BY DEF Tok!Init
      <3>2. DOMAIN periods = {}
        BY <3>1
      <3>. QED
        BY <3>1, <3>2 DEF PeriodsOK
    <2>4. MintedOK(tokSupply, got)
      BY <2>1, <2>2 DEF Tok!Init, MintedOK
    <2>. QED
      BY <2>3, <2>4 DEF EmissionOK
  <1>. QED
    BY <1>1, <1>2, <1>3 DEF TokensInv, Tok!Init

LEMMA CreateTokenKeeps ==
    ASSUME TokenAssumptions, TokensInv, NEW a \in Accounts, NEW features \in FeatureSets, NEW initial \in Initials, NEW max \in Maxima,
           Tok!CreateToken(a, features, initial, max)
    PROVE  LedgerOK' /\ PowerOK'
  <1>. USE TokenParameters
  <1>. DEFINE t == [creator |-> a, features |-> features, supply |-> initial, max |-> max, paused |-> FALSE]
  <1>1. /\ tok = Void /\ (max > 0 => initial <= max) /\ tok' = t /\ bal' = [bal EXCEPT ![a] = initial]
        /\ UNCHANGED <<allow, deleg, tot, wrapped>>
    BY DEF Tok!CreateToken
  <1>2. t \in Tok!Token /\ t.supply = initial /\ t.max = max
    <2>1. features \in SUBSET UNION FeatureSets
      BY Zenon
    <2>. QED
      BY <2>1 DEF Tok!Token
  <1>. HIDE DEF t
  <1>3. /\ bal \in [Accounts -> Nat] /\ wrapped \in [Accounts -> Nat] /\ tot \in [Accounts -> Nat]
        /\ \A x \in Accounts : bal[x] = 0 /\ wrapped[x] = 0
    BY <1>1 DEF TokensInv, LedgerOK
  <1>4. bal' \in [Accounts -> Nat] /\ \A x \in Accounts : bal'[x] = IF x = a THEN initial ELSE 0
    BY <1>1, <1>3
  <1>5. Total(Holdings') = initial
    <2>. DEFINE f == [x \in Accounts |-> 0]
                g == Holdings'
    <2>1. f \in [Accounts -> Nat] /\ (\A x \in Accounts : f[x] = 0) /\ Total(f) = 0
      <3>1. f \in [Accounts -> Nat] /\ \A x \in Accounts : f[x] = 0
        OBVIOUS
      <3>. HIDE DEF f
      <3>. QED
        BY <3>1, TotalZero
    <2>2. g \in [Accounts -> Nat] /\ g[a] = initial /\ \A x \in Accounts : x # a => g[x] = 0
      BY <1>1, <1>3, <1>4 DEF Holdings
    <2>. HIDE DEF f, g
    <2>3. Total(g) = Total(f) - f[a] + g[a]
      BY <2>1, <2>2, TotalUpdate
    <2>. QED
      BY <2>1, <2>2, <2>3 DEF g
  <1>6. LedgerOK'
    BY <1>1, <1>2, <1>3, <1>4, <1>5 DEF TokensInv, LedgerOK
  <1>7. PowerOK'
    <2>. SUFFICES ASSUME NEW x \in Accounts
                  PROVE  tot[x] = Total(Power(x)') /\ tot[x] <= bal'[x]
      BY <1>1 DEF PowerOK
    <2>1. Power(x)' = Power(x)
      BY <1>1 DEF Power
    <2>2. tot[x] = Total(Power(x)) /\ tot[x] <= bal[x] /\ tot[x] \in Nat
      BY <1>3 DEF TokensInv, PowerOK
    <2>. QED
      BY <1>3, <1>4, <2>1, <2>2
  <1>. QED
    BY <1>6, <1>7

\* A step that adds n to or takes n from one holding and the supply.
LEMMA OneHolding ==
    ASSUME TokenAssumptions, TokensInv, tok # Void, NEW a \in Accounts, NEW n \in Int,
           bal[a] + n \in Nat, tot[a] <= bal[a] + n,
           tok' = [tok EXCEPT !.supply = tok.supply + n], tok.max > 0 => tok.supply + n <= tok.max,
           bal' = [bal EXCEPT ![a] = bal[a] + n], UNCHANGED <<allow, deleg, tot, wrapped>>
    PROVE  LedgerOK' /\ PowerOK'
  <1>. USE TokenParameters
  <1>1. /\ tok \in Tok!Token /\ tok.supply = Total(Holdings) /\ tok.supply \in Nat
        /\ bal \in [Accounts -> Nat] /\ wrapped \in [Accounts -> Nat] /\ tot \in [Accounts -> Nat]
    BY DEF TokensInv, LedgerOK, Tok!Token
  <1>2. bal' \in [Accounts -> Nat] /\ \A x \in Accounts : bal'[x] = IF x = a THEN bal[a] + n ELSE bal[x]
    BY <1>1
  <1>3. Total(Holdings') = tok.supply + n /\ Total(Holdings') \in Nat
    <2>. DEFINE f == Holdings
                g == Holdings'
    <2>1. f \in [Accounts -> Nat] /\ g \in [Accounts -> Nat] /\ g[a] = f[a] + n /\ \A x \in Accounts : x # a => g[x] = f[x]
      BY <1>1, <1>2 DEF Holdings
    <2>2. Total(g) = Total(f) - f[a] + g[a] /\ Total(g) \in Nat
      <3>. HIDE DEF f, g
      <3>. QED
        BY <2>1, TotalUpdate
    <2>3. f[a] \in Nat
      BY <2>1
    <2>. HIDE DEF f, g
    <2>4. Total(g) = Total(f) + n
      <3>1. g[a] = f[a] + n
        BY <2>1
      <3>2. Total(f) \in Nat
        BY <1>1 DEF f
      <3>. QED
        BY <2>2, <2>3, <3>1, <3>2
    <2>. QED
      BY <1>1, <2>2, <2>4 DEF f, g
  <1>4. tok' \in Tok!Token /\ tok'.supply = tok.supply + n /\ tok'.max = tok.max /\ tok' # Void
    <2>. DEFINE m == tok.supply + n
    <2>1. m \in Nat /\ tok' = [tok EXCEPT !.supply = m]
      BY <1>1, <1>3
    <2>. HIDE DEF m
    <2>2. tok' \in Tok!Token /\ tok'.supply = m /\ tok'.max = tok.max
      BY <1>1, <2>1 DEF Tok!Token
    <2>. QED
      BY <2>2 DEF m
  <1>5. LedgerOK'
    BY <1>1, <1>2, <1>3, <1>4 DEF TokensInv, LedgerOK
  <1>6. PowerOK'
    <2>. SUFFICES ASSUME NEW x \in Accounts
                  PROVE  tot[x] = Total(Power(x)') /\ tot[x] <= bal'[x]
      BY DEF PowerOK
    <2>1. Power(x)' = Power(x)
      BY DEF Power
    <2>2. tot[x] = Total(Power(x)) /\ tot[x] <= bal[x]
      BY DEF TokensInv, PowerOK
    <2>. QED
      BY <1>2, <2>1, <2>2
  <1>. QED
    BY <1>5, <1>6

LEMMA MintTokenKeeps ==
    ASSUME TokenAssumptions, TokensInv, NEW who, NEW to \in Accounts, NEW n \in Nat, Tok!MintToken(who, to, n)
    PROVE  LedgerOK' /\ PowerOK'
  <1>1. /\ tok # Void /\ (tok.max > 0 => tok.supply + n <= tok.max)
        /\ tok' = [tok EXCEPT !.supply = tok.supply + n] /\ bal' = [bal EXCEPT ![to] = bal[to] + n]
        /\ UNCHANGED <<allow, deleg, tot, wrapped>>
    <2>1. bal \in [Accounts -> Nat]
      BY DEF TokensInv, LedgerOK
    <2>. QED
      BY <2>1 DEF Tok!MintToken, Tok!Live
  <1>2. bal[to] + n \in Nat /\ tot[to] <= bal[to] + n /\ n \in Int
    <2>1. bal[to] \in Nat /\ tot[to] \in Nat /\ tot[to] <= bal[to]
      BY DEF TokensInv, LedgerOK, PowerOK
    <2>. QED
      BY <2>1
  <1>. QED
    BY <1>1, <1>2, OneHolding

LEMMA BurnTokenKeeps ==
    ASSUME TokenAssumptions, TokensInv, NEW a \in Accounts, NEW n \in Nat, Tok!BurnToken(a, n)
    PROVE  LedgerOK' /\ PowerOK'
  <1>. DEFINE m == -n
  <1>1. tok # Void /\ bal \in [Accounts -> Nat] /\ Tok!Undelegated(a) >= n
    BY DEF Tok!BurnToken, Tok!Live, TokensInv, LedgerOK
  <1>2. bal[a] \in Nat /\ tot[a] \in Nat /\ n <= bal[a] - tot[a] /\ bal[a] - n \in Nat
    BY <1>1, Spendable
  <1>3. tok.supply \in Nat /\ (tok.max > 0 => tok.supply <= tok.max) /\ tok.max \in Nat
    BY <1>1 DEF TokensInv, LedgerOK, Tok!Token
  <1>4. m \in Int /\ tok.supply - n = tok.supply + m /\ bal[a] - n = bal[a] + m
    BY <1>2, <1>3
  <1>5. tok' = [tok EXCEPT !.supply = tok.supply - n] /\ bal' = [bal EXCEPT ![a] = bal[a] - n] /\ UNCHANGED <<allow, deleg, tot, wrapped>>
    BY <1>1 DEF Tok!BurnToken
  <1>6. bal[a] + m \in Nat /\ tot[a] <= bal[a] + m /\ (tok.max > 0 => tok.supply + m <= tok.max)
    BY <1>2, <1>3
  <1>. HIDE DEF m
  <1>7. tok' = [tok EXCEPT !.supply = tok.supply + m] /\ bal' = [bal EXCEPT ![a] = bal[a] + m]
    BY <1>4, <1>5
  <1>. QED
    BY <1>1, <1>4, <1>5, <1>6, <1>7, OneHolding

\* A step that leaves every delegation, and every balance above it, alone or grown,
\* and the sum of all holdings.
LEMMA MovedHoldings ==
    ASSUME TokensInv, UNCHANGED <<tok, deleg, tot>>, allow' \in [Accounts \X Accounts -> Nat],
           bal' \in [Accounts -> Nat], wrapped' \in [Accounts -> Nat],
           \A x \in Accounts : tot[x] <= bal'[x],
           tok # Void => Total(Holdings') = Total(Holdings),
           tok = Void => \A x \in Accounts : bal'[x] = 0 /\ wrapped'[x] = 0
    PROVE  LedgerOK' /\ PowerOK'
  <1>1. \A a \in Accounts : Power(a)' = Power(a)
    BY DEF Power
  <1>2. LedgerOK'
    BY DEF TokensInv, LedgerOK
  <1>3. PowerOK'
    BY <1>1 DEF TokensInv, PowerOK
  <1>. QED
    BY <1>2, <1>3

\* A transfer from a to another account.
LEMMA Transferred ==
    ASSUME TokenAssumptions, TokensInv, Tok!Live, NEW a \in Accounts, NEW to \in Accounts, a # to, NEW n \in Nat, Tok!Undelegated(a) >= n,
           bal' = [bal EXCEPT ![a] = @ - n, ![to] = @ + n],
           UNCHANGED <<tok, deleg, tot, wrapped>>, allow' \in [Accounts \X Accounts -> Nat]
    PROVE  LedgerOK' /\ PowerOK'
  <1>. USE TokenParameters
  <1>1. bal \in [Accounts -> Nat] /\ wrapped \in [Accounts -> Nat] /\ tot \in [Accounts -> Nat] /\ tok # Void
    BY DEF TokensInv, LedgerOK, Tok!Live
  <1>2. bal[a] \in Nat /\ n <= bal[a] - tot[a] /\ bal[a] - n \in Nat /\ tot[a] \in Nat
    BY Spendable
  <1>3. /\ bal' \in [Accounts -> Nat] /\ bal'[a] = bal[a] - n /\ bal'[to] = bal[to] + n
        /\ \A x \in Accounts : x # a /\ x # to => bal'[x] = bal[x]
    BY <1>1, <1>2
  <1>4. \A x \in Accounts : tot[x] <= bal'[x]
    <2>. SUFFICES ASSUME NEW x \in Accounts
                  PROVE  tot[x] <= bal'[x]
      OBVIOUS
    <2>1. tot[x] \in Nat /\ bal[x] \in Nat /\ tot[x] <= bal[x] /\ bal[to] \in Nat
      BY <1>1 DEF TokensInv, PowerOK
    <2>2. CASE x = a
      BY <1>2, <1>3, <2>2
    <2>3. CASE x = to
      BY <1>3, <2>1, <2>3
    <2>. QED
      BY <1>3, <2>1, <2>2, <2>3
  <1>5. Total(Holdings') = Total(Holdings)
    <2>. DEFINE f == Holdings
                g == Holdings'
    <2>1. f \in [Accounts -> Nat] /\ g \in [Accounts -> Nat]
      BY <1>1, <1>3 DEF Holdings
    <2>2. g[a] + g[to] = f[a] + f[to]
      BY <1>1, <1>2, <1>3 DEF Holdings
    <2>3. \A z \in Accounts : z # a /\ z # to => g[z] = f[z]
      BY <1>3 DEF Holdings
    <2>. HIDE DEF f, g
    <2>4. Total(g) = Total(f)
      BY <2>1, <2>2, <2>3, TotalMoved
    <2>. QED
      BY <2>4 DEF f, g
  <1>. QED
    BY <1>1, <1>3, <1>4, <1>5, MovedHoldings

\* Wrapping and unwrapping: what one of an account's balances loses the other gains.
LEMMA Rewrapped ==
    ASSUME TokensInv, tok # Void, NEW a \in Accounts, UNCHANGED <<tok, allow, deleg, tot>>,
           NEW b \in Nat, NEW w \in Nat, b + w = bal[a] + wrapped[a], tot[a] <= b,
           bal' = [bal EXCEPT ![a] = b], wrapped' = [wrapped EXCEPT ![a] = w]
    PROVE  LedgerOK' /\ PowerOK'
  <1>1. /\ bal \in [Accounts -> Nat] /\ wrapped \in [Accounts -> Nat] /\ allow \in [Accounts \X Accounts -> Nat]
        /\ \A x \in Accounts : tot[x] <= bal[x]
    BY DEF TokensInv, LedgerOK, PowerOK
  <1>2. bal' \in [Accounts -> Nat] /\ wrapped' \in [Accounts -> Nat] /\ \A x \in Accounts : tot[x] <= bal'[x]
    BY <1>1
  <1>3. Holdings' = Holdings
    <2>1. \A x \in Accounts : bal'[x] + wrapped'[x] = bal[x] + wrapped[x]
      BY <1>1
    <2>. QED
      BY <2>1 DEF Holdings
  <1>. QED
    BY <1>1, <1>2, <1>3, MovedHoldings

LEMMA WrapTokenKeeps ==
    ASSUME TokensInv, NEW a \in Accounts, NEW n \in Nat, Tok!WrapToken(a, n)
    PROVE  LedgerOK' /\ PowerOK'
  <1>1. /\ tok # Void /\ Tok!Undelegated(a) >= n /\ bal' = [bal EXCEPT ![a] = bal[a] - n]
        /\ wrapped' = [wrapped EXCEPT ![a] = wrapped[a] + n] /\ UNCHANGED <<tok, allow, deleg, tot>>
        /\ wrapped[a] \in Nat
    BY DEF Tok!WrapToken, Tok!Live, TokensInv, LedgerOK
  <1>2. bal[a] \in Nat /\ tot[a] \in Nat /\ n <= bal[a] - tot[a] /\ bal[a] - n \in Nat
    BY <1>1, Spendable
  <1>. DEFINE b == bal[a] - n
              w == wrapped[a] + n
  <1>3. b \in Nat /\ w \in Nat /\ b + w = bal[a] + wrapped[a] /\ tot[a] <= b
    BY <1>1, <1>2
  <1>. QED
    BY <1>1, <1>3, Rewrapped

LEMMA UnwrapTokenKeeps ==
    ASSUME TokensInv, NEW a \in Accounts, NEW n \in Nat, Tok!UnwrapToken(a, n)
    PROVE  LedgerOK' /\ PowerOK'
  <1>1. /\ tok # Void /\ wrapped[a] >= n /\ bal' = [bal EXCEPT ![a] = bal[a] + n]
        /\ wrapped' = [wrapped EXCEPT ![a] = wrapped[a] - n] /\ UNCHANGED <<tok, allow, deleg, tot>>
        /\ wrapped[a] \in Nat /\ bal[a] \in Nat /\ tot[a] \in Nat /\ tot[a] <= bal[a]
    BY DEF Tok!UnwrapToken, Tok!Live, TokensInv, LedgerOK, PowerOK
  <1>. DEFINE b == bal[a] + n
              w == wrapped[a] - n
  <1>2. b \in Nat /\ w \in Nat /\ b + w = bal[a] + wrapped[a] /\ tot[a] <= b
    BY <1>1
  <1>. QED
    BY <1>1, <1>2, Rewrapped

LEMMA BankSendKeeps ==
    ASSUME TokenAssumptions, TokensInv, NEW a \in Accounts, NEW to \in Accounts, NEW n \in Nat, Tok!BankSend(a, to, n)
    PROVE  LedgerOK' /\ PowerOK'
  <1>. USE TokenParameters
  <1>1. /\ a # to /\ wrapped[a] >= n /\ wrapped' = [wrapped EXCEPT ![a] = @ - n, ![to] = @ + n]
        /\ UNCHANGED <<tok, bal, allow, deleg, tot>>
        /\ bal \in [Accounts -> Nat] /\ wrapped \in [Accounts -> Nat] /\ allow \in [Accounts \X Accounts -> Nat]
        /\ \A x \in Accounts : tot[x] <= bal[x]
    BY DEF Tok!BankSend, TokensInv, LedgerOK, PowerOK
  <1>2. /\ wrapped' \in [Accounts -> Nat] /\ wrapped'[a] = wrapped[a] - n /\ wrapped'[to] = wrapped[to] + n
        /\ \A x \in Accounts : x # a /\ x # to => wrapped'[x] = wrapped[x]
    BY <1>1
  <1>3. Total(Holdings') = Total(Holdings)
    <2>. DEFINE f == Holdings
                g == Holdings'
    <2>1. f \in [Accounts -> Nat] /\ g \in [Accounts -> Nat]
      BY <1>1, <1>2 DEF Holdings
    <2>2. g[a] + g[to] = f[a] + f[to]
      BY <1>1, <1>2 DEF Holdings
    <2>3. \A z \in Accounts : z # a /\ z # to => g[z] = f[z]
      BY <1>1, <1>2 DEF Holdings
    <2>. HIDE DEF f, g
    <2>4. a # to /\ IsFiniteSet(Accounts)
      BY <1>1
    <2>5. Total(g) = Total(f)
      BY <2>1, <2>2, <2>3, <2>4, TotalMoved
    <2>. QED
      BY <2>5 DEF f, g
  <1>4. tok = Void => \A x \in Accounts : bal'[x] = 0 /\ wrapped'[x] = 0
    <2>. SUFFICES ASSUME tok = Void, NEW x \in Accounts
                  PROVE  bal'[x] = 0 /\ wrapped'[x] = 0
      OBVIOUS
    <2>1. bal[x] = 0 /\ wrapped[x] = 0 /\ wrapped[a] = 0 /\ wrapped[to] = 0
      BY DEF TokensInv, LedgerOK
    <2>. QED
      BY <1>1, <1>2, <2>1
  <1>. QED
    BY <1>1, <1>2, <1>3, <1>4, MovedHoldings

\* Delegations: d becomes the power of a at to.
LEMMA Redelegated ==
    ASSUME TokenAssumptions, TokensInv, NEW a \in Accounts, NEW to \in Accounts, NEW d \in Nat,
           tot[a] + d - deleg[<<a, to>>] <= bal[a],
           deleg' = [deleg EXCEPT ![<<a, to>>] = d],
           tot' = [tot EXCEPT ![a] = tot[a] + d - deleg[<<a, to>>]],
           UNCHANGED <<tok, bal, allow, wrapped>>
    PROVE  LedgerOK' /\ PowerOK'
  <1>. USE TokenParameters
  <1>1. /\ bal \in [Accounts -> Nat] /\ tot \in [Accounts -> Nat] /\ deleg \in [Accounts \X Accounts -> Nat]
        /\ <<a, to>> \in Accounts \X Accounts
    BY DEF TokensInv, LedgerOK
  <1>2. deleg' \in [Accounts \X Accounts -> Nat]
    BY <1>1
  <1>3. \A x, y \in Accounts : deleg'[<<x, y>>] = IF x = a /\ y = to THEN d ELSE deleg[<<x, y>>]
    BY <1>1
  <1>4. tot'[a] \in Nat /\ tot'[a] = Total(Power(a)')
    <2>. DEFINE f == Power(a)
                g == Power(a)'
    <2>1. f \in [Accounts -> Nat] /\ g \in [Accounts -> Nat] /\ g[to] = d /\ f[to] = deleg[<<a, to>>] /\ \A y \in Accounts : y # to => g[y] = f[y]
      <3>1. \A y \in Accounts : deleg[<<a, y>>] \in Nat /\ deleg'[<<a, y>>] \in Nat
        BY <1>1, <1>2
      <3>. QED
        BY <1>3, <3>1 DEF Power
    <2>2. tot[a] = Total(f) /\ tot'[a] = tot[a] + d - deleg[<<a, to>>]
      BY <1>1 DEF TokensInv, PowerOK
    <2>. HIDE DEF f, g
    <2>3. Total(g) = Total(f) - f[to] + g[to] /\ Total(f) \in Nat /\ Total(g) \in Nat /\ f[to] \in Nat
      BY <2>1, TotalUpdate
    <2>4. tot'[a] = Total(g)
      BY <2>1, <2>2, <2>3
    <2>. QED
      BY <2>3, <2>4 DEF g
  <1>5. tot' \in [Accounts -> Nat] /\ \A x \in Accounts : x # a => tot'[x] = tot[x]
    <2>. DEFINE m == tot[a] + d - deleg[<<a, to>>]
    <2>1. m \in Nat
      BY <1>1, <1>4
    <2>. HIDE DEF m
    <2>. QED
      BY <1>1, <2>1 DEF m
  <1>6. LedgerOK'
    <2>1. Holdings' = Holdings
      BY DEF Holdings
    <2>. QED
      BY <1>2, <1>5, <2>1 DEF TokensInv, LedgerOK
  <1>7. PowerOK'
    <2>. SUFFICES ASSUME NEW x \in Accounts
                  PROVE  tot'[x] = Total(Power(x)') /\ tot'[x] <= bal[x]
      BY DEF PowerOK
    <2>1. CASE x = a
      BY <1>1, <1>4, <2>1
    <2>2. CASE x # a
      <3>1. Power(x)' = Power(x)
        BY <1>3, <2>2 DEF Power
      <3>. QED
        BY <1>5, <2>2, <3>1 DEF TokensInv, PowerOK
    <2>. QED
      BY <2>1, <2>2
  <1>. QED
    BY <1>6, <1>7

LEMMA DelegatePowerKeeps ==
    ASSUME TokenAssumptions, TokensInv, NEW a \in Accounts, NEW to \in Accounts, NEW n \in Nat, Tok!DelegatePower(a, to, n)
    PROVE  LedgerOK' /\ PowerOK'
  <1>1. /\ bal[a] \in Nat /\ tot[a] \in Nat /\ tot[a] <= bal[a] /\ deleg[<<a, to>>] \in Nat /\ tot \in [Accounts -> Nat]
    BY DEF TokensInv, LedgerOK, PowerOK
  <1>2. /\ deleg' = [deleg EXCEPT ![<<a, to>>] = n] /\ tot' = [tot EXCEPT ![a] = tot[a] + n - deleg[<<a, to>>]]
        /\ Tok!Undelegated(a) >= n - deleg[<<a, to>>] /\ UNCHANGED <<tok, bal, allow, wrapped>>
    BY <1>1 DEF Tok!DelegatePower
  <1>3. tot[a] + n - deleg[<<a, to>>] <= bal[a]
    BY <1>1, <1>2 DEF Tok!Undelegated
  <1>. QED
    BY <1>2, <1>3, Redelegated

LEMMA UndelegatePowerKeeps ==
    ASSUME TokenAssumptions, TokensInv, NEW a \in Accounts, NEW to \in Accounts, NEW n \in Nat, Tok!UndelegatePower(a, to, n)
    PROVE  LedgerOK' /\ PowerOK'
  <1>. DEFINE d == deleg[<<a, to>>] - n
  <1>1. /\ bal[a] \in Nat /\ tot[a] \in Nat /\ tot[a] <= bal[a] /\ deleg[<<a, to>>] \in Nat
        /\ tot \in [Accounts -> Nat] /\ deleg \in [Accounts \X Accounts -> Nat] /\ <<a, to>> \in Accounts \X Accounts
    BY DEF TokensInv, LedgerOK, PowerOK
  <1>2. /\ deleg[<<a, to>>] >= n /\ deleg' = [deleg EXCEPT ![<<a, to>>] = d] /\ tot' = [tot EXCEPT ![a] = tot[a] - n]
        /\ UNCHANGED <<tok, bal, allow, wrapped>>
    BY <1>1 DEF Tok!UndelegatePower
  <1>3. d \in Nat /\ tot[a] - n = tot[a] + d - deleg[<<a, to>>] /\ tot[a] - n <= bal[a]
    BY <1>1, <1>2
  <1>. HIDE DEF d
  <1>. QED
    BY <1>2, <1>3, Redelegated

-----------------------------------------------------------------------------
(* Tokens: emission *)

\* What the blocks of a range that have begun allow grows with the height, and
\* within the range by one each block.
LEMMA BegunGrows ==
    ASSUME TokenAssumptions, NEW r \in Ranges, r[1] < r[2], NEW h \in Nat
    PROVE  /\ Begun(r, h) \in Nat /\ Begun(r, h + 1) \in Nat
           /\ Begun(r, h) <= Begun(r, h + 1) /\ Begun(r, h) <= r[2] - r[1] + 1
           /\ r[1] <= h + 1 /\ h + 1 <= r[2] => Begun(r, h + 1) = Begun(r, h) + 1
  BY TokenParameters DEF Begun

\* A product grows with its second factor.
LEMMA TimesGrows ==
    ASSUME NEW k \in Nat, NEW x \in Nat, NEW y \in Nat, x <= y
    PROVE  k * x \in Nat /\ k * y \in Nat /\ k * x <= k * y /\ k * (x + 1) = k * x + k
  <1>1. k * (y - x) \in Nat /\ k * (y - x) = k * y - k * x /\ k * x \in Nat /\ k * y \in Nat
    OBVIOUS
  <1>2. k * (x + 1) = k * x + k
    OBVIOUS
  <1>. QED
    BY <1>1, <1>2

\* A period that was sound is sound a block later.
LEMMA PeriodAges ==
    ASSUME TokenAssumptions, NEW r \in Ranges, NEW h \in Nat, NEW p, PeriodOK(p, r, h)
    PROVE  PeriodOK(p, r, h + 1)
  <1>. DEFINE k == p.rate
              x == Begun(r, h)
              y == Begun(r, h + 1)
  <1>1. k \in Nat /\ x \in Nat /\ y \in Nat /\ x <= y /\ p.emitted \in Nat /\ p.emitted <= k * x
    BY BegunGrows, TokenParameters DEF PeriodOK
  <1>. HIDE DEF k, x, y
  <1>2. p.emitted <= k * y
    BY <1>1, TimesGrows
  <1>. QED
    BY <1>2 DEF PeriodOK, k, y

\* One period at its block: what it mints is accounted for, and stays within
\* what its begun blocks allow.
LEMMA EmitKeeps ==
    ASSUME TokenAssumptions, NEW h \in Nat, NEW s, NEW r \in DOMAIN s.periods, r \in Ranges,
           s = [supply |-> s.supply, got |-> s.got, periods |-> s.periods],
           s.periods = [x \in DOMAIN s.periods |-> s.periods[x]],
           MintedOK(s.supply, s.got), PeriodOK(s.periods[r], r, h)
    PROVE  LET d == Tok!Emit(s, r, h + 1)
           IN  /\ d = [supply |-> d.supply, got |-> d.got, periods |-> d.periods]
               /\ DOMAIN d.periods = DOMAIN s.periods
               /\ d.periods = [x \in DOMAIN d.periods |-> d.periods[x]]
               /\ \A x \in DOMAIN s.periods : x # r => d.periods[x] = s.periods[x]
               /\ MintedOK(d.supply, d.got) /\ PeriodOK(d.periods[r], r, h + 1)
  <1>. USE TokenParameters
  <1>. DEFINE d == Tok!Emit(s, r, h + 1)
              p == s.periods[r]
              minted == Tok!MintWithCap(s.supply, p.rate)
              Goal == /\ d = [supply |-> d.supply, got |-> d.got, periods |-> d.periods]
                      /\ DOMAIN d.periods = DOMAIN s.periods
                      /\ d.periods = [x \in DOMAIN d.periods |-> d.periods[x]]
                      /\ \A x \in DOMAIN s.periods : x # r => d.periods[x] = s.periods[x]
                      /\ MintedOK(d.supply, d.got) /\ PeriodOK(d.periods[r], r, h + 1)
  <1>. SUFFICES Goal
    OBVIOUS
  <1>1. PeriodOK(p, r, h + 1)
    BY PeriodAges
  <1>2. /\ p \in [rate : Rates, to : Accounts, active : BOOLEAN, emitted : Nat]
        /\ r[1] < r[2] /\ p.rate \in Nat /\ p.emitted \in Nat /\ p.to \in Accounts /\ p.emitted <= p.rate * Begun(r, h)
    BY DEF PeriodOK
  <1>3. CASE d = s
    BY <1>1, <1>3
  <1>4. CASE p.active /\ ~(h + 1 < r[1]) /\ Tok!Ends(r, h + 1)
    <2>. DEFINE q == [p EXCEPT !.active = FALSE]
    <2>1. d = [s EXCEPT !.periods[r].active = FALSE]
      BY <1>4 DEF Tok!Emit
    <2>2. d = [supply |-> s.supply, got |-> s.got, periods |-> [s.periods EXCEPT ![r] = q]]
      BY <2>1
    <2>3. q \in [rate : Rates, to : Accounts, active : BOOLEAN, emitted : Nat] /\ q.rate = p.rate /\ q.emitted = p.emitted
      <3>. HIDE DEF p
      <3>. QED
        BY <1>2
    <2>. HIDE DEF q, d
    <2>4. PeriodOK(q, r, h + 1)
      BY <1>1, <2>3 DEF PeriodOK
    <2>. QED
      BY <2>2, <2>4
  <1>5. CASE p.active /\ ~(h + 1 < r[1]) /\ ~Tok!Ends(r, h + 1) /\ ~(minted = 0 \/ p.to \in Blocked)
    <2>. DEFINE q == [p EXCEPT !.emitted = @ + minted]
                paid == [s.got EXCEPT ![p.to] = @ + minted]
    <2>1. d = [supply |-> s.supply + minted, got |-> paid, periods |-> [s.periods EXCEPT ![r].emitted = @ + minted]]
      BY <1>5 DEF Tok!Emit
    <2>2. d = [supply |-> s.supply + minted, got |-> paid, periods |-> [s.periods EXCEPT ![r] = q]]
      BY <2>1
    <2>3. minted \in Nat /\ minted <= p.rate /\ s.supply + minted \in Nat /\ s.supply + minted <= MaxSupply
      BY <1>2 DEF Tok!MintWithCap, MintedOK
    <2>. HIDE DEF minted
    <2>4. q \in [rate : Rates, to : Accounts, active : BOOLEAN, emitted : Nat] /\ q.rate = p.rate /\ q.emitted = p.emitted + minted
      <3>. HIDE DEF p
      <3>. QED
        BY <1>2, <2>3
    <2>5. r[1] <= h + 1 /\ h + 1 <= r[2]
      BY <1>5 DEF Tok!Ends
    <2>6. PeriodOK(q, r, h + 1)
      <3>. DEFINE k == p.rate
                  x == Begun(r, h)
                  e == p.emitted
      <3>1. x \in Nat /\ Begun(r, h + 1) = x + 1
        BY <1>2, <2>5, BegunGrows
      <3>2. k \in Nat /\ e \in Nat /\ e <= k * x /\ minted <= k
        BY <1>2, <2>3
      <3>. HIDE DEF k, x, e
      <3>3. k * x \in Nat /\ k * (x + 1) = k * x + k
        BY <3>1, <3>2, TimesGrows
      <3>4. e + minted <= k * (x + 1)
        BY <2>3, <3>2, <3>3
      <3>. QED
        BY <1>2, <2>4, <3>1, <3>4 DEF PeriodOK, k, e
    <2>7. MintedOK(s.supply + minted, paid)
      <3>. DEFINE f == s.got
                  a == p.to
      <3>1. f \in [Accounts -> Nat] /\ a \in Accounts /\ s.supply \in Nat /\ s.supply = StartSupply + Total(f)
        BY <1>2 DEF MintedOK
      <3>2. paid = [f EXCEPT ![a] = f[a] + minted]
        OBVIOUS
      <3>. HIDE DEF f, a, paid
      <3>3. f[a] \in Nat
        BY <3>1
      <3>4. paid \in [Accounts -> Nat] /\ paid[a] = f[a] + minted /\ \A x \in Accounts : x # a => paid[x] = f[x]
        BY <2>3, <3>1, <3>2
      <3>5. Total(paid) = Total(f) - f[a] + paid[a] /\ Total(f) \in Nat
        BY <3>1, <3>4, TotalUpdate
      <3>. QED
        BY <2>3, <3>1, <3>3, <3>4, <3>5 DEF MintedOK
    <2>. HIDE DEF q, d, paid
    <2>. QED
      BY <2>2, <2>6, <2>7
  <1>6. d = s \/ (p.active /\ ~(h + 1 < r[1]) /\ (Tok!Ends(r, h + 1) \/ ~(minted = 0 \/ p.to \in Blocked)))
    BY DEF Tok!Emit
  <1>. QED
    BY <1>3, <1>4, <1>5, <1>6

\* The periods of a block are gone through one by one: by the least number of
\* periods for which this would fail.
LEMMA AfterSteps ==
    ASSUME NEW order, NEW h, Len(order) \in Nat
    PROVE  LET s == Tok!After(order, h)
           IN  /\ s[0] = [supply |-> tokSupply, got |-> got, periods |-> periods]
               /\ \A n \in 1 .. Len(order) : s[n] = Tok!Emit(s[n - 1], order[n], h)
  <1>. DEFINE N == Len(order)
              now == [supply |-> tokSupply, got |-> got, periods |-> periods]
              Walk(f, m) == f = [n \in 0 .. m |-> IF n = 0 THEN now ELSE Tok!Emit(f[n - 1], order[n], h)]
              Bad == {m \in Nat : m <= N /\ ~\E f : Walk(f, m)}
  <1>1. Bad = {}
    <2>. SUFFICES ASSUME Bad # {} PROVE FALSE
      OBVIOUS
    <2>1. Bad \in SUBSET Nat
      OBVIOUS
    <2>2. PICK m \in Bad : \A y \in Bad : m <= y
      <3>. HIDE DEF Bad
      <3>. QED
        BY <2>1, LeastNumber
    <2>3. m \in Nat /\ m <= N /\ ~\E f : Walk(f, m)
      OBVIOUS
    <2>4. CASE m = 0
      <3>. DEFINE f == [n \in 0 .. m |-> now]
      <3>. HIDE DEF now
      <3>1. Walk(f, m)
        BY <2>4
      <3>. QED
        BY <2>3, <3>1
    <2>5. CASE m # 0
      <3>1. m - 1 \in Nat /\ m - 1 <= N /\ m - 1 \notin Bad
        <4>1. N \in Nat
          OBVIOUS
        <4>. HIDE DEF N, Bad
        <4>2. m - 1 \in Nat /\ m - 1 <= N /\ ~(m <= m - 1)
          BY <2>3, <2>5, <4>1
        <4>. QED
          BY <2>2, <4>2
      <3>2. PICK f : Walk(f, m - 1)
        <4>. HIDE DEF Walk, N
        <4>. QED
          BY <3>1
      <3>. DEFINE g == [n \in 0 .. m |-> IF n = m THEN Tok!Emit(f[m - 1], order[m], h) ELSE f[n]]
      <3>. HIDE DEF now
      <3>3. ASSUME NEW n \in 0 .. m
            PROVE  g[n] = IF n = 0 THEN now ELSE Tok!Emit(g[n - 1], order[n], h)
        <4>1. CASE n = 0
          <5>1. n # m /\ n \in 0 .. (m - 1)
            BY <2>3, <2>5, <4>1
          <5>2. f[n] = now
            BY <3>2, <4>1, <5>1
          <5>. QED
            BY <4>1, <5>1, <5>2
        <4>2. CASE n # 0 /\ n # m
          <5>1. n \in 0 .. (m - 1) /\ n - 1 \in 0 .. m /\ n - 1 # m
            BY <2>3, <4>2
          <5>2. f[n] = Tok!Emit(f[n - 1], order[n], h)
            BY <3>2, <4>2, <5>1
          <5>3. g[n - 1] = f[n - 1] /\ g[n] = f[n]
            BY <4>2, <5>1
          <5>. QED
            BY <4>2, <5>2, <5>3
        <4>3. CASE n # 0 /\ n = m
          <5>1. m - 1 \in 0 .. m /\ m - 1 # m
            BY <2>3, <2>5
          <5>2. g[m - 1] = f[m - 1]
            BY <5>1
          <5>. QED
            BY <4>3, <5>2
        <4>. QED
          BY <4>1, <4>2, <4>3
      <3>4. g = [n \in 0 .. m |-> g[n]]
        OBVIOUS
      <3>. HIDE DEF g
      <3>5. g = [n \in 0 .. m |-> IF n = 0 THEN now ELSE Tok!Emit(g[n - 1], order[n], h)]
        BY <3>3, <3>4
      <3>. QED
        BY <2>3, <3>5
    <2>. QED
      BY <2>4, <2>5
  <1>2. \E f : Walk(f, N)
    BY <1>1
  <1>3. Walk(Tok!After(order, h), N)
    <2>1. Tok!After(order, h) = CHOOSE f : Walk(f, N)
      BY DEF Tok!After
    <2>. HIDE DEF Walk
    <2>. QED
      BY <1>2, <2>1, Zenon
  <1>. DEFINE s == Tok!After(order, h)
  <1>. HIDE DEF s, now
  <1>4. s = [n \in 0 .. N |-> IF n = 0 THEN now ELSE Tok!Emit(s[n - 1], order[n], h)]
    BY <1>3 DEF s
  <1>5. \A n \in 0 .. N : s[n] = IF n = 0 THEN now ELSE Tok!Emit(s[n - 1], order[n], h)
    <2>. DEFINE E(n) == IF n = 0 THEN now ELSE Tok!Emit(s[n - 1], order[n], h)
    <2>1. s = [n \in 0 .. N |-> E(n)]
      BY <1>4
    <2>. HIDE DEF E
    <2>2. \A n \in 0 .. N : s[n] = E(n)
      BY <2>1
    <2>. QED
      BY <2>2 DEF E
  <1>. QED
    BY <1>5 DEF s, now

\* However the periods are ordered, a block leaves each of them and the minted
\* coins sound.
LEMMA AfterKeeps ==
    ASSUME TokenAssumptions, TokensInv, NEW order \in Tok!SetToSeqs(DOMAIN periods), NEW k \in {0, Len(order)}
    PROVE  LET d == Tok!After(order, height + 1)[k]
           IN  PeriodsOK(d.periods, height + 1) /\ MintedOK(d.supply, d.got)
  <1>. USE TokenParameters
  <1>. DEFINE D == DOMAIN periods
              s == Tok!After(order, height + 1)
              N == Len(order)
  <1>1. /\ D \subseteq Ranges /\ periods = [r \in D |-> periods[r]] /\ \A r \in D : PeriodOK(periods[r], r, height)
        /\ MintedOK(tokSupply, got) /\ height \in Nat
    BY DEF TokensInv, EmissionOK, PeriodsOK
  <1>2. N \in Nat /\ order \in [1 .. N -> D] /\ \A i, j \in 1 .. N : i # j => order[i] # order[j]
    <2>. DEFINE c == Cardinality(D)
    <2>1. c \in Nat
      BY <1>1, FS_Subset, FS_CardinalityType
    <2>. HIDE DEF D, c
    <2>2. order \in [1 .. c -> D] /\ \A i, j \in 1 .. c : i # j => order[i] # order[j]
      BY TokenCounts, Zenon DEF Tok!SetToSeqs, D, c
    <2>3. order \in Seq(D)
      BY <2>1, <2>2, SeqDef
    <2>4. N \in Nat /\ order \in [1 .. N -> D] /\ DOMAIN order = 1 .. N
      BY <2>3, LenProperties
    <2>5. 1 .. N = 1 .. c
      BY <2>2, <2>4
    <2>. QED
      BY <2>2, <2>4, <2>5 DEF D
  <1>3. /\ s[0] = [supply |-> tokSupply, got |-> got, periods |-> periods]
        /\ \A n \in 1 .. N : s[n] = Tok!Emit(s[n - 1], order[n], height + 1)
    BY <1>2, AfterSteps
  <1>. HIDE DEF s, D, N
  <1>. DEFINE Seen(n) == {order[i] : i \in 1 .. n}
              Good(n) == /\ s[n] = [supply |-> s[n].supply, got |-> s[n].got, periods |-> s[n].periods]
                         /\ DOMAIN s[n].periods = D /\ s[n].periods = [x \in DOMAIN s[n].periods |-> s[n].periods[x]]
                         /\ MintedOK(s[n].supply, s[n].got)
                         /\ \A x \in D : IF x \in Seen(n) THEN PeriodOK(s[n].periods[x], x, height + 1)
                                         ELSE s[n].periods[x] = periods[x]
  <1>4. Good(0)
    <2>1. /\ s[0].supply = tokSupply /\ s[0].got = got /\ s[0].periods = periods
      BY <1>3
    <2>2. Seen(0) = {}
      OBVIOUS
    <2>. HIDE DEF Seen
    <2>. QED
      BY <1>1, <1>3, <2>1, <2>2 DEF D
  <1>5. ASSUME NEW n \in Nat, n < N, Good(n)
        PROVE  Good(n + 1)
    <2>. DEFINE r == order[n + 1]
                st == s[n]
                d == s[n + 1]
    <2>1. n + 1 \in 1 .. N /\ r \in D /\ r \in Ranges /\ d = Tok!Emit(st, r, height + 1)
      <3>1. n + 1 \in 1 .. N /\ (n + 1) - 1 = n
        BY <1>2, <1>5
      <3>2. s[n + 1] = Tok!Emit(s[(n + 1) - 1], order[n + 1], height + 1)
        BY <1>3, <3>1
      <3>. QED
        BY <1>1, <1>2, <3>1, <3>2 DEF D
    <2>2. r \notin Seen(n) /\ Seen(n + 1) = Seen(n) \cup {r}
      <3>1. \A i \in 1 .. n : i \in 1 .. N /\ i # n + 1
        BY <1>2, <1>5
      <3>2. 1 .. (n + 1) = (1 .. n) \cup {n + 1}
        BY <1>5
      <3>. QED
        BY <1>2, <2>1, <3>1, <3>2
    <2>3. PeriodOK(st.periods[r], r, height)
      BY <1>1, <1>5, <2>1, <2>2 DEF D
    <2>4. /\ st = [supply |-> st.supply, got |-> st.got, periods |-> st.periods]
          /\ DOMAIN st.periods = D /\ st.periods = [x \in DOMAIN st.periods |-> st.periods[x]]
          /\ MintedOK(st.supply, st.got)
          /\ \A x \in D : IF x \in Seen(n) THEN PeriodOK(st.periods[x], x, height + 1) ELSE st.periods[x] = periods[x]
      BY <1>5
    <2>. HIDE DEF r, st, d, Seen
    <2>5. /\ d = [supply |-> d.supply, got |-> d.got, periods |-> d.periods]
          /\ DOMAIN d.periods = DOMAIN st.periods
          /\ d.periods = [x \in DOMAIN d.periods |-> d.periods[x]]
          /\ \A x \in DOMAIN st.periods : x # r => d.periods[x] = st.periods[x]
          /\ MintedOK(d.supply, d.got) /\ PeriodOK(d.periods[r], r, height + 1)
      BY <1>1, <2>1, <2>3, <2>4, EmitKeeps
    <2>6. ASSUME NEW x \in D
          PROVE  IF x \in Seen(n + 1) THEN PeriodOK(d.periods[x], x, height + 1) ELSE d.periods[x] = periods[x]
      BY <2>2, <2>4, <2>5
    <2>. QED
      BY <2>4, <2>5, <2>6 DEF d
  <1>6. \A n \in Nat : n <= N => Good(n)
    <2>. DEFINE Bad == {n \in Nat : n <= N /\ ~Good(n)}
    <2>. SUFFICES ASSUME Bad # {} PROVE FALSE
      OBVIOUS
    <2>. HIDE DEF Good
    <2>1. PICK m \in Bad : \A y \in Bad : m <= y
      <3>1. Bad \in SUBSET Nat
        OBVIOUS
      <3>. HIDE DEF Bad
      <3>. QED
        BY <3>1, LeastNumber
    <2>2. m \in Nat /\ m <= N /\ ~Good(m) /\ m # 0
      BY <1>4
    <2>3. m - 1 \in Nat /\ m - 1 < N /\ m - 1 \notin Bad
      BY <1>2, <2>1, <2>2
    <2>4. Good(m - 1)
      BY <1>2, <2>3
    <2>5. Good((m - 1) + 1)
      BY <1>5, <2>3, <2>4
    <2>. QED
      BY <2>2, <2>5
  <1>7. k \in Nat /\ k <= N
    <2>1. k = 0 \/ k = N
      BY DEF N
    <2>. QED
      BY <1>2, <2>1
  <1>8. Good(k)
    <2>. HIDE DEF Good
    <2>. QED
      BY <1>6, <1>7
  <1>. DEFINE e == s[k]
  <1>9. /\ DOMAIN e.periods = D /\ e.periods = [x \in DOMAIN e.periods |-> e.periods[x]] /\ MintedOK(e.supply, e.got)
        /\ \A x \in D : PeriodOK(e.periods[x], x, height + 1) \/ e.periods[x] = periods[x]
    BY <1>8
  <1>. HIDE DEF e
  <1>10. \A x \in D : PeriodOK(e.periods[x], x, height + 1)
    BY <1>1, <1>9, PeriodAges DEF D
  <1>11. PeriodsOK(e.periods, height + 1)
    BY <1>1, <1>9, <1>10 DEF PeriodsOK, D
  <1>. QED
    BY <1>9, <1>11 DEF e, s

\* A block pays the periods in some order and leaves the token alone.
LEMMA TokenBlockKeeps ==
    ASSUME TokenAssumptions, TokensInv, Tok!NextBlock
    PROVE  TokensInv'
  <1>1. height \in Nat /\ height' = height + 1 /\ UNCHANGED <<tok, bal, allow, deleg, tot, wrapped>>
    BY DEF Tok!NextBlock, TokensInv
  <1>2. PICK order \in Tok!SetToSeqs(DOMAIN periods) :
          LET done == Tok!After(order, height + 1)[IF latch THEN Len(order) ELSE 0]
          IN  tokSupply' = done.supply /\ got' = done.got /\ periods' = done.periods
    BY DEF Tok!NextBlock
  <1>. DEFINE k == IF latch THEN Len(order) ELSE 0
              d == Tok!After(order, height + 1)[k]
  <1>3. k \in {0, Len(order)}
    OBVIOUS
  <1>4. PeriodsOK(d.periods, height + 1) /\ MintedOK(d.supply, d.got)
    <2>. HIDE DEF k
    <2>. QED
      BY <1>3, AfterKeeps
  <1>5. tokSupply' = d.supply /\ got' = d.got /\ periods' = d.periods
    BY <1>2
  <1>. HIDE DEF d
  <1>6. PeriodsOK(periods', height') /\ MintedOK(tokSupply', got')
    BY <1>1, <1>4, <1>5
  <1>7. EmissionOK'
    BY <1>6 DEF EmissionOK, PeriodsOK, PeriodOK, MintedOK
  <1>8. allow' \in [Accounts \X Accounts -> Nat]
    BY <1>1 DEF TokensInv, LedgerOK
  <1>9. LedgerOK' /\ PowerOK'
    BY <1>1, <1>8, SameLedger
  <1>. QED
    BY <1>1, <1>7, <1>9 DEF TokensInv

\* A changed period is sound when it is sound on its own; nothing else of the
\* emission moves.
LEMMA PeriodChanged ==
    ASSUME TokensInv, UNCHANGED <<tok, bal, allow, deleg, tot, wrapped, tokSupply, got, height>>,
           NEW r \in Ranges, NEW p, PeriodOK(p, r, height),
           periods' = [x \in DOMAIN periods \cup {r} |-> IF x = r THEN p ELSE periods[x]]
    PROVE  TokensInv'
  <1>1. PeriodsOK(periods, height) /\ MintedOK(tokSupply, got) /\ allow' \in [Accounts \X Accounts -> Nat] /\ height \in Nat
    BY DEF TokensInv, EmissionOK, LedgerOK
  <1>2. PeriodsOK(periods', height)
    <2>. DEFINE D == DOMAIN periods \cup {r}
    <2>1. DOMAIN periods' = D /\ D \subseteq Ranges
      BY <1>1 DEF PeriodsOK
    <2>2. \A x \in D : periods'[x] = IF x = r THEN p ELSE periods[x]
      OBVIOUS
    <2>3. \A x \in D : PeriodOK(periods'[x], x, height)
      BY <1>1, <2>2 DEF PeriodsOK
    <2>4. periods' = [x \in D |-> periods'[x]]
      OBVIOUS
    <2>. HIDE DEF D
    <2>. QED
      BY <2>1, <2>3, <2>4 DEF PeriodsOK
  <1>3. EmissionOK'
    BY <1>1, <1>2 DEF EmissionOK, PeriodsOK, PeriodOK, MintedOK
  <1>4. LedgerOK' /\ PowerOK'
    BY <1>1, SameLedger
  <1>. QED
    BY <1>1, <1>3, <1>4 DEF TokensInv

LEMMA CreateEmissionPeriodKeeps ==
    ASSUME TokenAssumptions, TokensInv, NEW r \in Ranges, NEW rate \in Rates, NEW to \in Accounts,
           Tok!CreateEmissionPeriod(r, rate, to)
    PROVE  TokensInv'
  <1>. USE TokenParameters
  <1>. DEFINE p == [rate |-> rate, to |-> to, active |-> TRUE, emitted |-> 0]
  <1>1. r[1] < r[2] /\ height \in Nat
    BY DEF Tok!CreateEmissionPeriod, TokensInv
  <1>2. p \in [rate : Rates, to : Accounts, active : BOOLEAN, emitted : Nat] /\ p.emitted = 0 /\ p.rate = rate
    OBVIOUS
  <1>3. periods' = [x \in DOMAIN periods \cup {r} |-> IF x = r THEN p ELSE periods[x]]
    BY DEF Tok!CreateEmissionPeriod
  <1>. HIDE DEF p
  <1>4. PeriodOK(p, r, height)
    <2>. DEFINE k == p.rate
                x == Begun(r, height)
    <2>1. k \in Nat /\ x \in Nat
      BY <1>1, <1>2, BegunGrows
    <2>. HIDE DEF k, x
    <2>2. 0 <= k * x
      BY <2>1, TimesGrows
    <2>. QED
      BY <1>1, <1>2, <2>2 DEF PeriodOK, k, x
  <1>. QED
    BY <1>3, <1>4, PeriodChanged DEF Tok!CreateEmissionPeriod

LEMMA CancelEmissionPeriodKeeps ==
    ASSUME TokenAssumptions, TokensInv, NEW r \in DOMAIN periods, Tok!CancelEmissionPeriod(r)
    PROVE  TokensInv'
  <1>. DEFINE p == periods[r]
              q == [p EXCEPT !.active = FALSE]
  <1>1. /\ r \in Ranges /\ periods = [x \in DOMAIN periods |-> periods[x]] /\ PeriodOK(p, r, height)
    BY DEF TokensInv, EmissionOK, PeriodsOK
  <1>2. periods' = [periods EXCEPT ![r] = q]
    BY <1>1 DEF Tok!CancelEmissionPeriod
  <1>3. q \in [rate : Rates, to : Accounts, active : BOOLEAN, emitted : Nat] /\ q.rate = p.rate /\ q.emitted = p.emitted
    <2>1. p \in [rate : Rates, to : Accounts, active : BOOLEAN, emitted : Nat]
      BY <1>1 DEF PeriodOK
    <2>. HIDE DEF p
    <2>. QED
      BY <2>1
  <1>. HIDE DEF p, q
  <1>4. PeriodOK(q, r, height)
    BY <1>1, <1>3 DEF PeriodOK
  <1>5. periods' = [x \in DOMAIN periods \cup {r} |-> IF x = r THEN q ELSE periods[x]]
    BY <1>1, <1>2
  <1>. QED
    BY <1>1, <1>4, <1>5, PeriodChanged DEF Tok!CancelEmissionPeriod

\* Pausing and unpausing touch no balance.
LEMMA SetPausedKeeps ==
    ASSUME TokenAssumptions, TokensInv, NEW who, NEW paused \in BOOLEAN, Tok!SetPaused(who, paused)
    PROVE  LedgerOK' /\ PowerOK' /\ tok'.supply = tok.supply
  <1>. USE TokenParameters
  <1>1. tok # Void /\ tok' = [tok EXCEPT !.paused = paused] /\ UNCHANGED <<bal, allow, deleg, tot, wrapped>>
    BY DEF Tok!SetPaused
  <1>2. tok \in Tok!Token
    BY <1>1 DEF TokensInv, LedgerOK
  <1>3. tok' \in Tok!Token /\ tok'.supply = tok.supply /\ tok'.max = tok.max
    BY <1>1, <1>2 DEF Tok!Token
  <1>4. Holdings' = Holdings /\ \A a \in Accounts : Power(a)' = Power(a)
    BY <1>1 DEF Holdings, Power
  <1>5. LedgerOK'
    <2>1. tok.supply = Total(Holdings) /\ (tok.max > 0 => tok.supply <= tok.max)
      BY <1>1 DEF TokensInv, LedgerOK
    <2>2. tok'.supply = Total(Holdings') /\ (tok'.max > 0 => tok'.supply <= tok'.max)
      BY <1>3, <1>4, <2>1
    <2>3. tok' # Void
      BY <1>1, <1>3
    <2>. QED
      BY <1>1, <1>3, <2>2, <2>3 DEF TokensInv, LedgerOK
  <1>6. PowerOK'
    BY <1>1, <1>4 DEF TokensInv, PowerOK
  <1>. QED
    BY <1>3, <1>5, <1>6

LEMMA ApproveTokenKeeps ==
    ASSUME TokensInv, NEW a \in Accounts, NEW spender \in Accounts, NEW n \in Nat, Tok!ApproveToken(a, spender, n)
    PROVE  LedgerOK' /\ PowerOK'
  <1>1. allow' \in [Accounts \X Accounts -> Nat]
    BY DEF Tok!ApproveToken, TokensInv, LedgerOK
  <1>. QED
    BY <1>1, SameLedger DEF Tok!ApproveToken

\* A transfer, of the own balance or from an allowance.
LEMMA TransferKeeps ==
    ASSUME TokenAssumptions, TokensInv, NEW a \in Accounts, NEW to \in Accounts, NEW n \in Nat,
           Tok!TransferToken(a, to, n) \/ \E spender \in Accounts : Tok!TransferFrom(spender, a, to, n)
    PROVE  LedgerOK' /\ PowerOK'
  <1>1. allow' \in [Accounts \X Accounts -> Nat]
    <2>1. allow \in [Accounts \X Accounts -> Nat]
      BY DEF TokensInv, LedgerOK
    <2>2. ASSUME NEW spender \in Accounts, Tok!TransferFrom(spender, a, to, n)
          PROVE  allow' \in [Accounts \X Accounts -> Nat]
      <3>1. allow[<<a, spender>>] \in Nat /\ allow[<<a, spender>>] - n \in Nat
        BY <2>1, <2>2 DEF Tok!TransferFrom
      <3>. DEFINE m == allow[<<a, spender>>] - n
      <3>2. m \in Nat /\ allow' = [allow EXCEPT ![<<a, spender>>] = m]
        BY <2>2, <3>1 DEF Tok!TransferFrom
      <3>. HIDE DEF m
      <3>. QED
        BY <2>1, <3>2
    <2>. QED
      BY <2>1, <2>2 DEF Tok!TransferToken
  <1>2. /\ Tok!Live /\ a # to /\ Tok!Undelegated(a) >= n /\ bal' = [bal EXCEPT ![a] = @ - n, ![to] = @ + n]
        /\ UNCHANGED <<tok, deleg, tot, wrapped>>
    BY DEF Tok!TransferToken, Tok!TransferFrom
  <1>. QED
    BY <1>1, <1>2, Transferred

\* The invariant is kept by every step.
LEMMA TokensKept ==
    ASSUME TokenAssumptions, TokensInv, [Tok!Next]_(Tok!vars)
    PROVE  TokensInv'
  <1>. USE TokenParameters
  <1>. SUFFICES \/ TokensInv'
                \/ LedgerOK' /\ PowerOK' /\ UNCHANGED Tok!emission
    BY SameEmission DEF TokensInv
  <1>1. ASSUME NEW a \in Accounts, NEW f \in FeatureSets, NEW i \in Initials, NEW m \in Maxima, Tok!CreateToken(a, f, i, m)
        PROVE  LedgerOK' /\ PowerOK' /\ UNCHANGED Tok!emission
    <2>1. UNCHANGED Tok!emission
      BY <1>1 DEF Tok!CreateToken
    <2>. QED
      BY <1>1, <2>1, CreateTokenKeeps
  <1>2. ASSUME NEW who \in Accounts \cup {Gov}, NEW to \in Accounts, NEW n \in Amounts, Tok!MintToken(who, to, n)
        PROVE  LedgerOK' /\ PowerOK' /\ UNCHANGED Tok!emission
    <2>1. n \in Nat /\ UNCHANGED Tok!emission
      BY <1>2 DEF Tok!MintToken
    <2>. QED
      BY <1>2, <2>1, MintTokenKeeps
  <1>3. ASSUME NEW who \in Accounts \cup {Gov}, NEW paused \in BOOLEAN, Tok!SetPaused(who, paused)
        PROVE  LedgerOK' /\ PowerOK' /\ UNCHANGED Tok!emission
    <2>1. UNCHANGED Tok!emission
      BY <1>3 DEF Tok!SetPaused
    <2>. QED
      BY <1>3, <2>1, SetPausedKeeps
  <1>4. ASSUME NEW a \in Accounts, NEW n \in Amounts, Tok!BurnToken(a, n) \/ Tok!WrapToken(a, n) \/ Tok!UnwrapToken(a, n)
        PROVE  LedgerOK' /\ PowerOK' /\ UNCHANGED Tok!emission
    <2>1. n \in Nat
      OBVIOUS
    <2>2. UNCHANGED Tok!emission
      BY <1>4 DEF Tok!BurnToken, Tok!WrapToken, Tok!UnwrapToken
    <2>. QED
      BY <1>4, <2>1, <2>2, BurnTokenKeeps, WrapTokenKeeps, UnwrapTokenKeeps
  <1>5. ASSUME NEW a \in Accounts, NEW to \in Accounts, NEW n \in Amounts,
               Tok!TransferToken(a, to, n) \/ Tok!UndelegatePower(a, to, n) \/ Tok!BankSend(a, to, n)
        PROVE  LedgerOK' /\ PowerOK' /\ UNCHANGED Tok!emission
    <2>1. n \in Nat
      OBVIOUS
    <2>2. UNCHANGED Tok!emission
      BY <1>5 DEF Tok!TransferToken, Tok!UndelegatePower, Tok!BankSend
    <2>. QED
      BY <1>5, <2>1, <2>2, TransferKeeps, UndelegatePowerKeeps, BankSendKeeps
  <1>6. ASSUME NEW a \in Accounts, NEW to \in Accounts, NEW n \in Amounts \cup {0}, Tok!ApproveToken(a, to, n) \/ Tok!DelegatePower(a, to, n)
        PROVE  LedgerOK' /\ PowerOK' /\ UNCHANGED Tok!emission
    <2>1. n \in Nat
      OBVIOUS
    <2>2. UNCHANGED Tok!emission
      BY <1>6 DEF Tok!ApproveToken, Tok!DelegatePower
    <2>. QED
      BY <1>6, <2>1, <2>2, ApproveTokenKeeps, DelegatePowerKeeps
  <1>7. ASSUME NEW spender \in Accounts, NEW a \in Accounts, NEW to \in Accounts, NEW n \in Amounts, Tok!TransferFrom(spender, a, to, n)
        PROVE  LedgerOK' /\ PowerOK' /\ UNCHANGED Tok!emission
    <2>1. n \in Nat /\ UNCHANGED Tok!emission
      BY <1>7 DEF Tok!TransferFrom
    <2>. QED
      BY <1>7, <2>1, TransferKeeps
  <1>8. ASSUME NEW r \in Ranges, NEW rate \in Rates, NEW to \in Accounts, Tok!CreateEmissionPeriod(r, rate, to)
        PROVE  TokensInv'
    BY <1>8, CreateEmissionPeriodKeeps
  <1>9. ASSUME NEW r \in DOMAIN periods, Tok!CancelEmissionPeriod(r)
        PROVE  TokensInv'
    BY <1>9, CancelEmissionPeriodKeeps
  <1>10. ASSUME NEW on \in BOOLEAN, Tok!UpdateParams(on)
         PROVE  TokensInv'
    <2>1. UNCHANGED <<tok, bal, allow, deleg, tot, wrapped, periods, tokSupply, got, height>>
      BY <1>10 DEF Tok!UpdateParams
    <2>2. LedgerOK' /\ PowerOK'
      BY <2>1, SameLedger DEF TokensInv, LedgerOK
    <2>. QED
      BY <2>1, <2>2 DEF TokensInv, EmissionOK, PeriodsOK, PeriodOK, MintedOK
  <1>11. CASE Tok!NextBlock
    BY <1>11, TokenBlockKeeps
  <1>12. CASE UNCHANGED Tok!vars
    <2>1. UNCHANGED <<tok, bal, allow, deleg, tot, wrapped>> /\ UNCHANGED Tok!emission
      BY <1>12 DEF Tok!vars, Tok!emission
    <2>. QED
      BY <2>1, SameLedger DEF TokensInv, LedgerOK
  <1>. QED
    BY <1>1, <1>2, <1>3, <1>4, <1>5, <1>6, <1>7, <1>8, <1>9, <1>10, <1>11, <1>12 DEF Tok!Next

\* What the invariant means.
LEMMA TokensMeans ==
    ASSUME TokenAssumptions, TokensInv
    PROVE  Tok!TypeOK /\ Tok!SupplyAccounted /\ Tok!PowerBacked /\ Tok!NothingStranded /\ Tok!WithinSchedule
  <1>1. Tok!TypeOK
    BY DEF Tok!TypeOK, TokensInv, LedgerOK, EmissionOK, MintedOK, Tok!Token
  <1>2. Tok!SupplyAccounted
    BY TokenCounts DEF Tok!SupplyAccounted, TokensInv, LedgerOK, Holdings
  <1>3. Tok!PowerBacked
    BY TokenCounts DEF Tok!PowerBacked, TokensInv, PowerOK, Power
  <1>4. Tok!NothingStranded
    BY TokenCounts DEF Tok!NothingStranded, TokensInv, EmissionOK, MintedOK
  <1>5. Tok!WithinSchedule
    <2>. SUFFICES ASSUME NEW r \in DOMAIN periods
                  PROVE  periods[r].emitted <= periods[r].rate * (r[2] - r[1] + 1)
      BY DEF Tok!WithinSchedule
    <2>. DEFINE k == periods[r].rate
                x == Begun(r, height)
                y == r[2] - r[1] + 1
                e == periods[r].emitted
    <2>1. r \in Ranges /\ r[1] < r[2] /\ k \in Rates /\ e \in Nat /\ e <= k * x /\ height \in Nat
      BY DEF TokensInv, EmissionOK, PeriodsOK, PeriodOK
    <2>2. k \in Nat /\ x \in Nat /\ x <= y /\ y \in Nat
      BY <2>1, TokenParameters, BegunGrows
    <2>. HIDE DEF k, x, y, e
    <2>3. k * x <= k * y /\ k * x \in Nat /\ k * y \in Nat
      BY <2>2, TimesGrows
    <2>4. e <= k * y
      BY <2>1, <2>2, <2>3
    <2>. QED
      BY <2>4 DEF e, k, y
  <1>. QED
    BY <1>1, <1>2, <1>3, <1>4, <1>5

\* A paused token moves no balance and no supply.
LEMMA PauseFreezes ==
    ASSUME TokenAssumptions, TokensInv, [Tok!Next]_(Tok!vars)
    PROVE  Tok!PauseHolds
  <1>. USE TokenParameters
  <1>. SUFFICES ASSUME tok # Void, tok.paused
                PROVE  bal' = bal /\ tok'.supply = tok.supply
    BY DEF Tok!PauseHolds
  <1>1. ASSUME NEW who, NEW paused \in BOOLEAN, Tok!SetPaused(who, paused)
        PROVE  bal' = bal /\ tok'.supply = tok.supply
    BY <1>1, SetPausedKeeps DEF Tok!SetPaused
  <1>2. ~Tok!Live
    BY DEF Tok!Live
  <1>. QED
    BY <1>1, <1>2 DEF Tok!Next, Tok!vars, Tok!CreateToken, Tok!MintToken, Tok!BurnToken, Tok!WrapToken, Tok!UnwrapToken, Tok!TransferToken, Tok!UndelegatePower,
       Tok!BankSend, Tok!ApproveToken, Tok!DelegatePower, Tok!TransferFrom, Tok!CreateEmissionPeriod, Tok!CancelEmissionPeriod, Tok!UpdateParams, Tok!NextBlock

\* Whatever is minted, burned, spent, delegated, wrapped or paused, the recorded
\* supply of a token is what its holders have and within its maximum, and every
\* delegated power is backed by the balance of its account; a paused token moves
\* no balance. Whatever periods are created, cancelled, replaced or switched off,
\* and in whatever order a block pays them, emission stays under the cap of the
\* chain, is all in the accounts, and no period pays more than its range allows.
THEOREM TokensStayAccounted ==
    ASSUME TokenAssumptions
    PROVE  Tok!Spec => [](Tok!TypeOK /\ Tok!SupplyAccounted /\ Tok!PowerBacked /\ Tok!NothingStranded /\ Tok!WithinSchedule) /\ [][Tok!PauseHolds]_(Tok!vars)
  <1>1. Tok!Init => TokensInv
    BY TokensStart
  <1>2. TokensInv /\ [Tok!Next]_(Tok!vars) => TokensInv'
    BY TokensKept
  <1>3. TokensInv => Tok!TypeOK /\ Tok!SupplyAccounted /\ Tok!PowerBacked /\ Tok!NothingStranded /\ Tok!WithinSchedule
    BY TokensMeans
  <1>4. TokensInv /\ [Tok!Next]_(Tok!vars) => Tok!PauseHolds
    BY PauseFreezes
  <1>. QED
    BY <1>1, <1>2, <1>3, <1>4, PTL DEF Tok!Spec

===============================================================================
