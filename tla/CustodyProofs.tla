---------------------------- MODULE CustodyProofs ----------------------------
(* Proofs about training: the money of augmentations and challenges, for any *)
(* sponsors, verifiers, offers, weights and stakes; and the manifests of     *)
(* pipelines, for any facts, pipelines and depth of composition. Manifests   *)
(* are an instance: Manifests!TypeOK is the TypeOK of TrainingManifest.      *)
EXTENDS TrainingFund, TotalsProofs, FiniteSetTheorems, SequenceTheorems, WellFoundedInduction, TLAPS

CONSTANTS Facts, Pipelines, MaxDepth, MaxManifests
VARIABLES corpus, attested, manifest, paused  \* TrainingManifest, with the height of TrainingFund

Manifests == INSTANCE TrainingManifest

-----------------------------------------------------------------------------
(* Sequences and amounts *)

\* A sequence of numbers is a function to the numbers, and one more element adds itself to the total.
LEMMA AppendTotal ==
    ASSUME NEW s \in Seq(Nat), NEW n \in Nat
    PROVE  Total(Append(s, n)) = Total(s) + n
  <1>. DEFINE S == 1 .. Len(s)
              x == Len(s) + 1
              g == Append(s, n)
  <1>1. /\ Len(s) \in Nat /\ s \in [S -> Nat] /\ g \in Seq(Nat) /\ Len(g) = x /\ g[x] = n
        /\ \A y \in S : g[y] = s[y]
    BY LenProperties, AppendProperties
  <1>2. g \in [1 .. x -> Nat] /\ S \cup {x} = 1 .. x /\ x \notin S
    <2>1. g \in [1 .. Len(g) -> Nat]
      BY <1>1, LenProperties
    <2>2. S \cup {x} = 1 .. x /\ x \notin S
      BY <1>1
    <2>. QED
      BY <1>1, <2>1, <2>2
  <1>3. IsFiniteSet(S)
    BY <1>1, FS_Interval
  <1>4. g \in [S \cup {x} -> Nat]
    BY <1>2
  <1>. HIDE DEF S, x, g
  <1>5. Total(g) = Total(s) + g[x]
    <2>1. x \notin S /\ s \in [S -> Nat] /\ \A y \in S : g[y] = s[y]
      BY <1>1, <1>2
    <2>. QED
      BY <1>3, <1>4, <2>1, TotalExtend
  <1>. QED
    BY <1>1, <1>5 DEF g

\* One summand changes, for any two functions.
LEMMA SummandChanges ==
    \A S, f, g, x :
       IsFiniteSet(S) /\ f \in [S -> Nat] /\ g \in [S -> Nat] /\ x \in S /\ (\A y \in S : y # x => g[y] = f[y]) =>
          Total(f) \in Nat /\ Total(g) \in Nat /\ Total(g) = Total(f) - f[x] + g[x]
  BY TotalUpdate

\* One summand joins, for any two functions.
LEMMA SummandJoins ==
    \A S, f, g, x :
       IsFiniteSet(S) /\ x \notin S /\ f \in [S -> Nat] /\ g \in [S \cup {x} -> Nat] /\ (\A y \in S : g[y] = f[y]) =>
          Total(g) = Total(f) + g[x]
  BY TotalExtend

\* One element of a sequence of numbers is set.
LEMMA ElementTotal ==
    ASSUME NEW s \in Seq(Nat), NEW b \in 1 .. Len(s), NEW n \in Nat
    PROVE  /\ [s EXCEPT ![b] = n] \in Seq(Nat) /\ Total(s) \in Nat /\ Total([s EXCEPT ![b] = n]) \in Nat
           /\ Total([s EXCEPT ![b] = n]) = Total(s) - s[b] + n
  <1>. DEFINE S == 1 .. Len(s)
              g == [s EXCEPT ![b] = n]
  <1>1. /\ Len(s) \in Nat /\ s \in [S -> Nat] /\ g \in Seq(Nat) /\ g[b] = n
        /\ \A y \in S : y # b => g[y] = s[y]
    BY LenProperties, ExceptSeq
  <1>2. g \in [S -> Nat] /\ b \in S
    BY <1>1
  <1>3. IsFiniteSet(S)
    BY <1>1, FS_Interval
  <1>. HIDE DEF S, g
  <1>4. Total(s) \in Nat /\ Total(g) \in Nat /\ Total(g) = Total(s) - s[b] + g[b]
    <2>1. s \in [S -> Nat] /\ g \in [S -> Nat] /\ b \in S /\ \A y \in S : y # b => g[y] = s[y]
      BY <1>1, <1>2
    <2>2. Total(s) \in Nat /\ Total(g) \in Nat /\ Total(g) = Total(s) - s[b] + g[b]
      BY <1>3, <2>1, SummandChanges, SMTT(20)
    <2>. QED
      BY <2>2
  <1>. QED
    BY <1>1, <1>4 DEF g

\* Coins that leave an account beyond what is locked are the coins recorded as such.
LEMMA BooksShift ==
    \A f, o, a, d, l, n, t \in Nat : f >= a /\ n - d = l - a =>
       /\ f - a \in Nat /\ o + d \in Nat
       /\ (f - a) + (o + d) = f + o - t + (t - l + n)
  OBVIOUS

\* There are millionths.
LEMMA BpsPositive == Bps \in Nat \ {0}
  BY SMT DEF Bps

\* A share in millionths is at most the whole.
LEMMA ShareAtMost ==
    ASSUME NEW r \in Nat, NEW f \in 0 .. Bps
    PROVE  (r * f) \div Bps \in Nat /\ (r * f) \div Bps <= r
  <1>1. Bps \in Nat \ {0}
    BY BpsPositive
  <1>. DEFINE x == r * f
              q == x \div Bps
  <1>2. x \in Nat /\ x <= r * Bps
    BY <1>1, SMT
  <1>3. q \in Nat /\ q * Bps <= x
    <2>. HIDE DEF x
    <2>. QED
      BY <1>1, <1>2, SMT
  <1>4. q <= r
    <2>1. q * Bps <= r * Bps /\ r * Bps \in Nat /\ q * Bps \in Nat
      <3>. HIDE DEF x, q
      <3>. QED
        BY <1>1, <1>2, <1>3, SMT
    <2>. HIDE DEF q
    <2>2. q > r => q * Bps >= (r + 1) * Bps /\ (r + 1) * Bps = r * Bps + Bps
      BY <1>1, <1>3, SMT
    <2>. QED
      BY <1>1, <1>3, <2>1, <2>2, SMT
  <1>. QED
    BY <1>3, <1>4

-----------------------------------------------------------------------------
(* The inductive invariant of the training fund *)

Bounty == [sponsor : Sponsors, reward : Nat, max : Nat \ {0}, accepted : Nat, expires : Nat,
           active : BOOLEAN, escrow : Nat]
Vote == [who : Verifiers, vote : Verdicts, weight : Weights]
Variant == [bounty : Nat, by : Submitters, verdict : Verdicts \cup {"pending"}, votes : Seq(Vote),
            accepted : BOOLEAN, vetoed : BOOLEAN, payout : Nat, at : Nat]
Challenge == [bond : Nat, status : {"open", "upheld", "rejected"}]

Records ==
    /\ bounty \in Seq(Bounty) /\ locked \in Seq(Nat) /\ Len(locked) = Len(bounty)
    /\ variant \in Seq(Variant) /\ challenge \in Seq(Challenge)
    /\ fund \in Nat /\ over \in Nat /\ kept \in Nat /\ height \in Nat
    /\ bonus \in Bonuses /\ neutral \in BOOLEAN
    /\ \A b \in DOMAIN bounty : bounty[b].accepted <= bounty[b].max
    /\ \A a \in DOMAIN variant :
          /\ variant[a].bounty <= Len(bounty)
          /\ variant[a].verdict = "pending" => variant[a].payout = 0 /\ ~variant[a].vetoed
    /\ due \subseteq DOMAIN bounty
    /\ \A b \in due : bounty[b].expires # 0 /\ bounty[b].expires <= height

\* Nothing has happened to bounty b that takes coins beyond its escrow.
InOrder(b) ==
    /\ \A a \in Of(b) : ~variant[a].vetoed
    /\ \A a \in Paid(b) : bounty[b].expires = 0 \/ variant[a].at < bounty[b].expires
    /\ PaidOut(b) <= bounty[b].escrow
Running(b) == bounty[b].expires = 0 \/ height < bounty[b].expires

\* While it runs, such a bounty has locked what it has not paid.
EscrowsExact == \A b \in DOMAIN bounty : InOrder(b) /\ Running(b) => locked[b] + PaidOut(b) = bounty[b].escrow

\* Coins went out beyond an escrow only where something had happened.
NoneBeyond == over > 0 => \E b \in DOMAIN bounty : ~InOrder(b)

FundInv ==
    Records /\ FundAccounted /\ EscrowsExact /\ NoneBeyond /\ PlacesPaidOnce /\ VerdictAtFirstConsensus

\* The shape of the records, bounty by bounty and variant by variant.
LEMMA RecordFacts ==
    ASSUME Records
    PROVE  /\ Len(bounty) \in Nat /\ DOMAIN bounty = 1 .. Len(bounty) /\ DOMAIN locked = 1 .. Len(bounty)
           /\ Len(variant) \in Nat /\ DOMAIN variant = 1 .. Len(variant)
           /\ Len(challenge) \in Nat /\ DOMAIN challenge = 1 .. Len(challenge)
           /\ \A b \in DOMAIN bounty : bounty[b] \in Bounty /\ locked[b] \in Nat
           /\ \A a \in DOMAIN variant : variant[a] \in Variant
           /\ \A c \in DOMAIN challenge : challenge[c] \in Challenge
  <1>1. Len(bounty) \in Nat /\ DOMAIN bounty = 1 .. Len(bounty) /\ DOMAIN locked = 1 .. Len(bounty)
    BY LenProperties DEF Records
  <1>2. Len(variant) \in Nat /\ DOMAIN variant = 1 .. Len(variant)
    BY LenProperties DEF Records
  <1>3. Len(challenge) \in Nat /\ DOMAIN challenge = 1 .. Len(challenge)
    BY LenProperties DEF Records
  <1>4. \A b \in DOMAIN bounty : bounty[b] \in Bounty /\ locked[b] \in Nat
    BY <1>1, ElementOfSeq DEF Records
  <1>5. \A a \in DOMAIN variant : variant[a] \in Variant
    BY <1>2, ElementOfSeq DEF Records
  <1>6. \A c \in DOMAIN challenge : challenge[c] \in Challenge
    BY <1>3, ElementOfSeq DEF Records
  <1>. QED
    BY <1>1, <1>2, <1>3, <1>4, <1>5, <1>6

\* The variants a bounty has paid are finitely many, and so are the coins paid.
LEMMA PaidFacts ==
    ASSUME Records, NEW b
    PROVE  /\ Of(b) \subseteq DOMAIN variant /\ Paid(b) \subseteq Of(b)
           /\ IsFiniteSet(Paid(b)) /\ Cardinality(Paid(b)) \in Nat
           /\ [a \in Paid(b) |-> variant[a].payout] \in [Paid(b) -> Nat]
           /\ PaidOut(b) \in Nat
  <1>1. Of(b) \subseteq DOMAIN variant /\ Paid(b) \subseteq Of(b)
    BY DEF Of, Paid
  <1>2. IsFiniteSet(DOMAIN variant)
    BY RecordFacts, FS_Interval
  <1>3. IsFiniteSet(Paid(b)) /\ Cardinality(Paid(b)) \in Nat
    BY <1>1, <1>2, FS_Subset, FS_CardinalityType
  <1>4. \A a \in Paid(b) : variant[a].payout \in Nat
    BY <1>1, RecordFacts DEF Variant
  <1>5. [a \in Paid(b) |-> variant[a].payout] \in [Paid(b) -> Nat]
    BY <1>4
  <1>. QED
    BY <1>1, <1>3, <1>5, TotalNat DEF PaidOut

\* The invariant gives what is checked of every state.
LEMMA FundInvSafe ==
    ASSUME FundInv
    PROVE  TypeOK /\ FundAccounted /\ ShortfallExplained /\ PlacesPaidOnce /\ VerdictAtFirstConsensus
  <1>1. TypeOK
    <2>0. Records
      BY DEF FundInv
    <2>1. ASSUME NEW b \in DOMAIN bounty
          PROVE  locked[b] \in Nat /\ bounty[b].accepted \in 0 .. bounty[b].max
      <3>1. bounty[b] \in Bounty /\ locked[b] \in Nat /\ bounty[b].accepted <= bounty[b].max
        BY <2>0, RecordFacts DEF Records
      <3>. QED
        BY <3>1 DEF Bounty
    <2>2. ASSUME NEW a \in DOMAIN variant
          PROVE  variant[a].bounty \in 0 .. Len(bounty) /\ variant[a].verdict \in Verdicts \cup {"pending"}
      <3>1. variant[a] \in Variant /\ variant[a].bounty <= Len(bounty) /\ Len(bounty) \in Nat
        BY <2>0, RecordFacts DEF Records
      <3>. QED
        BY <3>1 DEF Variant
    <2>. QED
      BY <2>1, <2>2, RecordFacts DEF FundInv, Records, TypeOK
  <1>2. ShortfallExplained
    <2>. SUFFICES ASSUME over > 0
                  PROVE  \E b \in DOMAIN bounty :
                           \/ \E a \in Of(b) : variant[a].vetoed
                           \/ \E a \in Paid(b) : bounty[b].expires # 0 /\ variant[a].at >= bounty[b].expires
                           \/ PaidOut(b) > bounty[b].escrow
      BY DEF ShortfallExplained
    <2>1. PICK b \in DOMAIN bounty : ~InOrder(b)
      BY DEF FundInv, NoneBeyond
    <2>2. bounty[b].expires \in Nat /\ bounty[b].escrow \in Nat /\ PaidOut(b) \in Nat
      BY RecordFacts, PaidFacts DEF FundInv, Bounty
    <2>3. \A a \in Paid(b) : variant[a].at \in Nat
      BY RecordFacts, PaidFacts DEF FundInv, Variant
    <2>. QED
      BY <2>1, <2>2, <2>3 DEF InOrder
  <1>. QED
    BY <1>1, <1>2 DEF FundInv

-----------------------------------------------------------------------------
(* The panel *)

\* Who wins a ballot is a verdict, and nobody wins an empty one.
LEMMA WinnersOfBallot ==
    /\ \A votes : Winners(votes) \subseteq Verdicts
    /\ Winners(<<>>) = {}
  <1>1. \A votes : Winners(votes) \subseteq Verdicts
    BY DEF Winners
  <1>2. Winners(<<>>) = {}
    <2>1. Weight(<<>>, Verdicts) = 0
      <3>. DEFINE w == [i \in {j \in DOMAIN <<>> : <<>>[j].vote \in Verdicts} |-> <<>>[i].weight]
      <3>1. w \in [{} -> Nat]
        OBVIOUS
      <3>. QED
        BY <3>1, TotalZero DEF Weight
    <2>. QED
      BY <2>1 DEF Winners
  <1>. QED
    BY <1>1, <1>2

\* The ballot before its last vote.
LEMMA BeforeLastVote ==
    ASSUME NEW s \in Seq(Vote), NEW x \in Vote
    PROVE  /\ Append(s, x) \in Seq(Vote)
           /\ SubSeq(Append(s, x), 1, Len(Append(s, x)) - 1) = s
  <1>1. /\ Append(s, x) \in Seq(Vote) /\ Len(Append(s, x)) = Len(s) + 1 /\ Len(s) \in Nat
        /\ \A i \in 1 .. Len(s) : Append(s, x)[i] = s[i]
    BY AppendProperties, LenProperties
  <1>. DEFINE t == SubSeq(Append(s, x), 1, Len(Append(s, x)) - 1)
              n == Len(s)
              u == Append(s, x)
  <1>2. t = SubSeq(u, 1, n) /\ \A i \in 1 .. n : u[i] \in Vote /\ u[i] = s[i]
    BY <1>1, ElementOfSeq
  <1>. HIDE DEF u
  <1>3. t \in Seq(Vote) /\ Len(t) = n /\ \A i \in 1 .. n : t[i] = u[i]
    <2>1. SubSeq(u, 1, n) \in Seq(Vote) /\ Len(SubSeq(u, 1, n)) = (IF 1 <= n THEN n - 1 + 1 ELSE 0)
          /\ \A i \in 1 .. n - 1 + 1 : SubSeq(u, 1, n)[i] = u[1 + i - 1]
      BY <1>1, <1>2, SubSeqProperties
    <2>. QED
      BY <1>1, <1>2, <2>1
  <1>4. t = s
    BY <1>2, <1>3, SeqEqual
  <1>. QED
    BY <1>1, <1>4

-----------------------------------------------------------------------------
(* What steps do to the books *)

OpenBonds == [c \in DOMAIN challenge |-> OpenBond(c)]
BallotOK(v) ==
    IF v.verdict = "pending" THEN Winners(v.votes) = {}
    ELSE v.verdict \in Winners(v.votes) /\ Winners(SubSeq(v.votes, 1, Len(v.votes) - 1)) = {}

\* The bonds that are held are finitely many numbers.
LEMMA BondFacts ==
    ASSUME Records
    PROVE  /\ IsFiniteSet(DOMAIN challenge) /\ OpenBonds \in [DOMAIN challenge -> Nat]
           /\ Total(OpenBonds) \in Nat /\ Total(locked) \in Nat
  <1>1. IsFiniteSet(DOMAIN challenge) /\ IsFiniteSet(1 .. Len(locked))
    BY RecordFacts, FS_Interval DEF Records
  <1>2. \A c \in DOMAIN challenge : OpenBond(c) \in Nat
    BY RecordFacts DEF OpenBond, Challenge
  <1>3. OpenBonds \in [DOMAIN challenge -> Nat]
    BY <1>2 DEF OpenBonds
  <1>4. locked \in [1 .. Len(locked) -> Nat]
    BY LenProperties DEF Records
  <1>. QED
    BY <1>1, <1>3, <1>4, TotalNat

\* Bonuses, and with them escrows and payouts, are numbers of coins.
LEMMA AmountFacts ==
    ASSUME FundAssumption, Records
    PROVE  /\ \A amount \in Nat : Bonus(amount) \in Nat
           /\ \A o \in Offers : Escrow(o) \in Nat
           /\ \A v : \A b \in DOMAIN bounty : Payout(b, v) \in Nat /\ (bounty[b].reward > 0 => Payout(b, v) > 0)
  <1>1. bonus \in Nat
    BY DEF FundAssumption, Records
  <1>2. ASSUME NEW amount \in Nat
        PROVE  Bonus(amount) \in Nat
    <2>. DEFINE x == amount * bonus
    <2>1. x \in Nat
      BY <1>1
    <2>. HIDE DEF x
    <2>2. x \div Bps \in Nat
      BY <2>1, BpsPositive, SMT
    <2>. QED
      BY <2>2 DEF x, Bonus
  <1>3. ASSUME NEW o \in Offers
        PROVE  Escrow(o) \in Nat
    <2>1. o.reward * o.max \in Nat
      BY DEF FundAssumption
    <2>. QED
      BY <1>2, <2>1 DEF Escrow
  <1>4. ASSUME NEW b \in DOMAIN bounty, NEW v
        PROVE  Payout(b, v) \in Nat /\ (bounty[b].reward > 0 => Payout(b, v) > 0)
    <2>1. bounty[b].reward \in Nat
      BY RecordFacts DEF Bounty
    <2>2. Bonus(bounty[b].reward) \in Nat
      BY <1>2, <2>1
    <2>. QED
      BY <2>1, <2>2 DEF Payout
  <1>. QED
    BY <1>2, <1>3, <1>4

\* Coins that leave for a bounty leave its escrow first, and what exceeds it is recorded.
LEMMA TakeFacts ==
    ASSUME Records, NEW b \in DOMAIN bounty, NEW amount \in Nat, TakeFromEscrow(b, amount)
    PROVE  /\ locked' \in Seq(Nat) /\ Len(locked') = Len(locked) /\ fund' \in Nat /\ over' \in Nat
           /\ \A c \in DOMAIN bounty : c # b => locked'[c] = locked[c]
           /\ Total(locked') \in Nat /\ fund' + over' = fund + over - Total(locked) + Total(locked')
           /\ locked[b] >= amount => over' = over /\ locked'[b] = locked[b] - amount
  <1>. DEFINE n == reduceEscrowLocked(locked[b], amount)
              d == Overdraft(locked[b], amount)
  <1>1. /\ fund >= amount /\ fund' = fund - amount /\ over' = over + d
        /\ locked' = [locked EXCEPT ![b] = n]
    BY DEF TakeFromEscrow
  <1>2. locked \in Seq(Nat) /\ b \in 1 .. Len(locked) /\ locked[b] \in Nat /\ fund \in Nat /\ over \in Nat
    BY RecordFacts DEF Records
  <1>3. n \in Nat /\ d \in Nat /\ n - d = locked[b] - amount /\ (locked[b] >= amount => d = 0 /\ n = locked[b] - amount)
    BY <1>2 DEF reduceEscrowLocked, Overdraft
  <1>. HIDE DEF n, d
  <1>4. /\ locked' \in Seq(Nat) /\ Total(locked) \in Nat /\ Total(locked') \in Nat
        /\ Total(locked') = Total(locked) - locked[b] + n
    BY <1>1, <1>2, <1>3, ElementTotal
  <1>5. /\ Len(locked') = Len(locked) /\ locked'[b] = n
        /\ \A c \in 1 .. Len(locked) : c # b => locked'[c] = locked[c]
    BY <1>1, <1>2, <1>3, ExceptSeq
  <1>6. DOMAIN bounty = 1 .. Len(locked)
    BY RecordFacts DEF Records
  <1>7. fund' \in Nat /\ over' \in Nat /\ fund' + over' = fund + over - Total(locked) + Total(locked')
    <2>1. /\ fund >= amount /\ n - d = locked[b] - amount /\ fund \in Nat /\ over \in Nat /\ amount \in Nat
          /\ d \in Nat /\ locked[b] \in Nat /\ n \in Nat /\ Total(locked) \in Nat
      BY <1>1, <1>2, <1>3, <1>4
    <2>2. /\ fund - amount \in Nat /\ over + d \in Nat
          /\ (fund - amount) + (over + d) = fund + over - Total(locked) + (Total(locked) - locked[b] + n)
      BY <2>1, BooksShift
    <2>. QED
      BY <1>1, <1>4, <2>2
  <1>8. locked[b] >= amount => over' = over /\ locked'[b] = locked[b] - amount
    BY <1>1, <1>2, <1>3, <1>5
  <1>. QED
    BY <1>4, <1>5, <1>6, <1>7, <1>8

\* A step that changes no entry of the ledger leaves the bounties' books right.
LEMMA LedgerKept ==
    ASSUME FundInv, UNCHANGED <<bounty, locked, over>>,
           \A b \in DOMAIN bounty : /\ Paid(b)' = Paid(b) /\ PaidOut(b)' = PaidOut(b)
                                    /\ InOrder(b)' => InOrder(b)
                                    /\ Running(b)' => Running(b)
    PROVE  EscrowsExact' /\ NoneBeyond' /\ PlacesPaidOnce'
  <1>1. EscrowsExact'
    BY DEF FundInv, EscrowsExact
  <1>2. NoneBeyond'
    BY DEF FundInv, NoneBeyond
  <1>3. PlacesPaidOnce'
    BY DEF FundInv, PlacesPaidOnce
  <1>. QED
    BY <1>1, <1>2, <1>3

\* Without a change to bounties and variants there is no change to who was paid.
LEMMA SamePaid ==
    ASSUME UNCHANGED <<bounty, variant>>
    PROVE  \A b : /\ Of(b)' = Of(b) /\ Paid(b)' = Paid(b) /\ PaidOut(b)' = PaidOut(b)
                  /\ InOrder(b)' = InOrder(b) /\ (height' = height => Running(b)' = Running(b))
  BY DEF Of, Paid, PaidOut, InOrder, Running

\* A variant is written again: what was paid for it stays.
LEMMA VariantRewritten ==
    ASSUME Records, NEW a \in DOMAIN variant, NEW x \in Variant, variant' = [variant EXCEPT ![a] = x],
           x.bounty = variant[a].bounty, x.payout = variant[a].payout,
           variant[a].vetoed => x.vetoed, x.payout > 0 => x.at = variant[a].at
    PROVE  /\ variant' \in Seq(Variant) /\ Len(variant') = Len(variant) /\ DOMAIN variant' = DOMAIN variant
           /\ variant'[a] = x /\ \A c \in DOMAIN variant \ {a} : variant'[c] = variant[c]
           /\ \A b : Of(b)' = Of(b) /\ Paid(b)' = Paid(b) /\ PaidOut(b)' = PaidOut(b)
           /\ UNCHANGED bounty => \A b : InOrder(b)' => InOrder(b)
  <1>1. DOMAIN variant = 1 .. Len(variant) /\ variant \in Seq(Variant)
    BY RecordFacts DEF Records
  <1>2. /\ variant' \in Seq(Variant) /\ Len(variant') = Len(variant)
        /\ \A c \in 1 .. Len(variant) : variant'[c] = IF c = a THEN x ELSE variant[c]
    BY <1>1, ExceptSeq
  <1>3. DOMAIN variant' = DOMAIN variant
    BY <1>1, <1>2, LenProperties
  <1>4. variant'[a] = x /\ \A c \in DOMAIN variant \ {a} : variant'[c] = variant[c]
    BY <1>1, <1>2
  <1>5. \A b : Of(b)' = Of(b)
    BY <1>3, <1>4 DEF Of
  <1>6. \A b : Paid(b)' = Paid(b)
    BY <1>3, <1>4, <1>5 DEF Paid, Of
  <1>7. \A c \in DOMAIN variant : variant'[c].payout = variant[c].payout
    BY <1>4
  <1>8. \A b : PaidOut(b)' = PaidOut(b)
    <2>. SUFFICES ASSUME NEW b
                  PROVE  PaidOut(b)' = PaidOut(b)
      OBVIOUS
    <2>1. [c \in Paid(b)' |-> variant'[c].payout] = [c \in Paid(b) |-> variant[c].payout]
      BY <1>6, <1>7, PaidFacts
    <2>. QED
      BY <2>1 DEF PaidOut
  <1>9. ASSUME UNCHANGED bounty, NEW b, InOrder(b)'
        PROVE  InOrder(b)
    <2>1. \A c \in Of(b) : ~variant[c].vetoed
      BY <1>4, <1>5, <1>9, PaidFacts DEF InOrder
    <2>2. ASSUME NEW c \in Paid(b)
          PROVE  bounty[b].expires = 0 \/ variant[c].at < bounty[b].expires
      <3>1. c \in DOMAIN variant /\ variant[c].payout > 0
        BY PaidFacts DEF Paid
      <3>2. bounty[b].expires = 0 \/ variant'[c].at < bounty[b].expires
        BY <1>6, <1>9 DEF InOrder
      <3>3. variant'[c].at = variant[c].at
        BY <1>4, <3>1
      <3>. QED
        BY <3>2, <3>3
    <2>3. PaidOut(b) <= bounty[b].escrow
      BY <1>8, <1>9 DEF InOrder
    <2>. QED
      BY <2>1, <2>2, <2>3 DEF InOrder
  <1>. QED
    BY <1>2, <1>3, <1>4, <1>5, <1>6, <1>8, <1>9

-----------------------------------------------------------------------------
(* The invariant under each step *)

\* A variant is judged, vetoed or accepted without a payout: only its record changes.
LEMMA RewriteKeeps ==
    ASSUME FundAssumption, FundInv, NEW a \in DOMAIN variant, NEW x \in Variant, variant' = [variant EXCEPT ![a] = x],
           x.bounty = variant[a].bounty, x.payout = variant[a].payout, x.vetoed = variant[a].vetoed,
           x.payout > 0 => x.at = variant[a].at, x.verdict = "pending" => variant[a].verdict = "pending", BallotOK(x),
           UNCHANGED <<bounty, locked, challenge, fund, bonus, neutral, height, due, over, kept>>
    PROVE  FundInv'
  <1>1. /\ variant' \in Seq(Variant) /\ Len(variant') = Len(variant) /\ DOMAIN variant' = DOMAIN variant
        /\ variant'[a] = x /\ \A c \in DOMAIN variant \ {a} : variant'[c] = variant[c]
        /\ \A b : Of(b)' = Of(b) /\ Paid(b)' = Paid(b) /\ PaidOut(b)' = PaidOut(b)
        /\ UNCHANGED bounty => \A b : InOrder(b)' => InOrder(b)
    BY VariantRewritten DEF FundInv
  <1>2. Records'
    BY <1>1 DEF FundInv, Records
  <1>3. FundAccounted'
    BY DEF FundInv, FundAccounted, OpenBond
  <1>4. EscrowsExact' /\ NoneBeyond' /\ PlacesPaidOnce'
    BY <1>1, LedgerKept DEF Running
  <1>5. VerdictAtFirstConsensus'
    BY <1>1 DEF FundInv, VerdictAtFirstConsensus, BallotOK
  <1>. QED
    BY <1>2, <1>3, <1>4, <1>5 DEF FundInv

\* A bounty is opened with its escrow.
LEMMA CreateKeepsFund ==
    ASSUME FundAssumption, FundInv, NEW s \in Sponsors, NEW o \in Offers, CreateAugmentationBounty(s, o), UNCHANGED due
    PROVE  FundInv'
  <1>0. PICK n : n = Len(bounty) + 1
    OBVIOUS
  <1>. DEFINE e == Escrow(o)
              r == [sponsor |-> s, reward |-> o.reward, max |-> o.max, accepted |-> 0,
                    expires |-> o.expires, active |-> TRUE, escrow |-> e]
  <1>1. /\ fund' = fund + e /\ locked' = Append(locked, e) /\ bounty' = Append(bounty, r)
        /\ UNCHANGED <<variant, challenge, bonus, neutral, height, due, over, kept>>
    BY DEF CreateAugmentationBounty, EscrowAugmentationBounty, history
  <1>2. /\ bounty \in Seq(Bounty) /\ locked \in Seq(Nat) /\ Len(locked) = Len(bounty) /\ fund \in Nat
        /\ DOMAIN bounty = 1 .. Len(bounty) /\ Len(bounty) \in Nat /\ e \in Nat
    BY AmountFacts, RecordFacts DEF FundInv, Records
  <1>3. r \in Bounty /\ r.accepted = 0 /\ r.escrow = e /\ 0 <= r.max
    BY <1>2 DEF FundAssumption, Bounty
  <1>. HIDE DEF r, e
  <1>4. /\ bounty' \in Seq(Bounty) /\ Len(bounty') = n /\ DOMAIN bounty' = 1 .. n /\ bounty'[n] = r
        /\ \A b \in 1 .. Len(bounty) : bounty'[b] = bounty[b]
    BY <1>0, <1>1, <1>2, <1>3, AppendProperties, LenProperties
  <1>5. /\ locked' \in Seq(Nat) /\ Len(locked') = n /\ locked'[n] = e
        /\ \A b \in 1 .. Len(bounty) : locked'[b] = locked[b]
    BY <1>0, <1>1, <1>2, AppendProperties
  <1>6. 1 .. n = DOMAIN bounty \cup {n} /\ n \notin DOMAIN bounty
    BY <1>0, <1>2
  <1>7. Records'
    <2>1. \A b \in DOMAIN bounty' : bounty'[b].accepted <= bounty'[b].max
      BY <1>2, <1>3, <1>4, <1>6 DEF FundInv, Records
    <2>2. \A a \in DOMAIN variant : variant[a].bounty <= n
      <3>1. \A a \in DOMAIN variant : variant[a].bounty \in Nat /\ variant[a].bounty <= Len(bounty)
        BY RecordFacts DEF FundInv, Records, Variant
      <3>. QED
        BY <1>0, <1>2, <3>1
    <2>3. due' \subseteq DOMAIN bounty' /\ \A b \in due' : bounty'[b].expires # 0 /\ bounty'[b].expires <= height
      BY <1>1, <1>2, <1>4, <1>6 DEF FundInv, Records
    <2>4. fund' \in Nat
      BY <1>1, <1>2
    <2>. QED
      BY <1>1, <1>4, <1>5, <2>1, <2>2, <2>3, <2>4 DEF FundInv, Records
  <1>8. FundAccounted'
    <2>1. Total(locked') = Total(locked) + e
      BY <1>1, <1>2, AppendTotal
    <2>2. fund + over = Total(locked) + Total(OpenBonds) + kept
      BY DEF FundInv, FundAccounted, OpenBonds
    <2>3. OpenBonds' = OpenBonds
      BY <1>1 DEF OpenBonds, OpenBond
    <2>4. over \in Nat /\ kept \in Nat /\ Total(OpenBonds) \in Nat /\ Total(locked) \in Nat
      BY BondFacts DEF FundInv, Records
    <2>5. fund' + over' = Total(locked') + Total(OpenBonds') + kept'
      <3>. DEFINE l == Total(locked)
                  h == Total(OpenBonds)
      <3>1. fund' = fund + e /\ over' = over /\ kept' = kept /\ Total(OpenBonds') = h /\ Total(locked') = l + e
        BY <1>1, <2>1, <2>3
      <3>2. fund + over = l + h + kept /\ over \in Nat /\ kept \in Nat /\ h \in Nat /\ l \in Nat /\ fund \in Nat /\ e \in Nat
        BY <1>2, <2>2, <2>4
      <3>. HIDE DEF l, h
      <3>3. (fund + e) + over = (l + e) + h + kept
        BY <3>2
      <3>. QED
        BY <3>1, <3>3
    <2>. QED
      BY <2>5 DEF FundAccounted, OpenBonds
  <1>9. \A b : Of(b)' = Of(b) /\ Paid(b)' = Paid(b) /\ PaidOut(b)' = PaidOut(b)
    BY <1>1 DEF Of, Paid, PaidOut
  <1>10. \A b \in DOMAIN bounty : InOrder(b)' = InOrder(b) /\ Running(b)' = Running(b)
    BY <1>1, <1>2, <1>4, <1>9 DEF InOrder, Running
  <1>11. Paid(n) = {} /\ PaidOut(n) = 0 /\ Cardinality(Paid(n)) = 0
    <2>1. \A a \in DOMAIN variant : variant[a].bounty \in Nat /\ variant[a].bounty <= Len(bounty)
      BY RecordFacts DEF FundInv, Records, Variant
    <2>2. Paid(n) = {}
      BY <1>0, <1>2, <2>1 DEF Paid, Of
    <2>3. [a \in Paid(n) |-> variant[a].payout] \in [{} -> Nat]
      BY <2>2
    <2>. QED
      BY <2>2, <2>3, TotalZero, FS_EmptySet DEF PaidOut
  <1>12. EscrowsExact'
    <2>1. ASSUME NEW b \in DOMAIN bounty, InOrder(b)', Running(b)'
          PROVE  locked'[b] + PaidOut(b)' = bounty'[b].escrow
      <3>1. InOrder(b) /\ Running(b) /\ b \in 1 .. Len(bounty)
        BY <1>2, <1>10, <2>1
      <3>2. locked[b] + PaidOut(b) = bounty[b].escrow
        BY <3>1 DEF FundInv, EscrowsExact
      <3>3. PaidOut(b)' = PaidOut(b)
        BY <1>9
      <3>4. locked'[b] = locked[b] /\ bounty'[b] = bounty[b]
        BY <1>4, <1>5, <3>1
      <3>. QED
        BY <3>2, <3>3, <3>4
    <2>2. locked'[n] + PaidOut(n)' = bounty'[n].escrow
      <3>1. locked'[n] = e /\ bounty'[n].escrow = e /\ PaidOut(n)' = 0
        <4>1. PaidOut(n)' = PaidOut(n)
          BY <1>9
        <4>. QED
          BY <1>3, <1>4, <1>5, <1>11, <4>1
      <3>. QED
        BY <1>2, <3>1
    <2>. QED
      BY <1>4, <1>6, <2>1, <2>2 DEF EscrowsExact
  <1>13. NoneBeyond'
    BY <1>1, <1>4, <1>6, <1>10 DEF FundInv, NoneBeyond
  <1>14. PlacesPaidOnce'
    BY <1>2, <1>3, <1>4, <1>6, <1>9, <1>11 DEF FundInv, PlacesPaidOnce
  <1>15. VerdictAtFirstConsensus'
    BY <1>1 DEF FundInv, VerdictAtFirstConsensus
  <1>. QED
    BY <1>7, <1>8, <1>12, <1>13, <1>14, <1>15 DEF FundInv

\* A variant is handed in: nobody has judged it and nothing is paid.
LEMMA SubmitKeepsFund ==
    ASSUME FundAssumption, FundInv, NEW w \in Submitters, NEW t \in {NoBounty} \cup DOMAIN bounty,
           SubmitAugmentation(w, t), UNCHANGED due
    PROVE  FundInv'
  <1>. DEFINE x == [bounty |-> t, by |-> w, verdict |-> "pending", votes |-> <<>>, accepted |-> FALSE,
                    vetoed |-> FALSE, payout |-> 0, at |-> 0]
              n == Len(variant) + 1
  <1>1. /\ variant' = Append(variant, x)
        /\ UNCHANGED <<bounty, locked, challenge, fund, bonus, neutral, height, due, over, kept>>
    BY DEF SubmitAugmentation, history
  <1>2. t \in Nat /\ t <= Len(bounty)
    BY RecordFacts DEF FundInv, NoBounty
  <1>3. x \in Variant /\ x.bounty = t /\ x.payout = 0 /\ ~x.vetoed /\ x.verdict = "pending" /\ x.votes = <<>>
    BY <1>2, EmptySeq DEF Variant
  <1>. HIDE DEF x
  <1>4. variant \in Seq(Variant) /\ Len(variant) \in Nat /\ DOMAIN variant = 1 .. Len(variant)
    BY RecordFacts DEF FundInv, Records
  <1>5. /\ variant' \in Seq(Variant) /\ Len(variant') = n /\ DOMAIN variant' = 1 .. n /\ variant'[n] = x
        /\ \A c \in 1 .. Len(variant) : variant'[c] = variant[c]
    BY <1>1, <1>3, <1>4, AppendProperties, LenProperties
  <1>6. 1 .. n = DOMAIN variant \cup {n} /\ n \notin DOMAIN variant
    BY <1>4
  <1>7. Records'
    BY <1>1, <1>2, <1>3, <1>4, <1>5, <1>6 DEF FundInv, Records
  <1>8. FundAccounted'
    BY <1>1 DEF FundInv, FundAccounted, OpenBond
  <1>9. \A b : Paid(b)' = Paid(b) /\ PaidOut(b)' = PaidOut(b)
    <2>. SUFFICES ASSUME NEW b
                  PROVE  Paid(b)' = Paid(b) /\ PaidOut(b)' = PaidOut(b)
      OBVIOUS
    <2>1. Paid(b)' = Paid(b)
      BY <1>3, <1>4, <1>5, <1>6 DEF Paid, Of
    <2>2. [c \in Paid(b)' |-> variant'[c].payout] = [c \in Paid(b) |-> variant[c].payout]
      BY <1>4, <1>5, <2>1, PaidFacts DEF FundInv
    <2>. QED
      BY <2>1, <2>2 DEF PaidOut
  <1>10. ASSUME NEW b \in DOMAIN bounty
         PROVE  InOrder(b)' => InOrder(b)
    <2>1. \A c \in Of(b) : c \in Of(b)' /\ variant'[c] = variant[c]
      BY <1>4, <1>5, <1>6 DEF Of
    <2>2. Paid(b) \subseteq Of(b)
      BY DEF Paid
    <2>. QED
      BY <1>1, <1>9, <2>1, <2>2 DEF InOrder
  <1>11. EscrowsExact' /\ NoneBeyond' /\ PlacesPaidOnce'
    BY <1>1, <1>9, <1>10, LedgerKept DEF Running
  <1>12. VerdictAtFirstConsensus'
    BY <1>3, <1>4, <1>5, <1>6, WinnersOfBallot DEF FundInv, VerdictAtFirstConsensus
  <1>. QED
    BY <1>7, <1>8, <1>11, <1>12 DEF FundInv

\* What any payment or forfeit for a bounty leaves of the account's sum.
LEMMA TakeKeepsSum ==
    ASSUME FundInv, NEW b \in DOMAIN bounty, NEW amount \in Nat, TakeFromEscrow(b, amount), UNCHANGED <<challenge, kept>>
    PROVE  FundAccounted'
  <1>1. Total(locked') \in Nat /\ fund' + over' = fund + over - Total(locked) + Total(locked') /\ fund' \in Nat /\ over' \in Nat
    BY TakeFacts DEF FundInv
  <1>2. fund + over = Total(locked) + Total(OpenBonds) + kept
    BY DEF FundInv, FundAccounted, OpenBonds
  <1>3. OpenBonds' = OpenBonds
    BY DEF OpenBonds, OpenBond
  <1>4. fund \in Nat /\ over \in Nat /\ kept \in Nat /\ Total(OpenBonds) \in Nat /\ Total(locked) \in Nat
    BY BondFacts DEF FundInv, Records
  <1>5. fund' + over' = Total(locked') + Total(OpenBonds') + kept'
    <2>. DEFINE l == Total(locked)
                h == Total(OpenBonds)
    <2>1. \A m, x, y \in Nat : x + y = fund + over - l + m /\ fund + over = l + h + kept => x + y = m + h + kept
      <3>1. l \in Nat /\ h \in Nat
        BY <1>4
      <3>. HIDE DEF l, h
      <3>. QED
        BY <1>4, <3>1
    <2>2. Total(OpenBonds') = h /\ kept' = kept
      BY <1>3
    <2>. HIDE DEF l, h
    <2>. QED
      BY <1>1, <1>2, <2>1, <2>2 DEF l, h
  <1>. QED
    BY <1>5 DEF FundAccounted, OpenBonds

\* The verdict on a variant pays its place in the bounty.
LEMMA PayKeeps ==
    ASSUME FundAssumption, FundInv, NEW a \in DOMAIN variant, NEW votes \in Seq(Vote), NEW v \in Winners(votes),
           variant[a].verdict = "pending", Winners(SubSeq(votes, 1, Len(votes) - 1)) = {},
           Pays(a, v), Finalize(a, votes, v), UNCHANGED <<challenge, bonus, neutral, height, due, kept>>
    PROVE  FundInv'
  <1>0. PICK b : b = variant[a].bounty
    OBVIOUS
  <1>1. PICK p : p = Payout(b, v)
    OBVIOUS
  <1>2. /\ variant[a] \in Variant /\ variant[a].payout = 0 /\ ~variant[a].vetoed
        /\ b \in DOMAIN bounty /\ b \in Nat /\ bounty[b].accepted < bounty[b].max
    <2>1. b # 0 /\ bounty[b].accepted < bounty[b].max
      BY <1>0 DEF Pays, NoBounty
    <2>2. variant[a] \in Variant /\ b <= Len(bounty) /\ variant[a].payout = 0 /\ ~variant[a].vetoed
      BY <1>0, RecordFacts DEF FundInv, Records
    <2>. QED
      BY <1>0, <2>1, <2>2, RecordFacts DEF FundInv, Variant
  <1>3. p \in Nat /\ (bounty[b].reward > 0 => p > 0)
    BY <1>1, <1>2, AmountFacts DEF FundInv
  <1>. DEFINE x == Decided(a, votes, v)
              r == [bounty[b] EXCEPT !.accepted = @ + 1, !.active = @ /\ bounty[b].accepted + 1 < bounty[b].max]
  <1>4. /\ TakeFromEscrow(b, p) /\ variant' = [variant EXCEPT ![a] = x] /\ bounty' = [bounty EXCEPT ![b] = r]
    BY <1>0, <1>1 DEF Finalize
  <1>5. /\ x \in Variant /\ x.bounty = b /\ x.payout = p /\ ~x.vetoed /\ x.at = height /\ x.verdict = v
        /\ x.votes = votes
    <2>. DEFINE acc == variant[a].accepted \/ Pays(a, v) \/ (v \in Passing /\ variant[a].bounty = NoBounty)
                pay == IF Pays(a, v) THEN Payout(variant[a].bounty, v) ELSE variant[a].payout
    <2>1. x = [variant[a] EXCEPT !.votes = votes, !.verdict = v, !.at = height, !.accepted = acc, !.payout = pay]
      BY DEF Decided
    <2>2. pay = p
      BY <1>0, <1>1
    <2>3. acc \in BOOLEAN
      OBVIOUS
    <2>. HIDE DEF acc, pay, x
    <2>4. v \in Verdicts /\ height \in Nat
      BY WinnersOfBallot DEF FundInv, Records
    <2>. QED
      BY <1>0, <1>2, <1>3, <2>1, <2>2, <2>3, <2>4 DEF Variant
  <1>6. /\ r \in Bounty /\ r.accepted = bounty[b].accepted + 1 /\ r.max = bounty[b].max /\ r.reward = bounty[b].reward
        /\ r.expires = bounty[b].expires /\ r.escrow = bounty[b].escrow /\ r.accepted <= r.max
    <2>. DEFINE act == bounty[b].active /\ bounty[b].accepted + 1 < bounty[b].max
    <2>1. act \in BOOLEAN
      OBVIOUS
    <2>2. r = [bounty[b] EXCEPT !.accepted = @ + 1, !.active = act]
      OBVIOUS
    <2>. HIDE DEF act, r
    <2>3. bounty[b] \in Bounty
      BY <1>2, RecordFacts DEF FundInv
    <2>4. bounty[b].accepted + 1 \in Nat /\ bounty[b].accepted + 1 <= bounty[b].max
      BY <1>2, <2>3 DEF Bounty
    <2>5. r \in Bounty
      BY <2>1, <2>2, <2>3, <2>4 DEF Bounty
    <2>6. /\ r.accepted = bounty[b].accepted + 1 /\ r.max = bounty[b].max /\ r.reward = bounty[b].reward
          /\ r.expires = bounty[b].expires /\ r.escrow = bounty[b].escrow
      BY <2>2, <2>3 DEF Bounty
    <2>. QED
      BY <2>4, <2>5, <2>6
  <1>. HIDE DEF x, r
  <1>7. /\ variant' \in Seq(Variant) /\ Len(variant') = Len(variant) /\ DOMAIN variant' = DOMAIN variant
        /\ variant'[a] = x /\ \A c \in DOMAIN variant \ {a} : variant'[c] = variant[c]
    <2>1. DOMAIN variant = 1 .. Len(variant) /\ variant \in Seq(Variant)
      BY RecordFacts DEF FundInv, Records
    <2>2. /\ variant' \in Seq(Variant) /\ Len(variant') = Len(variant)
          /\ \A c \in 1 .. Len(variant) : variant'[c] = IF c = a THEN x ELSE variant[c]
      BY <1>4, <1>5, <2>1, ExceptSeq
    <2>. QED
      BY <2>1, <2>2, LenProperties
  <1>8. /\ bounty' \in Seq(Bounty) /\ Len(bounty') = Len(bounty) /\ DOMAIN bounty' = DOMAIN bounty
        /\ bounty'[b] = r /\ \A c \in DOMAIN bounty \ {b} : bounty'[c] = bounty[c]
    <2>1. DOMAIN bounty = 1 .. Len(bounty) /\ bounty \in Seq(Bounty)
      BY RecordFacts DEF FundInv, Records
    <2>2. /\ bounty' \in Seq(Bounty) /\ Len(bounty') = Len(bounty)
          /\ \A c \in 1 .. Len(bounty) : bounty'[c] = IF c = b THEN r ELSE bounty[c]
      BY <1>2, <1>4, <1>6, <2>1, ExceptSeq
    <2>3. DOMAIN bounty' = 1 .. Len(bounty')
      BY <2>2, LenProperties
    <2>. QED
      BY <1>2, <2>1, <2>2, <2>3
  <1>9. \A c \in DOMAIN bounty : /\ bounty'[c].expires = bounty[c].expires /\ bounty'[c].escrow = bounty[c].escrow
                                 /\ bounty'[c].reward = bounty[c].reward
    BY <1>6, <1>8
  <1>10. /\ locked' \in Seq(Nat) /\ Len(locked') = Len(locked) /\ fund' \in Nat /\ over' \in Nat
         /\ \A c \in DOMAIN bounty : c # b => locked'[c] = locked[c]
         /\ locked[b] >= p => over' = over /\ locked'[b] = locked[b] - p
    BY <1>2, <1>3, <1>4, TakeFacts DEF FundInv
  <1>11. Records'
    <2>1. \A c \in DOMAIN bounty' : bounty'[c].accepted <= bounty'[c].max
      BY <1>6, <1>8 DEF FundInv, Records
    <2>2. \A c \in DOMAIN variant' : /\ variant'[c].bounty <= Len(bounty')
                                     /\ variant'[c].verdict = "pending" => variant'[c].payout = 0 /\ ~variant'[c].vetoed
      <3>1. v # "pending"
        BY WinnersOfBallot DEF FundAssumption
      <3>2. variant[a].bounty <= Len(bounty)
        BY DEF FundInv, Records
      <3>3. x.bounty <= Len(bounty') /\ x.verdict # "pending"
        BY <1>0, <1>5, <1>8, <3>1, <3>2
      <3>4. \A c \in DOMAIN variant : /\ variant[c].bounty <= Len(bounty')
                                      /\ variant[c].verdict = "pending" => variant[c].payout = 0 /\ ~variant[c].vetoed
        BY <1>8 DEF FundInv, Records
      <3>. QED
        BY <1>7, <3>3, <3>4
    <2>3. due' \subseteq DOMAIN bounty' /\ \A c \in due' : bounty'[c].expires # 0 /\ bounty'[c].expires <= height'
      BY <1>8, <1>9 DEF FundInv, Records
    <2>. QED
      BY <1>7, <1>8, <1>10, <2>1, <2>2, <2>3 DEF FundInv, Records
  <1>12. FundAccounted'
    BY <1>2, <1>3, <1>4, TakeKeepsSum
  <1>13. \A c : Of(c)' = Of(c)
    BY <1>0, <1>5, <1>7 DEF Of
  <1>14. \A c : c # b => Paid(c)' = Paid(c) /\ PaidOut(c)' = PaidOut(c)
    <2>. SUFFICES ASSUME NEW c, c # b
                  PROVE  Paid(c)' = Paid(c) /\ PaidOut(c)' = PaidOut(c)
      OBVIOUS
    <2>1. \A d \in Of(c) : d \in DOMAIN variant \ {a} /\ variant'[d] = variant[d]
      BY <1>0, <1>7 DEF Of
    <2>2. Paid(c)' = Paid(c)
      BY <1>13, <2>1 DEF Paid
    <2>3. [d \in Paid(c)' |-> variant'[d].payout] = [d \in Paid(c) |-> variant[d].payout]
      BY <2>1, <2>2, PaidFacts DEF FundInv
    <2>. QED
      BY <2>2, <2>3 DEF PaidOut
  <1>15. a \notin Paid(b) /\ a \in Of(b)
    BY <1>0, <1>2 DEF Paid, Of
  <1>16. Paid(b)' = (IF p > 0 THEN Paid(b) \cup {a} ELSE Paid(b)) /\ PaidOut(b)' = PaidOut(b) + p
    <2>1. \A d \in Of(b) \ {a} : variant'[d] = variant[d]
      BY <1>7 DEF Of
    <2>2. Paid(b)' = IF p > 0 THEN Paid(b) \cup {a} ELSE Paid(b)
      BY <1>5, <1>7, <1>13, <1>15, <2>1 DEF Paid
    <2>. DEFINE f == [d \in Paid(b) |-> variant[d].payout]
                g == [d \in Paid(b)' |-> variant'[d].payout]
    <2>3. IsFiniteSet(Paid(b)) /\ f \in [Paid(b) -> Nat] /\ PaidOut(b) \in Nat
      BY PaidFacts DEF FundInv
    <2>4. \A d \in Paid(b) : variant'[d] = variant[d]
      BY <1>15, <2>1 DEF Paid
    <2>5. CASE p > 0
      <3>1. Paid(b)' = Paid(b) \cup {a}
        BY <2>2, <2>5
      <3>2. \A d \in Paid(b) : g[d] = f[d] /\ f[d] \in Nat
        BY <2>3, <2>4, <3>1
      <3>3. g[a] = p
        BY <1>5, <1>7, <3>1
      <3>4. g \in [Paid(b) \cup {a} -> Nat]
        <4>1. \A d \in Paid(b) \cup {a} : g[d] \in Nat
          BY <1>3, <3>2, <3>3
        <4>2. g = [d \in Paid(b) \cup {a} |-> g[d]]
          BY <3>1
        <4>. HIDE DEF g
        <4>. QED
          BY <4>1, <4>2
      <3>. HIDE DEF f, g
      <3>5. Total(g) = Total(f) + g[a]
        <4>1. \A d \in Paid(b) : g[d] = f[d]
          BY <3>2
        <4>. QED
          BY <1>15, <2>3, <3>4, <4>1, SummandJoins, SMTT(20)
      <3>. QED
        BY <2>2, <3>3, <3>5 DEF f, g, PaidOut
    <2>6. CASE ~(p > 0)
      <3>1. p = 0 /\ Paid(b)' = Paid(b)
        BY <1>3, <2>2, <2>6
      <3>2. g = f
        BY <2>4, <3>1
      <3>. QED
        BY <2>2, <2>3, <3>1, <3>2 DEF PaidOut
    <2>. QED
      BY <2>5, <2>6
  <1>17. ASSUME NEW c \in DOMAIN bounty
         PROVE  (InOrder(c)' => InOrder(c)) /\ Running(c)' = Running(c)
    <2>1. Running(c)' = Running(c)
      BY <1>9 DEF Running
    <2>2. ASSUME InOrder(c)'
          PROVE  InOrder(c)
      <3>1. \A d \in DOMAIN variant : variant[d].vetoed => variant'[d].vetoed
        BY <1>2, <1>7
      <3>2. \A d \in Of(c) : ~variant[d].vetoed
        BY <1>13, <2>2, <3>1 DEF InOrder, Of
      <3>3. \A d \in Paid(c) : d \in Paid(c)' /\ variant'[d].at = variant[d].at
        BY <1>7, <1>14, <1>15, <1>16 DEF Paid, Of
      <3>4. \A d \in Paid(c) : bounty[c].expires = 0 \/ variant[d].at < bounty[c].expires
        BY <1>9, <2>2, <3>3 DEF InOrder
      <3>5. PaidOut(c)' <= bounty[c].escrow
        BY <1>9, <2>2 DEF InOrder
      <3>6. PaidOut(c) <= bounty[c].escrow
        <4>1. bounty[c].escrow \in Nat /\ PaidOut(c) \in Nat
          BY RecordFacts, PaidFacts DEF FundInv, Bounty
        <4>. QED
          BY <1>3, <1>14, <1>16, <3>5, <4>1
      <3>. QED
        BY <3>2, <3>4, <3>6 DEF InOrder
    <2>. QED
      BY <2>1, <2>2
  <1>18. ASSUME InOrder(b)', Running(b)
         PROVE  locked[b] + PaidOut(b) = bounty[b].escrow /\ locked[b] >= p
    <2>1. InOrder(b)
      BY <1>2, <1>17, <1>18
    <2>2. locked[b] + PaidOut(b) = bounty[b].escrow
      BY <1>2, <1>18, <2>1 DEF FundInv, EscrowsExact
    <2>3. PaidOut(b) + p <= bounty[b].escrow
      BY <1>2, <1>9, <1>16, <1>18 DEF InOrder
    <2>4. locked[b] \in Nat /\ PaidOut(b) \in Nat
      BY <1>2, RecordFacts, PaidFacts DEF FundInv
    <2>. QED
      BY <1>3, <2>2, <2>3, <2>4
  <1>19. EscrowsExact'
    <2>1. ASSUME NEW c \in DOMAIN bounty, c # b, InOrder(c)', Running(c)'
          PROVE  locked'[c] + PaidOut(c)' = bounty'[c].escrow
      <3>1. locked[c] + PaidOut(c) = bounty[c].escrow
        BY <1>17, <2>1 DEF FundInv, EscrowsExact
      <3>2. locked'[c] = locked[c] /\ PaidOut(c)' = PaidOut(c)
        BY <1>10, <1>14, <2>1
      <3>. QED
        BY <1>9, <3>1, <3>2
    <2>2. ASSUME InOrder(b)', Running(b)'
          PROVE  locked'[b] + PaidOut(b)' = bounty'[b].escrow
      <3>1. locked[b] + PaidOut(b) = bounty[b].escrow /\ locked[b] >= p
        BY <1>2, <1>17, <1>18, <2>2
      <3>2. locked'[b] = locked[b] - p /\ PaidOut(b)' = PaidOut(b) + p /\ bounty'[b].escrow = bounty[b].escrow
        BY <1>2, <1>9, <1>10, <1>16, <3>1
      <3>3. locked[b] \in Nat /\ PaidOut(b) \in Nat
        BY <1>2, RecordFacts, PaidFacts DEF FundInv
      <3>. QED
        BY <1>3, <3>1, <3>2, <3>3
    <2>. QED
      BY <1>8, <2>1, <2>2 DEF EscrowsExact
  <1>20. NoneBeyond'
    <2>1. CASE over > 0
      BY <1>8, <1>17, <2>1 DEF FundInv, NoneBeyond
    <2>2. CASE locked[b] >= p
      BY <1>8, <1>10, <1>17, <2>2 DEF FundInv, NoneBeyond
    <2>3. CASE ~(locked[b] >= p)
      <3>1. locked[b] \in Nat
        BY <1>2, RecordFacts DEF FundInv
      <3>2. p > 0
        BY <1>3, <2>3, <3>1
      <3>3. CASE Running(b)
        BY <1>2, <1>8, <1>18, <2>3, <3>3 DEF NoneBeyond
      <3>4. CASE ~Running(b)
        <4>1. a \in Paid(b)' /\ variant'[a].at = height
          BY <1>5, <1>7, <1>16, <3>2
        <4>2. ~(bounty'[b].expires = 0 \/ height < bounty'[b].expires)
          BY <1>2, <1>9, <3>4 DEF Running
        <4>3. ~InOrder(b)'
          BY <4>1, <4>2 DEF InOrder
        <4>. QED
          BY <1>2, <1>8, <4>3 DEF NoneBeyond
      <3>. QED
        BY <3>3, <3>4
    <2>. QED
      BY <2>2, <2>3
  <1>21. PlacesPaidOnce'
    <2>1. ASSUME NEW c \in DOMAIN bounty, c # b, bounty'[c].reward > 0
          PROVE  Cardinality(Paid(c)') = bounty'[c].accepted
      BY <1>8, <1>14, <2>1 DEF FundInv, PlacesPaidOnce
    <2>2. ASSUME bounty'[b].reward > 0
          PROVE  Cardinality(Paid(b)') = bounty'[b].accepted
      <3>1. Cardinality(Paid(b)) = bounty[b].accepted /\ p > 0
        BY <1>2, <1>3, <1>9, <2>2 DEF FundInv, PlacesPaidOnce
      <3>2. IsFiniteSet(Paid(b))
        BY PaidFacts DEF FundInv
      <3>3. Cardinality(Paid(b) \cup {a}) = Cardinality(Paid(b)) + 1
        BY <1>15, <3>2, FS_AddElement
      <3>. QED
        BY <1>6, <1>8, <1>16, <3>1, <3>3
    <2>. QED
      BY <1>8, <2>1, <2>2 DEF PlacesPaidOnce
  <1>22. VerdictAtFirstConsensus'
    <2>1. v # "pending"
      BY WinnersOfBallot DEF FundAssumption
    <2>. QED
      BY <1>5, <1>7, <2>1 DEF FundInv, VerdictAtFirstConsensus
  <1>. QED
    BY <1>11, <1>12, <1>19, <1>20, <1>21, <1>22 DEF FundInv

\* A vote is cast, and with it perhaps the verdict.
LEMMA VoteKeeps ==
    ASSUME FundAssumption, FundInv, NEW a \in DOMAIN variant, NEW v \in Verifiers, NEW vote \in Verdicts,
           NEW weight \in Weights, VoteOnAugmentation(a, v, vote, weight), UNCHANGED due
    PROVE  FundInv'
  <1>. DEFINE votes == Cast(a, v, vote, weight)
  <1>1. variant[a] \in Variant /\ variant[a].verdict = "pending" /\ variant[a].payout = 0
    BY RecordFacts DEF FundInv, Records, VoteOnAugmentation
  <1>2. Winners(variant[a].votes) = {}
    BY <1>1 DEF FundInv, VerdictAtFirstConsensus
  <1>3. votes \in Seq(Vote) /\ SubSeq(votes, 1, Len(votes) - 1) = variant[a].votes
    <2>. DEFINE one == [who |-> v, vote |-> vote, weight |-> weight]
    <2>1. one \in Vote /\ variant[a].votes \in Seq(Vote)
      BY <1>1 DEF Vote, Variant
    <2>2. votes = Append(variant[a].votes, one)
      BY DEF Cast
    <2>. HIDE DEF one, votes
    <2>. QED
      BY <2>1, <2>2, BeforeLastVote
  <1>. HIDE DEF votes
  <1>4. UNCHANGED <<challenge, bonus, neutral, height, due, kept>>
    BY DEF VoteOnAugmentation
  <1>5. CASE Winners(votes) = {} /\ variant' = [variant EXCEPT ![a].votes = votes] /\ UNCHANGED <<fund, locked, over, bounty>>
    <2>. DEFINE x == [variant[a] EXCEPT !.votes = votes]
    <2>1. x \in Variant /\ x.bounty = variant[a].bounty /\ x.payout = 0 /\ x.vetoed = variant[a].vetoed
          /\ x.verdict = "pending" /\ x.votes = votes
      BY <1>1, <1>3 DEF Variant
    <2>2. variant' = [variant EXCEPT ![a] = x]
      BY <1>5
    <2>. HIDE DEF x
    <2>3. BallotOK(x)
      BY <1>5, <2>1 DEF BallotOK
    <2>4. /\ x.payout = variant[a].payout /\ (x.payout > 0 => x.at = variant[a].at)
          /\ (x.verdict = "pending" => variant[a].verdict = "pending")
          /\ UNCHANGED <<bounty, locked, challenge, fund, bonus, neutral, height, due, over, kept>>
      BY <1>1, <1>4, <1>5, <2>1
    <2>. QED
      BY <2>1, <2>2, <2>3, <2>4, RewriteKeeps
  <1>6. ASSUME NEW verdict \in Winners(votes), Finalize(a, votes, verdict)
        PROVE  FundInv'
    <2>1. verdict \in Verdicts /\ verdict # "pending" /\ height \in Nat
      BY WinnersOfBallot DEF FundAssumption, FundInv, Records
    <2>2. CASE Pays(a, verdict)
      BY <1>1, <1>2, <1>3, <1>4, <1>6, <2>2, PayKeeps
    <2>3. CASE ~Pays(a, verdict)
      <3>. DEFINE x == Decided(a, votes, verdict)
                  acc == variant[a].accepted \/ Pays(a, verdict) \/ (verdict \in Passing /\ variant[a].bounty = NoBounty)
                  pay == IF Pays(a, verdict) THEN Payout(variant[a].bounty, verdict) ELSE variant[a].payout
      <3>1. x = [variant[a] EXCEPT !.votes = votes, !.verdict = verdict, !.at = height, !.accepted = acc, !.payout = pay]
        BY DEF Decided
      <3>2. pay = 0 /\ acc \in BOOLEAN
        BY <1>1, <2>3
      <3>3. variant' = [variant EXCEPT ![a] = x] /\ UNCHANGED <<fund, locked, over, bounty>>
        BY <1>6, <2>3 DEF Finalize
      <3>. HIDE DEF x, acc, pay
      <3>4. x \in Variant /\ x.bounty = variant[a].bounty /\ x.payout = 0 /\ x.vetoed = variant[a].vetoed
            /\ x.verdict = verdict /\ x.votes = votes
        BY <1>1, <1>3, <2>1, <3>1, <3>2 DEF Variant
      <3>5. BallotOK(x)
        BY <1>2, <1>3, <1>6, <2>1, <3>4 DEF BallotOK
      <3>6. /\ x.payout = variant[a].payout /\ (x.payout > 0 => x.at = variant[a].at)
            /\ (x.verdict = "pending" => variant[a].verdict = "pending")
            /\ UNCHANGED <<bounty, locked, challenge, fund, bonus, neutral, height, due, over, kept>>
        BY <1>1, <1>4, <2>1, <3>3, <3>4
      <3>. QED
        BY <3>3, <3>4, <3>5, <3>6, RewriteKeeps
    <2>. QED
      BY <2>2, <2>3
  <1>. QED
    BY <1>5, <1>6 DEF VoteOnAugmentation, votes

\* A variant is accepted: it is neither judged nor paid by that.
LEMMA AcceptKeeps ==
    ASSUME FundAssumption, FundInv, NEW a \in DOMAIN variant, AcceptAugmentation(a), UNCHANGED due
    PROVE  FundInv'
  <1>. DEFINE x == [variant[a] EXCEPT !.accepted = TRUE]
  <1>1. /\ variant' = [variant EXCEPT ![a] = x]
        /\ UNCHANGED <<bounty, locked, challenge, fund, bonus, neutral, height, due, over, kept>>
    BY DEF AcceptAugmentation, history
  <1>2. variant[a] \in Variant
    BY RecordFacts DEF FundInv
  <1>3. x \in Variant /\ x.bounty = variant[a].bounty /\ x.payout = variant[a].payout /\ x.vetoed = variant[a].vetoed
        /\ x.verdict = variant[a].verdict /\ x.votes = variant[a].votes /\ x.at = variant[a].at
    BY <1>2 DEF Variant
  <1>. HIDE DEF x
  <1>4. BallotOK(x)
    BY <1>3 DEF FundInv, VerdictAtFirstConsensus, BallotOK
  <1>. QED
    BY <1>1, <1>3, <1>4, RewriteKeeps

\* A sponsor's veto: coins leave for the bounty of a vetoed variant, and its books are out of order from then on.
LEMMA VetoKeeps ==
    ASSUME FundAssumption, FundInv, NEW a \in DOMAIN variant, SponsorVetoAugmentation(a), UNCHANGED due
    PROVE  FundInv'
  <1>0. PICK b : b = variant[a].bounty
    OBVIOUS
  <1>1. PICK p : p = Forfeit(a)
    OBVIOUS
  <1>. DEFINE x == [variant[a] EXCEPT !.vetoed = TRUE]
  <1>2. /\ b # 0 /\ variant[a].verdict \in Passing /\ TakeFromEscrow(b, p)
        /\ variant' = [variant EXCEPT ![a] = x] /\ UNCHANGED <<bounty, challenge, bonus, neutral, height, kept>>
    BY <1>0, <1>1 DEF SponsorVetoAugmentation, NoBounty
  <1>3. variant[a] \in Variant /\ b \in DOMAIN bounty
    <2>1. variant[a] \in Variant /\ b <= Len(bounty)
      BY <1>0, RecordFacts DEF FundInv, Records
    <2>. QED
      BY <1>0, <1>2, <2>1, RecordFacts DEF FundInv, Variant
  <1>4. p \in Nat
    BY <1>0, <1>1, <1>3, RecordFacts DEF FundInv, Forfeit, Variant, Bounty
  <1>5. x \in Variant /\ x.bounty = b /\ x.payout = variant[a].payout /\ x.vetoed
        /\ x.verdict = variant[a].verdict /\ x.votes = variant[a].votes /\ x.at = variant[a].at
    BY <1>0, <1>3 DEF Variant
  <1>. HIDE DEF x
  <1>6. /\ variant' \in Seq(Variant) /\ Len(variant') = Len(variant) /\ DOMAIN variant' = DOMAIN variant
        /\ variant'[a] = x /\ \A c \in DOMAIN variant \ {a} : variant'[c] = variant[c]
        /\ \A c : Of(c)' = Of(c) /\ Paid(c)' = Paid(c) /\ PaidOut(c)' = PaidOut(c)
        /\ \A c : InOrder(c)' => InOrder(c)
    BY <1>0, <1>2, <1>5, VariantRewritten DEF FundInv
  <1>7. /\ locked' \in Seq(Nat) /\ Len(locked') = Len(locked) /\ fund' \in Nat /\ over' \in Nat
        /\ \A c \in DOMAIN bounty : c # b => locked'[c] = locked[c]
    BY <1>2, <1>3, <1>4, TakeFacts DEF FundInv
  <1>8. Records'
    <2>1. variant[a].verdict # "pending"
      BY <1>2 DEF Passing
    <2>2. \A c \in DOMAIN variant' : /\ variant'[c].bounty <= Len(bounty)
                                     /\ variant'[c].verdict = "pending" => variant'[c].payout = 0 /\ ~variant'[c].vetoed
      BY <1>0, <1>5, <1>6, <2>1 DEF FundInv, Records
    <2>. QED
      BY <1>2, <1>6, <1>7, <2>2 DEF FundInv, Records
  <1>9. FundAccounted'
    BY <1>2, <1>3, <1>4, TakeKeepsSum
  <1>10. ~InOrder(b)'
    <2>1. a \in Of(b)' /\ variant'[a].vetoed
      BY <1>0, <1>5, <1>6 DEF Of
    <2>. QED
      BY <2>1 DEF InOrder
  <1>11. EscrowsExact'
    <2>1. ASSUME NEW c \in DOMAIN bounty, InOrder(c)', Running(c)'
          PROVE  locked'[c] + PaidOut(c)' = bounty[c].escrow
      <3>1. InOrder(c) /\ Running(c) /\ c # b
        BY <1>2, <1>6, <1>10, <2>1 DEF Running
      <3>2. locked[c] + PaidOut(c) = bounty[c].escrow
        BY <3>1 DEF FundInv, EscrowsExact
      <3>3. locked'[c] = locked[c] /\ PaidOut(c)' = PaidOut(c)
        BY <1>6, <1>7, <3>1
      <3>. QED
        BY <3>2, <3>3
    <2>. QED
      BY <1>2, <2>1 DEF EscrowsExact
  <1>12. NoneBeyond'
    BY <1>2, <1>3, <1>10 DEF NoneBeyond
  <1>13. PlacesPaidOnce'
    BY <1>2, <1>6 DEF FundInv, PlacesPaidOnce
  <1>14. VerdictAtFirstConsensus'
    BY <1>5, <1>6 DEF FundInv, VerdictAtFirstConsensus
  <1>. QED
    BY <1>8, <1>9, <1>11, <1>12, <1>13, <1>14 DEF FundInv

\* A step of the challenges leaves the bounties' books alone.
LEMMA ChallengeStepKeeps ==
    ASSUME FundInv, UNCHANGED <<bounty, locked, variant, bonus, neutral, height, due, over, kept>>,
           challenge' \in Seq(Challenge), fund' \in Nat, FundAccounted'
    PROVE  FundInv'
  <1>1. \A b : /\ Of(b)' = Of(b) /\ Paid(b)' = Paid(b) /\ PaidOut(b)' = PaidOut(b)
               /\ InOrder(b)' = InOrder(b) /\ Running(b)' = Running(b)
    BY SamePaid
  <1>2. Records'
    BY DEF FundInv, Records
  <1>3. EscrowsExact' /\ NoneBeyond' /\ PlacesPaidOnce'
    BY <1>1, LedgerKept
  <1>4. VerdictAtFirstConsensus'
    BY DEF FundInv, VerdictAtFirstConsensus
  <1>. QED
    BY <1>2, <1>3, <1>4 DEF FundInv

\* A challenge brings its bond.
LEMMA ChallengeKeeps ==
    ASSUME FundAssumption, FundInv, NEW bond \in Bonds, ChallengeContribution(bond), UNCHANGED due
    PROVE  FundInv'
  <1>0. PICK n : n = Len(challenge) + 1
    OBVIOUS
  <1>. DEFINE r == [bond |-> bond, status |-> "open"]
  <1>1. /\ fund' = fund + bond /\ challenge' = Append(challenge, r)
        /\ UNCHANGED <<bounty, locked, variant, bonus, neutral, height, due, over, kept>>
    BY DEF ChallengeContribution, history
  <1>2. /\ challenge \in Seq(Challenge) /\ Len(challenge) \in Nat /\ DOMAIN challenge = 1 .. Len(challenge)
        /\ bond \in Nat /\ fund \in Nat /\ over \in Nat /\ kept \in Nat
    BY RecordFacts DEF FundInv, Records, FundAssumption
  <1>3. r \in Challenge /\ r.bond = bond /\ r.status = "open"
    BY <1>2 DEF Challenge
  <1>. HIDE DEF r
  <1>4. /\ challenge' \in Seq(Challenge) /\ DOMAIN challenge' = DOMAIN challenge \cup {n} /\ challenge'[n] = r
        /\ n \notin DOMAIN challenge /\ \A c \in DOMAIN challenge : challenge'[c] = challenge[c]
    <2>1. /\ challenge' \in Seq(Challenge) /\ Len(challenge') = n /\ challenge'[n] = r
          /\ \A c \in 1 .. Len(challenge) : challenge'[c] = challenge[c]
      BY <1>0, <1>1, <1>2, <1>3, AppendProperties
    <2>2. DOMAIN challenge' = 1 .. n
      BY <2>1, LenProperties
    <2>. QED
      BY <1>0, <1>2, <2>1, <2>2
  <1>5. Total(OpenBonds') = Total(OpenBonds) + bond /\ Total(OpenBonds) \in Nat /\ Total(locked) \in Nat
    <2>1. /\ IsFiniteSet(DOMAIN challenge) /\ OpenBonds \in [DOMAIN challenge -> Nat]
          /\ Total(OpenBonds) \in Nat /\ Total(locked) \in Nat
      BY BondFacts DEF FundInv
    <2>2. \A c \in DOMAIN challenge : OpenBonds'[c] = OpenBonds[c]
      BY <1>4 DEF OpenBonds, OpenBond
    <2>3. OpenBonds'[n] = bond
      BY <1>3, <1>4 DEF OpenBonds, OpenBond
    <2>4. OpenBonds' \in [DOMAIN challenge \cup {n} -> Nat]
      <3>1. \A c \in DOMAIN challenge \cup {n} : OpenBonds'[c] \in Nat
        BY <1>2, <2>1, <2>2, <2>3
      <3>2. OpenBonds' = [c \in DOMAIN challenge \cup {n} |-> OpenBonds'[c]]
        BY <1>4 DEF OpenBonds
      <3>. QED
        BY <3>1, <3>2
    <2>5. Total(OpenBonds') = Total(OpenBonds) + OpenBonds'[n]
      <3>1. n \notin DOMAIN challenge /\ IsFiniteSet(DOMAIN challenge)
        BY <1>4, <2>1
      <3>2. OpenBonds \in [DOMAIN challenge -> Nat]
        BY <2>1
      <3>. QED
        BY <2>2, <2>4, <3>1, <3>2, TotalExtend
    <2>. QED
      BY <2>1, <2>3, <2>5
  <1>6. FundAccounted'
    <2>1. fund + over = Total(locked) + Total(OpenBonds) + kept
      BY DEF FundInv, FundAccounted, OpenBonds
    <2>. DEFINE l == Total(locked)
                h == Total(OpenBonds)
    <2>2. l \in Nat /\ h \in Nat /\ fund + over = l + h + kept
      BY <1>5, <2>1
    <2>3. /\ fund' = fund + bond /\ over' = over /\ kept' = kept /\ Total(locked') = l
          /\ Total(OpenBonds') = h + bond
      BY <1>1, <1>5
    <2>. HIDE DEF l, h
    <2>4. fund' + over' = Total(locked') + Total(OpenBonds') + kept'
      BY <1>2, <2>2, <2>3
    <2>. QED
      BY <2>4 DEF FundAccounted, OpenBonds
  <1>7. fund' \in Nat
    BY <1>1, <1>2
  <1>. QED
    BY <1>1, <1>4, <1>6, <1>7, ChallengeStepKeeps

\* A challenge is resolved and its bond leaves.
LEMMA ResolveKeeps ==
    ASSUME FundAssumption, FundInv, NEW n \in DOMAIN challenge, NEW status \in {"upheld", "rejected"},
           ResolveContributionChallenge(n, status), UNCHANGED due
    PROVE  FundInv'
  <1>0. PICK bond : bond = challenge[n].bond
    OBVIOUS
  <1>. DEFINE r == [challenge[n] EXCEPT !.status = status]
  <1>1. /\ fund >= bond /\ fund' = fund - bond /\ challenge' = [challenge EXCEPT ![n] = r]
        /\ challenge[n].status = "open"
        /\ UNCHANGED <<bounty, locked, variant, bonus, neutral, height, due, over, kept>>
    BY <1>0 DEF ResolveContributionChallenge, history
  <1>2. /\ challenge \in Seq(Challenge) /\ DOMAIN challenge = 1 .. Len(challenge) /\ challenge[n] \in Challenge
        /\ bond \in Nat /\ fund \in Nat /\ over \in Nat /\ kept \in Nat
    BY <1>0, RecordFacts DEF FundInv, Records, Challenge
  <1>3. r \in Challenge /\ r.bond = bond /\ r.status # "open"
    BY <1>0, <1>2 DEF Challenge
  <1>. HIDE DEF r
  <1>4. /\ challenge' \in Seq(Challenge) /\ DOMAIN challenge' = DOMAIN challenge /\ challenge'[n] = r
        /\ \A c \in DOMAIN challenge : c # n => challenge'[c] = challenge[c]
    <2>1. /\ challenge' \in Seq(Challenge) /\ Len(challenge') = Len(challenge)
          /\ \A c \in 1 .. Len(challenge) : challenge'[c] = IF c = n THEN r ELSE challenge[c]
      BY <1>1, <1>2, <1>3, ExceptSeq
    <2>2. DOMAIN challenge' = 1 .. Len(challenge')
      BY <2>1, LenProperties
    <2>. QED
      BY <1>2, <2>1, <2>2
  <1>5. Total(OpenBonds') = Total(OpenBonds) - bond /\ Total(OpenBonds) \in Nat /\ Total(OpenBonds') \in Nat /\ Total(locked) \in Nat
    <2>1. /\ IsFiniteSet(DOMAIN challenge) /\ OpenBonds \in [DOMAIN challenge -> Nat]
          /\ Total(OpenBonds) \in Nat /\ Total(locked) \in Nat
      BY BondFacts DEF FundInv
    <2>2. \A c \in DOMAIN challenge : c # n => OpenBonds'[c] = OpenBonds[c]
      BY <1>4 DEF OpenBonds, OpenBond
    <2>3. OpenBonds'[n] = 0 /\ OpenBonds[n] = bond
      BY <1>0, <1>1, <1>3, <1>4 DEF OpenBonds, OpenBond
    <2>4. OpenBonds' \in [DOMAIN challenge -> Nat]
      <3>1. \A c \in DOMAIN challenge : OpenBonds'[c] \in Nat
        BY <2>1, <2>2, <2>3
      <3>2. OpenBonds' = [c \in DOMAIN challenge |-> OpenBonds'[c]]
        BY <1>4 DEF OpenBonds
      <3>. QED
        BY <3>1, <3>2
    <2>5. Total(OpenBonds') \in Nat /\ Total(OpenBonds') = Total(OpenBonds) - OpenBonds[n] + OpenBonds'[n]
      BY <2>1, <2>2, <2>4, SummandChanges, SMTT(20)
    <2>. QED
      BY <1>2, <2>1, <2>3, <2>5
  <1>6. FundAccounted'
    <2>1. fund + over = Total(locked) + Total(OpenBonds) + kept
      BY DEF FundInv, FundAccounted, OpenBonds
    <2>. DEFINE l == Total(locked)
                h == Total(OpenBonds)
    <2>2. l \in Nat /\ h \in Nat /\ fund + over = l + h + kept
      BY <1>5, <2>1
    <2>3. /\ fund' = fund - bond /\ over' = over /\ kept' = kept /\ Total(locked') = l
          /\ Total(OpenBonds') = h - bond
      BY <1>1, <1>5
    <2>. HIDE DEF l, h
    <2>4. fund' + over' = Total(locked') + Total(OpenBonds') + kept'
      BY <1>2, <2>2, <2>3
    <2>. QED
      BY <2>4 DEF FundAccounted, OpenBonds
  <1>7. fund' \in Nat
    BY <1>1, <1>2
  <1>. QED
    BY <1>1, <1>4, <1>6, <1>7, ChallengeStepKeeps

\* A block begins: time passes, and the bounties that reached their height are listed.
LEMMA BeginKeeps ==
    ASSUME FundInv, BeginBlocker
    PROVE  FundInv'
  <1>1. /\ height' = height + 1 /\ due' = {b \in DOMAIN bounty : Due(b, height + 1)} /\ height \in Nat
        /\ UNCHANGED <<bounty, locked, variant, challenge, fund, bonus, neutral, over, kept>>
    BY DEF BeginBlocker, history, FundInv, Records
  <1>2. Records'
    <2>1. height' \in Nat
      BY <1>1
    <2>2. due' \subseteq DOMAIN bounty /\ \A b \in due' : bounty[b].expires # 0 /\ bounty[b].expires <= height'
      BY <1>1 DEF Due
    <2>. QED
      BY <1>1, <2>1, <2>2 DEF FundInv, Records
  <1>3. FundAccounted'
    BY <1>1 DEF FundInv, FundAccounted, OpenBond
  <1>4. \A b : Paid(b)' = Paid(b) /\ PaidOut(b)' = PaidOut(b) /\ InOrder(b)' = InOrder(b)
    BY <1>1, SamePaid
  <1>5. \A b \in DOMAIN bounty : Running(b)' => Running(b)
    <2>1. \A b \in DOMAIN bounty : bounty[b].expires \in Nat
      BY RecordFacts DEF FundInv, Bounty
    <2>. QED
      BY <1>1, <2>1 DEF Running
  <1>6. EscrowsExact' /\ NoneBeyond' /\ PlacesPaidOnce'
    BY <1>1, <1>4, <1>5, LedgerKept
  <1>7. VerdictAtFirstConsensus'
    BY <1>1 DEF FundInv, VerdictAtFirstConsensus
  <1>. QED
    BY <1>2, <1>3, <1>6, <1>7 DEF FundInv

\* The fee and the refund of an expiry share out the bounty's entry.
LEMMA ExpiryShares ==
    ASSUME FundAssumption, Records, NEW b \in DOMAIN bounty
    PROVE  ExpiryFee(b) \in Nat /\ Refund(b) \in Nat /\ Refund(b) + ExpiryFee(b) = locked[b] /\ locked[b] \in Nat
  <1>1. locked[b] \in Nat
    BY RecordFacts
  <1>2. ExpiryFee(b) \in Nat /\ ExpiryFee(b) <= locked[b]
    BY <1>1, ShareAtMost DEF FundAssumption, ExpiryFee
  <1>. QED
    BY <1>1, <1>2 DEF Refund

\* The next due bounty is expired, or waits.
LEMMA ExpireKeeps ==
    ASSUME FundAssumption, FundInv, NEW b \in DOMAIN bounty, ExpireNext(b)
    PROVE  FundInv'
  <1>1. /\ b \in due /\ due' = due \ {b} /\ UNCHANGED <<variant, challenge, bonus, neutral, height, over>>
    BY DEF ExpireNext
  <1>2. CASE UNCHANGED <<bounty, locked, fund, kept>>
    <2>1. \A c : /\ Of(c)' = Of(c) /\ Paid(c)' = Paid(c) /\ PaidOut(c)' = PaidOut(c)
                 /\ InOrder(c)' = InOrder(c) /\ Running(c)' = Running(c)
      BY <1>1, <1>2, SamePaid
    <2>2. Records'
      BY <1>1, <1>2 DEF FundInv, Records
    <2>3. FundAccounted'
      BY <1>1, <1>2 DEF FundInv, FundAccounted, OpenBond
    <2>4. EscrowsExact' /\ NoneBeyond' /\ PlacesPaidOnce'
      BY <1>1, <1>2, <2>1, LedgerKept
    <2>5. VerdictAtFirstConsensus'
      BY <1>1 DEF FundInv, VerdictAtFirstConsensus
    <2>. QED
      BY <2>2, <2>3, <2>4, <2>5 DEF FundInv
  <1>3. CASE ~UNCHANGED <<bounty, locked, fund, kept>>
    <2>1. PICK fee, refund : fee = ExpiryFee(b) /\ refund = Refund(b)
      OBVIOUS
    <2>3. /\ fund >= refund /\ locked' = [locked EXCEPT ![b] = 0]
          /\ bounty' = [bounty EXCEPT ![b].active = FALSE]
          /\ fund' = (IF fund - refund >= fee THEN (fund - refund) - fee ELSE fund - refund)
          /\ kept' = (IF fund - refund >= fee THEN kept ELSE kept + fee)
      BY <1>3, <2>1 DEF ExpireNext
    <2>4. fee \in Nat /\ refund \in Nat /\ refund + fee = locked[b] /\ fund \in Nat /\ kept \in Nat /\ over \in Nat
          /\ locked[b] \in Nat
      BY <2>1, ExpiryShares DEF FundInv, Records
    <2>5. fund' \in Nat /\ kept' \in Nat /\ fund' + locked[b] = fund + (kept' - kept)
      <3>1. CASE fund - refund >= fee
        <4>1. fund - refund >= fee /\ fund' = (fund - refund) - fee /\ kept' = kept
          BY <2>3, <3>1
        <4>. QED
          BY <2>4, <4>1
      <3>2. CASE ~(fund - refund >= fee)
        <4>1. fund' = fund - refund /\ kept' = kept + fee
          BY <2>3, <3>2
        <4>. QED
          BY <2>3, <2>4, <4>1
      <3>. QED
        BY <3>1, <3>2
    <2>6. /\ locked' \in Seq(Nat) /\ Len(locked') = Len(locked) /\ Total(locked) \in Nat /\ Total(locked') \in Nat
          /\ Total(locked') = Total(locked) - locked[b]
          /\ \A c \in DOMAIN bounty : c # b => locked'[c] = locked[c]
      <3>1. locked \in Seq(Nat) /\ b \in 1 .. Len(locked) /\ DOMAIN bounty = 1 .. Len(locked) /\ 0 \in Nat
        BY RecordFacts DEF FundInv, Records
      <3>2. /\ locked' \in Seq(Nat) /\ Total(locked) \in Nat /\ Total(locked') \in Nat
            /\ Total(locked') = Total(locked) - locked[b] + 0
        BY <2>3, <3>1, ElementTotal
      <3>3. Len(locked') = Len(locked) /\ \A c \in 1 .. Len(locked) : c # b => locked'[c] = locked[c]
        BY <2>3, <3>1, ExceptSeq
      <3>. QED
        BY <2>4, <3>1, <3>2, <3>3
    <2>7. /\ bounty' \in Seq(Bounty) /\ Len(bounty') = Len(bounty) /\ DOMAIN bounty' = DOMAIN bounty
          /\ \A c \in DOMAIN bounty : /\ bounty'[c].expires = bounty[c].expires /\ bounty'[c].escrow = bounty[c].escrow
                                      /\ bounty'[c].reward = bounty[c].reward /\ bounty'[c].max = bounty[c].max
                                      /\ bounty'[c].accepted = bounty[c].accepted
      <3>. DEFINE r == [bounty[b] EXCEPT !.active = FALSE]
      <3>1. bounty' = [bounty EXCEPT ![b] = r] /\ bounty[b] \in Bounty
        BY <2>3, RecordFacts DEF FundInv
      <3>2. /\ r \in Bounty /\ r.expires = bounty[b].expires /\ r.escrow = bounty[b].escrow
            /\ r.reward = bounty[b].reward /\ r.max = bounty[b].max /\ r.accepted = bounty[b].accepted
        BY <3>1 DEF Bounty
      <3>. HIDE DEF r
      <3>3. DOMAIN bounty = 1 .. Len(bounty) /\ bounty \in Seq(Bounty)
        BY RecordFacts DEF FundInv, Records
      <3>4. /\ bounty' \in Seq(Bounty) /\ Len(bounty') = Len(bounty)
            /\ \A c \in 1 .. Len(bounty) : bounty'[c] = IF c = b THEN r ELSE bounty[c]
        BY <3>1, <3>2, <3>3, ExceptSeq
      <3>5. DOMAIN bounty' = 1 .. Len(bounty')
        BY <3>4, LenProperties
      <3>. QED
        BY <3>2, <3>3, <3>4, <3>5
    <2>8. Records'
      BY <1>1, <2>5, <2>6, <2>7 DEF FundInv, Records
    <2>9. FundAccounted'
      <3>1. fund + over = Total(locked) + Total(OpenBonds) + kept
        BY DEF FundInv, FundAccounted, OpenBonds
      <3>2. OpenBonds' = OpenBonds /\ Total(OpenBonds) \in Nat
        BY <1>1, BondFacts DEF FundInv, OpenBonds, OpenBond
      <3>. DEFINE l == Total(locked)
                  h == Total(OpenBonds)
      <3>3. l \in Nat /\ h \in Nat /\ fund + over = l + h + kept /\ Total(locked') = l - locked[b]
            /\ Total(OpenBonds') = h /\ over' = over
        BY <1>1, <2>6, <3>1, <3>2
      <3>. HIDE DEF l, h
      <3>4. fund' + over' = Total(locked') + Total(OpenBonds') + kept'
        <4>1. PICK f, n, m \in Nat : f = fund' /\ n = kept' /\ m = locked[b]
          BY <2>4, <2>5
        <4>2. f + m = fund + (n - kept) /\ fund + over = l + h + kept
          BY <2>5, <3>3, <4>1
        <4>3. l \in Nat /\ h \in Nat /\ fund \in Nat /\ over \in Nat /\ kept \in Nat
          BY <2>4, <3>3
        <4>4. f + over = (l - m) + h + n
          BY <4>2, <4>3
        <4>. QED
          BY <3>3, <4>1, <4>4
      <3>. QED
        BY <3>4 DEF FundAccounted, OpenBonds
    <2>10. \A c : Of(c)' = Of(c) /\ Paid(c)' = Paid(c) /\ PaidOut(c)' = PaidOut(c)
      BY <1>1 DEF Of, Paid, PaidOut
    <2>11. \A c \in DOMAIN bounty : InOrder(c)' = InOrder(c) /\ Running(c)' = Running(c)
      BY <1>1, <2>7, <2>10 DEF InOrder, Running
    <2>12. EscrowsExact'
      <3>1. ~Running(b)
        <4>1. bounty[b].expires # 0 /\ bounty[b].expires <= height /\ bounty[b].expires \in Nat /\ height \in Nat
          BY <1>1, RecordFacts DEF FundInv, Records, Bounty
        <4>. QED
          BY <4>1 DEF Running
      <3>2. ASSUME NEW c \in DOMAIN bounty, InOrder(c)', Running(c)'
            PROVE  locked'[c] + PaidOut(c)' = bounty'[c].escrow
        <4>1. c # b /\ locked[c] + PaidOut(c) = bounty[c].escrow
          BY <2>11, <3>1, <3>2 DEF FundInv, EscrowsExact
        <4>2. locked'[c] = locked[c] /\ PaidOut(c)' = PaidOut(c) /\ bounty'[c].escrow = bounty[c].escrow
          BY <2>6, <2>7, <2>10, <4>1
        <4>. QED
          BY <4>1, <4>2
      <3>. QED
        BY <2>7, <3>2 DEF EscrowsExact
    <2>13. NoneBeyond'
      BY <1>1, <2>7, <2>11 DEF FundInv, NoneBeyond
    <2>14. PlacesPaidOnce'
      BY <2>7, <2>10 DEF FundInv, PlacesPaidOnce
    <2>15. VerdictAtFirstConsensus'
      BY <1>1 DEF FundInv, VerdictAtFirstConsensus
    <2>. QED
      BY <2>8, <2>9, <2>12, <2>13, <2>14, <2>15 DEF FundInv
  <1>. QED
    BY <1>2, <1>3

\* Parameters and the neutrality switch touch no record and no coin.
LEMMA SettingKeeps ==
    ASSUME FundInv, UNCHANGED <<bounty, locked, variant, challenge, fund, height, due, over, kept>>,
           bonus' \in Bonuses, neutral' \in BOOLEAN
    PROVE  FundInv'
  <1>1. \A b : /\ Of(b)' = Of(b) /\ Paid(b)' = Paid(b) /\ PaidOut(b)' = PaidOut(b)
               /\ InOrder(b)' = InOrder(b) /\ Running(b)' = Running(b)
    BY SamePaid
  <1>2. Records'
    BY DEF FundInv, Records
  <1>3. FundAccounted'
    BY DEF FundInv, FundAccounted, OpenBond
  <1>4. EscrowsExact' /\ NoneBeyond' /\ PlacesPaidOnce'
    BY <1>1, LedgerKept
  <1>5. VerdictAtFirstConsensus'
    BY DEF FundInv, VerdictAtFirstConsensus
  <1>. QED
    BY <1>2, <1>3, <1>4, <1>5 DEF FundInv

\* The fund starts empty.
LEMMA FundStarts ==
    ASSUME FundAssumption, Init
    PROVE  FundInv
  <1>1. bounty = <<>> /\ locked = <<>> /\ variant = <<>> /\ challenge = <<>> /\ fund = 0 /\ over = 0 /\ kept = 0 /\ due = {}
    BY DEF Init
  <1>2. DOMAIN bounty = {} /\ DOMAIN variant = {} /\ DOMAIN challenge = {} /\ DOMAIN locked = {} /\ Len(bounty) = 0 /\ Len(locked) = 0
    BY <1>1
  <1>3. Records
    <2>1. bounty \in Seq(Bounty) /\ locked \in Seq(Nat) /\ variant \in Seq(Variant) /\ challenge \in Seq(Challenge)
      BY <1>1, EmptySeq
    <2>2. height \in Nat /\ bonus \in Bonuses /\ neutral \in BOOLEAN
      BY DEF Init
    <2>3. fund \in Nat /\ over \in Nat /\ kept \in Nat /\ Len(locked) = Len(bounty) /\ due \subseteq DOMAIN bounty
      BY <1>1, <1>2
    <2>4. \A b \in due : bounty[b].expires # 0 /\ bounty[b].expires <= height
      BY <1>1
    <2>. QED
      BY <1>2, <2>1, <2>2, <2>3, <2>4 DEF Records
  <1>4. FundAccounted
    <2>1. locked \in [{} -> Nat] /\ OpenBonds \in [{} -> Nat]
      BY <1>1, <1>2 DEF OpenBonds
    <2>2. Total(locked) = 0 /\ Total(OpenBonds) = 0
      BY <2>1, TotalZero
    <2>. QED
      BY <1>1, <2>2 DEF FundAccounted, OpenBonds
  <1>. QED
    BY <1>1, <1>2, <1>3, <1>4 DEF FundInv, EscrowsExact, NoneBeyond, PlacesPaidOnce, VerdictAtFirstConsensus

\* Every step of the training fund keeps the invariant.
LEMMA FundNextKeeps ==
    ASSUME FundAssumption, FundInv, [Next]_vars
    PROVE  FundInv'
  <1>1. ASSUME due = {}, Transaction, UNCHANGED due
        PROVE  FundInv'
    <2>1. ASSUME NEW s \in Sponsors, NEW o \in Offers, CreateAugmentationBounty(s, o)
          PROVE  FundInv'
      BY <1>1, <2>1, CreateKeepsFund
    <2>2. ASSUME NEW w \in Submitters, NEW b \in {NoBounty} \cup DOMAIN bounty, SubmitAugmentation(w, b)
          PROVE  FundInv'
      BY <1>1, <2>2, SubmitKeepsFund
    <2>3. ASSUME NEW a \in DOMAIN variant, NEW v \in Verifiers, NEW vote \in Verdicts, NEW weight \in Weights,
                 VoteOnAugmentation(a, v, vote, weight)
          PROVE  FundInv'
      BY <1>1, <2>3, VoteKeeps
    <2>4. ASSUME NEW a \in DOMAIN variant, SponsorVetoAugmentation(a)
          PROVE  FundInv'
      BY <1>1, <2>4, VetoKeeps
    <2>5. ASSUME NEW a \in DOMAIN variant, AcceptAugmentation(a)
          PROVE  FundInv'
      BY <1>1, <2>5, AcceptKeeps
    <2>6. ASSUME NEW bond \in Bonds, ChallengeContribution(bond)
          PROVE  FundInv'
      BY <1>1, <2>6, ChallengeKeeps
    <2>7. ASSUME NEW c \in DOMAIN challenge, NEW status \in {"upheld", "rejected"}, ResolveContributionChallenge(c, status)
          PROVE  FundInv'
      BY <1>1, <2>7, ResolveKeeps
    <2>8. ASSUME NEW x \in Bonuses, UpdateParams(x)
          PROVE  FundInv'
      <3>1. /\ UNCHANGED <<bounty, locked, variant, challenge, fund, height, due, over, kept>>
            /\ bonus' \in Bonuses /\ neutral' \in BOOLEAN
        BY <1>1, <2>8 DEF UpdateParams, history, FundInv, Records
      <3>. QED
        BY <3>1, SettingKeeps
    <2>9. CASE ActivateReviewNeutrality
      <3>1. /\ UNCHANGED <<bounty, locked, variant, challenge, fund, height, due, over, kept>>
            /\ bonus' \in Bonuses /\ neutral' \in BOOLEAN
        BY <1>1, <2>9 DEF ActivateReviewNeutrality, history, FundInv, Records
      <3>. QED
        BY <3>1, SettingKeeps
    <2>. QED
      BY <1>1, <2>1, <2>2, <2>3, <2>4, <2>5, <2>6, <2>7, <2>8, <2>9 DEF Transaction
  <1>2. ASSUME NEW b \in DOMAIN bounty, ExpireNext(b)
        PROVE  FundInv'
    BY <1>2, ExpireKeeps
  <1>3. CASE UNCHANGED vars
    <2>1. /\ UNCHANGED <<bounty, locked, variant, challenge, fund, height, due, over, kept>>
          /\ bonus' \in Bonuses /\ neutral' \in BOOLEAN
      BY <1>3 DEF vars, FundInv, Records
    <2>. QED
      BY <2>1, SettingKeeps
  <1>. QED
    BY <1>1, <1>2, <1>3, BeginKeeps DEF Next

-----------------------------------------------------------------------------
(* The theorem *)

\* The training fund holds what bounties have locked and challenges have bonded, coins leave beyond an escrow for
\* the three known reasons only, a bounty pays each of its places once, and a verdict is that of the panel at the
\* first moment it had one (training_economics.go, msg_server_training_v4.go, route_b_heartbeat.go).
THEOREM FundStaysAccounted ==
    ASSUME FundAssumption
    PROVE  Spec => [](TypeOK /\ FundAccounted /\ ShortfallExplained /\ PlacesPaidOnce /\ VerdictAtFirstConsensus)
  <1>1. Init => FundInv
    BY FundStarts
  <1>2. FundInv /\ [Next]_vars => FundInv'
    BY FundNextKeeps
  <1>3. FundInv => TypeOK /\ FundAccounted /\ ShortfallExplained /\ PlacesPaidOnce /\ VerdictAtFirstConsensus
    BY FundInvSafe
  <1>. QED
    BY <1>1, <1>2, <1>3, PTL DEF Spec


-----------------------------------------------------------------------------
(* The inductive invariant of the manifests *)

\* The values of roots are nested without a bound, so the set they come from is left open.
ManifestOf(R) ==
    [pipeline : Pipelines, status : {"DRAFT", "FINALIZED", "ATTESTED", "SUPERSEDED"}, found : SUBSET Facts, parent : Nat,
     facts : SUBSET Facts, traces : SUBSET (Facts \X Nat), parentRoot : R, depth : Nat, root : R,
     finalizedAt : Nat, attestedAt : Nat]

Shaped ==
    /\ \E R : manifest \in Seq(ManifestOf(R))
    /\ corpus \subseteq Facts /\ attested \subseteq Pipelines /\ paused \in BOOLEAN /\ height \in Nat
    /\ \A m \in Manifests!Ids : /\ manifest[m].parent < m /\ manifest[m].depth < MaxDepth
                                /\ manifest[m].finalizedAt <= height /\ manifest[m].attestedAt <= height

\* A parent is committed, and what is no draft has a root.
Ancestry ==
    \A m \in Manifests!Ids : /\ manifest[m].parent # Manifests!NoParent => manifest[manifest[m].parent].status # "DRAFT"
                             /\ manifest[m].status # "DRAFT" => manifest[m].root # Manifests!NoRoot

\* OneCurrentManifest, two manifests at a time.
Waiting(m) == manifest[m].status = "FINALIZED" /\ manifest[m].finalizedAt < height
CurrentOK ==
    /\ \A m, n \in Manifests!Ids : Waiting(m) /\ manifest[m].pipeline = manifest[n].pipeline =>
          /\ Waiting(n) => m = n
          /\ manifest[n].status = "ATTESTED" => manifest[n].attestedAt = height
    /\ \A m \in Manifests!Ids : manifest[m].status = "SUPERSEDED" => Manifests!Group(manifest[m].pipeline) # {}

ManifestInv ==
    Shaped /\ Ancestry /\ Manifests!RootsCommitToAncestors /\ Manifests!BundleCoversSelection /\ CurrentOK /\ Manifests!LaterAttestationAtOnce

\* A sequence over a set is one over any larger set.
LEMMA SeqWider ==
    ASSUME NEW S, NEW T, S \subseteq T, NEW s \in Seq(S)
    PROVE  s \in Seq(T)
  <1>1. s \in [1 .. Len(s) -> S] /\ Len(s) \in Nat
    BY LenProperties
  <1>. QED
    BY <1>1

\* A root is never the empty one.
LEMMA RootsAreValues == \A y : Manifests!Root(y) # Manifests!NoRoot
  BY DEF Manifests!Root, Manifests!NoRoot, Manifests!ComputeManifestMerkleRoot, Manifests!ComputeComposedManifestMerkleRoot

\* The shape of the manifests, one by one.
LEMMA ShapeFacts ==
    ASSUME Shaped
    PROVE  /\ Len(manifest) \in Nat /\ Manifests!Ids = 1 .. Len(manifest)
           /\ \E R : manifest \in Seq(ManifestOf(R)) /\ \A m \in Manifests!Ids : manifest[m] \in ManifestOf(R)
           /\ \A m \in Manifests!Ids : /\ manifest[m].pipeline \in Pipelines
                                       /\ manifest[m].status \in {"DRAFT", "FINALIZED", "ATTESTED", "SUPERSEDED"}
                                       /\ manifest[m].found \subseteq Facts /\ manifest[m].facts \subseteq Facts
                                       /\ manifest[m].parent \in Nat /\ manifest[m].depth \in Nat
                                       /\ manifest[m].finalizedAt \in Nat /\ manifest[m].attestedAt \in Nat
           /\ \A m \in Manifests!Ids : manifest[m].parent # Manifests!NoParent => manifest[m].parent \in Manifests!Ids
  <1>1. PICK R : manifest \in Seq(ManifestOf(R))
    BY DEF Shaped
  <1>2. Len(manifest) \in Nat /\ Manifests!Ids = 1 .. Len(manifest)
    BY <1>1, LenProperties DEF Manifests!Ids
  <1>3. \A m \in Manifests!Ids : manifest[m] \in ManifestOf(R)
    BY <1>1, <1>2, ElementOfSeq
  <1>4. \A m \in Manifests!Ids : /\ manifest[m].pipeline \in Pipelines
                                 /\ manifest[m].status \in {"DRAFT", "FINALIZED", "ATTESTED", "SUPERSEDED"}
                                 /\ manifest[m].found \subseteq Facts /\ manifest[m].facts \subseteq Facts
                                 /\ manifest[m].parent \in Nat /\ manifest[m].depth \in Nat
                                 /\ manifest[m].finalizedAt \in Nat /\ manifest[m].attestedAt \in Nat
    BY <1>3 DEF ManifestOf
  <1>5. \A m \in Manifests!Ids : manifest[m].parent # Manifests!NoParent => manifest[m].parent \in Manifests!Ids
    <2>1. \A m \in Manifests!Ids : manifest[m].parent < m
      BY DEF Shaped
    <2>. QED
      BY <1>2, <1>4, <2>1 DEF Manifests!NoParent
  <1>. QED
    BY <1>1, <1>2, <1>3, <1>4, <1>5

\* The invariant gives what is checked of every state.
LEMMA ManifestInvSafe ==
    ASSUME ManifestInv
    PROVE  Manifests!TypeOK /\ Manifests!RootsCommitToAncestors /\ Manifests!BundleCoversSelection /\ Manifests!OneCurrentManifest /\ Manifests!LaterAttestationAtOnce
  <1>1. Manifests!TypeOK
    BY ShapeFacts DEF ManifestInv, Shaped, Manifests!TypeOK
  <1>2. Manifests!OneCurrentManifest
    BY DEF ManifestInv, CurrentOK, Waiting, Manifests!OneCurrentManifest
  <1>. QED
    BY <1>1, <1>2 DEF ManifestInv

\* Manifests are rewritten without touching what they list: roots and bundles stay right.
LEMMA ContentKept ==
    ASSUME Shaped, Ancestry, Manifests!RootsCommitToAncestors, Manifests!BundleCoversSelection, Manifests!Ids' = Manifests!Ids,
           \A m \in Manifests!Ids :
              /\ manifest'[m].found = manifest[m].found /\ manifest'[m].parent = manifest[m].parent
              /\ manifest'[m].facts = manifest[m].facts /\ manifest'[m].traces = manifest[m].traces
              /\ manifest'[m].parentRoot = manifest[m].parentRoot
              /\ \/ manifest'[m].root = manifest[m].root /\ (manifest'[m].status = "DRAFT" <=> manifest[m].status = "DRAFT")
                 \/ manifest'[m].root = Manifests!Root(manifest[m]) /\ manifest[m].status = "DRAFT"
    PROVE  Ancestry' /\ Manifests!RootsCommitToAncestors' /\ Manifests!BundleCoversSelection'
  <1>1. \A m \in Manifests!Ids : Manifests!Root(manifest'[m]) = Manifests!Root(manifest[m])
    BY DEF Manifests!Root, Manifests!ComputeManifestMerkleRoot, Manifests!ComputeComposedManifestMerkleRoot
  <1>2. \A m \in Manifests!Ids : manifest[m].status # "DRAFT" => manifest'[m].status # "DRAFT" /\ manifest'[m].root = manifest[m].root
    OBVIOUS
  <1>3. Ancestry'
    <2>1. ASSUME NEW m \in Manifests!Ids, manifest[m].parent # Manifests!NoParent
          PROVE  manifest'[manifest[m].parent].status # "DRAFT"
      <3>1. manifest[m].parent \in Manifests!Ids
        BY <2>1, ShapeFacts
      <3>. QED
        BY <1>2, <2>1, <3>1 DEF Ancestry
    <2>2. ASSUME NEW m \in Manifests!Ids, manifest'[m].status # "DRAFT"
          PROVE  manifest'[m].root # Manifests!NoRoot
      BY <2>2, RootsAreValues DEF Ancestry
    <2>. QED
      BY <2>1, <2>2 DEF Ancestry, Manifests!NoParent, Manifests!NoRoot
  <1>4. Manifests!RootsCommitToAncestors'
    <2>1. ASSUME NEW m \in Manifests!Ids, manifest[m].parent # Manifests!NoParent
          PROVE  manifest[m].parentRoot = manifest'[manifest[m].parent].root /\ manifest[m].parentRoot # Manifests!NoRoot
      <3>1. manifest[m].parent \in Manifests!Ids
        BY <2>1, ShapeFacts
      <3>2. manifest'[manifest[m].parent].root = manifest[manifest[m].parent].root
        BY <1>2, <2>1, <3>1 DEF Ancestry
      <3>. QED
        BY <2>1, <3>2 DEF Manifests!RootsCommitToAncestors
    <2>2. ASSUME NEW m \in Manifests!Ids, manifest'[m].status # "DRAFT"
          PROVE  manifest'[m].root = Manifests!Root(manifest'[m])
      BY <1>1, <2>2 DEF Manifests!RootsCommitToAncestors
    <2>. QED
      BY <2>1, <2>2 DEF Manifests!RootsCommitToAncestors, Manifests!NoParent, Manifests!NoRoot
  <1>5. Manifests!BundleCoversSelection'
    <2>1. ASSUME NEW m \in Manifests!Ids
          PROVE  Manifests!Bundle(m)' = Manifests!Bundle(m)
      BY <2>1, ShapeFacts DEF Manifests!Bundle, Manifests!NoParent
    <2>. QED
      BY <2>1 DEF Manifests!BundleCoversSelection
  <1>. QED
    BY <1>3, <1>4, <1>5

-----------------------------------------------------------------------------
(* The invariant under each step *)

\* A manifest is drawn up, beside or under a committed one.
LEMMA DraftKeeps ==
    ASSUME Manifests!DepthAssumption, ManifestInv, NEW p \in Pipelines, NEW found \in SUBSET Facts, NEW parent \in {Manifests!NoParent} \cup Manifests!Ids,
           Manifests!CreateTrainingManifest(p, found, parent)
    PROVE  ManifestInv'
  <1>0. PICK n : n = Len(manifest) + 1
    OBVIOUS
  <1>. DEFINE facts == Manifests!SubtractParent(found, "facts", parent)
              traces == Manifests!SubtractParent(Manifests!Traces(found), "traces", parent)
              parentRoot == IF parent = Manifests!NoParent THEN Manifests!NoRoot ELSE manifest[parent].root
              depth == IF parent = Manifests!NoParent THEN 0 ELSE manifest[parent].depth + 1
              x == [pipeline |-> p, status |-> "DRAFT", found |-> found, parent |-> parent, facts |-> facts,
                    traces |-> traces, parentRoot |-> parentRoot, depth |-> depth, root |-> Manifests!NoRoot,
                    finalizedAt |-> 0, attestedAt |-> 0]
  <1>1. /\ manifest' = Append(manifest, x) /\ UNCHANGED <<corpus, attested, paused, height>>
        /\ parent # Manifests!NoParent => Manifests!MayBeParent(parent)
    BY DEF Manifests!CreateTrainingManifest
  <1>2. Shaped /\ Len(manifest) \in Nat /\ Manifests!Ids = 1 .. Len(manifest) /\ height \in Nat
    BY ShapeFacts DEF ManifestInv, Shaped
  <1>3. parent \in Nat /\ parent < n
    BY <1>0, <1>2 DEF Manifests!NoParent
  <1>4. facts \subseteq Facts /\ traces \subseteq Facts \X Nat
    BY <1>2 DEF Manifests!SubtractParent, Manifests!Traces
  <1>5. depth \in Nat /\ depth < MaxDepth
    <2>1. CASE parent = Manifests!NoParent
      BY <2>1 DEF Manifests!DepthAssumption
    <2>2. CASE parent # Manifests!NoParent
      BY <1>1, <1>2, <2>2, ShapeFacts DEF Manifests!MayBeParent
    <2>. QED
      BY <2>1, <2>2
  <1>6. parent # Manifests!NoParent => parentRoot # Manifests!NoRoot /\ manifest[parent].status # "DRAFT"
    BY <1>1, <1>2 DEF Manifests!MayBeParent, Manifests!Committed, ManifestInv, Ancestry
  <1>7. found \subseteq facts \cup (IF parent = Manifests!NoParent THEN {} ELSE manifest[parent].facts)
    BY DEF Manifests!SubtractParent
  <1>8. /\ x.pipeline = p /\ x.status = "DRAFT" /\ x.found = found /\ x.parent = parent /\ x.facts = facts
        /\ x.parentRoot = parentRoot /\ x.depth = depth /\ x.finalizedAt = 0 /\ x.attestedAt = 0
    OBVIOUS
  <1>9. PICK R : manifest \in Seq(ManifestOf(R))
    BY DEF ManifestInv, Shaped
  <1>10. x \in ManifestOf(R \cup {parentRoot, Manifests!NoRoot})
    <2>. HIDE DEF facts, traces, parentRoot, depth
    <2>. QED
      BY <1>3, <1>4, <1>5 DEF ManifestOf
  <1>11. parentRoot = IF parent = Manifests!NoParent THEN Manifests!NoRoot ELSE manifest[parent].root
    OBVIOUS
  <1>. HIDE DEF x, facts, traces, parentRoot, depth
  <1>12. manifest \in Seq(ManifestOf(R \cup {parentRoot, Manifests!NoRoot}))
    <2>1. ManifestOf(R) \subseteq ManifestOf(R \cup {parentRoot, Manifests!NoRoot})
      BY DEF ManifestOf
    <2>. QED
      BY <1>9, <2>1, SeqWider
  <1>13. /\ manifest' \in Seq(ManifestOf(R \cup {parentRoot, Manifests!NoRoot})) /\ Len(manifest') = n /\ manifest'[n] = x
         /\ \A m \in Manifests!Ids : manifest'[m] = manifest[m]
    BY <1>0, <1>1, <1>2, <1>10, <1>12, AppendProperties
  <1>14. Manifests!Ids' = Manifests!Ids \cup {n} /\ n \notin Manifests!Ids
    <2>1. Manifests!Ids' = 1 .. n
      BY <1>13, LenProperties DEF Manifests!Ids
    <2>. QED
      BY <1>0, <1>2, <2>1
  <1>15. Shaped'
    <2>1. \A m \in Manifests!Ids' : /\ manifest'[m].parent < m /\ manifest'[m].depth < MaxDepth
                                    /\ manifest'[m].finalizedAt <= height /\ manifest'[m].attestedAt <= height
      BY <1>2, <1>3, <1>5, <1>8, <1>13, <1>14 DEF Shaped
    <2>. QED
      BY <1>1, <1>13, <2>1 DEF ManifestInv, Shaped
  <1>16. \A m \in Manifests!Ids : manifest[m].parent # Manifests!NoParent => manifest[m].parent \in Manifests!Ids
    BY <1>2, ShapeFacts
  <1>17. parent # Manifests!NoParent => parent \in Manifests!Ids
    OBVIOUS
  <1>18. Ancestry'
    BY <1>6, <1>8, <1>13, <1>14, <1>16, <1>17 DEF ManifestInv, Ancestry, Manifests!NoParent, Manifests!NoRoot
  <1>19. Manifests!RootsCommitToAncestors'
    BY <1>6, <1>8, <1>11, <1>13, <1>14, <1>16, <1>17 DEF ManifestInv, Manifests!RootsCommitToAncestors, Manifests!NoParent, Manifests!NoRoot
  <1>20. Manifests!BundleCoversSelection'
    <2>1. \A m \in Manifests!Ids : Manifests!Bundle(m)' = Manifests!Bundle(m)
      BY <1>13, <1>16 DEF Manifests!Bundle, Manifests!NoParent
    <2>2. Manifests!Bundle(n)' = facts \cup (IF parent = Manifests!NoParent THEN {} ELSE manifest[parent].facts)
      BY <1>8, <1>13, <1>17 DEF Manifests!Bundle, Manifests!NoParent
    <2>. QED
      BY <1>7, <1>8, <1>13, <1>14, <2>1, <2>2 DEF ManifestInv, Manifests!BundleCoversSelection
  <1>21. CurrentOK'
    <2>1. \A q : Manifests!Group(q) \subseteq Manifests!Group(q)'
      BY <1>13, <1>14 DEF Manifests!Group, Manifests!Committed
    <2>2. Manifests!Group(p)' \in SUBSET Manifests!Ids'
      BY DEF Manifests!Group
    <2>3. \A m \in Manifests!Ids' : manifest'[m].status # "DRAFT" => m \in Manifests!Ids /\ manifest'[m] = manifest[m]
      BY <1>8, <1>13, <1>14
    <2>4. \A m \in Manifests!Ids' : Waiting(m)' => m \in Manifests!Ids /\ Waiting(m) /\ manifest'[m] = manifest[m]
      BY <1>1, <2>3 DEF Waiting
    <2>5. ASSUME NEW m \in Manifests!Ids', manifest'[m].status = "SUPERSEDED"
          PROVE  Manifests!Group(manifest[m].pipeline)' # {}
      <3>1. m \in Manifests!Ids /\ manifest'[m] = manifest[m]
        BY <2>3, <2>5
      <3>2. Manifests!Group(manifest[m].pipeline) # {}
        BY <2>5, <3>1 DEF ManifestInv, CurrentOK
      <3>3. PICK q : q = manifest[m].pipeline
        OBVIOUS
      <3>4. Manifests!Group(q)' # {}
        BY <2>1, <3>2, <3>3
      <3>. QED
        BY <3>1, <3>3, <3>4 DEF Manifests!Group
    <2>6. ASSUME NEW m \in Manifests!Ids', NEW k \in Manifests!Ids', Waiting(m)', manifest'[m].pipeline = manifest'[k].pipeline
          PROVE  /\ Waiting(k)' => m = k
                 /\ manifest'[k].status = "ATTESTED" => manifest'[k].attestedAt = height'
      <3>1. m \in Manifests!Ids /\ Waiting(m) /\ manifest'[m] = manifest[m] /\ height' = height
        BY <1>1, <2>4, <2>6
      <3>2. CASE k \in Manifests!Ids
        <4>1. manifest'[k] = manifest[k]
          BY <1>13, <3>2
        <4>. QED
          BY <2>4, <2>6, <3>1, <3>2, <4>1 DEF ManifestInv, CurrentOK
      <3>3. CASE k \notin Manifests!Ids
        BY <2>3, <2>4, <3>3
      <3>. QED
        BY <3>2, <3>3
    <2>. QED
      BY <2>5, <2>6 DEF CurrentOK
  <1>22. Manifests!LaterAttestationAtOnce'
    BY <1>8, <1>13, <1>14 DEF ManifestInv, Manifests!LaterAttestationAtOnce
  <1>. QED
    BY <1>15, <1>18, <1>19, <1>20, <1>21, <1>22 DEF ManifestInv

\* A draft is finalized: its root commits to what it lists, and it does not wait in the block that finalizes it.
LEMMA FinalizeKeeps ==
    ASSUME ManifestInv, NEW m \in Manifests!Ids, Manifests!FinalizeTrainingManifest(m)
    PROVE  ManifestInv'
  <1>. DEFINE x == [manifest[m] EXCEPT !.status = "FINALIZED", !.root = Manifests!Root(manifest[m]), !.finalizedAt = height]
  <1>1. /\ manifest[m].status = "DRAFT" /\ manifest' = [manifest EXCEPT ![m] = x]
        /\ UNCHANGED <<corpus, attested, paused, height>>
    BY DEF Manifests!FinalizeTrainingManifest
  <1>2. Shaped /\ Len(manifest) \in Nat /\ Manifests!Ids = 1 .. Len(manifest) /\ height \in Nat
    BY ShapeFacts DEF ManifestInv, Shaped
  <1>3. PICK R : manifest \in Seq(ManifestOf(R)) /\ \A k \in Manifests!Ids : manifest[k] \in ManifestOf(R)
    BY <1>2, ShapeFacts
  <1>. DEFINE Q == R \cup {Manifests!Root(manifest[m])}
  <1>4. /\ x \in ManifestOf(Q) /\ x.status = "FINALIZED" /\ x.root = Manifests!Root(manifest[m]) /\ x.finalizedAt = height
        /\ x.pipeline = manifest[m].pipeline /\ x.found = manifest[m].found /\ x.parent = manifest[m].parent
        /\ x.facts = manifest[m].facts /\ x.traces = manifest[m].traces /\ x.parentRoot = manifest[m].parentRoot
        /\ x.depth = manifest[m].depth /\ x.attestedAt = manifest[m].attestedAt
    BY <1>2, <1>3 DEF ManifestOf
  <1>. HIDE DEF x
  <1>5. manifest \in Seq(ManifestOf(Q))
    <2>1. ManifestOf(R) \subseteq ManifestOf(Q)
      BY DEF ManifestOf
    <2>. HIDE DEF Q
    <2>. QED
      BY <1>3, <2>1, SeqWider
  <1>. HIDE DEF Q
  <1>6. /\ manifest' \in Seq(ManifestOf(Q)) /\ Len(manifest') = Len(manifest)
        /\ \A k \in Manifests!Ids : manifest'[k] = IF k = m THEN x ELSE manifest[k]
    BY <1>1, <1>2, <1>4, <1>5, ExceptSeq
  <1>7. Manifests!Ids' = Manifests!Ids
    BY <1>2, <1>6, LenProperties DEF Manifests!Ids
  <1>8. manifest'[m] = x /\ \A k \in Manifests!Ids \ {m} : manifest'[k] = manifest[k]
    BY <1>6
  <1>9. Shaped'
    <2>1. \A k \in Manifests!Ids : /\ manifest'[k].parent < k /\ manifest'[k].depth < MaxDepth
                                   /\ manifest'[k].finalizedAt <= height /\ manifest'[k].attestedAt <= height
      BY <1>2, <1>4, <1>8 DEF Shaped
    <2>. QED
      BY <1>1, <1>6, <1>7, <2>1 DEF ManifestInv, Shaped
  <1>10. Ancestry' /\ Manifests!RootsCommitToAncestors' /\ Manifests!BundleCoversSelection'
    BY <1>1, <1>2, <1>4, <1>7, <1>8, ContentKept DEF ManifestInv
  <1>11. CurrentOK'
    <2>1. \A k \in Manifests!Ids : Waiting(k)' => Waiting(k) /\ manifest'[k] = manifest[k]
      BY <1>1, <1>2, <1>4, <1>8 DEF Waiting
    <2>2. \A k \in Manifests!Ids : manifest'[k].pipeline = manifest[k].pipeline /\ (k # m => manifest'[k] = manifest[k])
      BY <1>4, <1>8
    <2>3. \A k \in Manifests!Ids : manifest'[k].status \in {"ATTESTED", "SUPERSEDED"} => manifest'[k] = manifest[k]
      BY <1>4, <1>8
    <2>4. \A q : Manifests!Group(q) \subseteq Manifests!Group(q)'
      BY <1>1, <1>7, <1>8 DEF Manifests!Group, Manifests!Committed
    <2>. QED
      BY <1>1, <1>7, <2>1, <2>2, <2>3, <2>4 DEF ManifestInv, CurrentOK
  <1>12. Manifests!LaterAttestationAtOnce'
    BY <1>4, <1>7, <1>8 DEF ManifestInv, Manifests!LaterAttestationAtOnce
  <1>. QED
    BY <1>9, <1>10, <1>11, <1>12 DEF ManifestInv

\* A finalized manifest is bound to its pipeline's attestation: an earlier attested one leaves it no block to wait.
LEMMA BindKeeps ==
    ASSUME ManifestInv, NEW m \in Manifests!Ids, Manifests!BindManifestToAttestation(m)
    PROVE  ManifestInv'
  <1>. DEFINE x == [manifest[m] EXCEPT !.status = "ATTESTED", !.attestedAt = height]
  <1>1. /\ manifest[m].status = "FINALIZED" /\ manifest' = [manifest EXCEPT ![m] = x]
        /\ UNCHANGED <<corpus, attested, paused, height>>
    BY DEF Manifests!BindManifestToAttestation
  <1>2. Shaped /\ Len(manifest) \in Nat /\ Manifests!Ids = 1 .. Len(manifest) /\ height \in Nat
    BY ShapeFacts DEF ManifestInv, Shaped
  <1>3. PICK R : manifest \in Seq(ManifestOf(R)) /\ \A k \in Manifests!Ids : manifest[k] \in ManifestOf(R)
    BY <1>2, ShapeFacts
  <1>4. /\ x \in ManifestOf(R) /\ x.status = "ATTESTED" /\ x.root = manifest[m].root /\ x.attestedAt = height
        /\ x.pipeline = manifest[m].pipeline /\ x.found = manifest[m].found /\ x.parent = manifest[m].parent
        /\ x.facts = manifest[m].facts /\ x.traces = manifest[m].traces /\ x.parentRoot = manifest[m].parentRoot
        /\ x.depth = manifest[m].depth /\ x.finalizedAt = manifest[m].finalizedAt
    BY <1>2, <1>3 DEF ManifestOf
  <1>. HIDE DEF x
  <1>6. /\ manifest' \in Seq(ManifestOf(R)) /\ Len(manifest') = Len(manifest)
        /\ \A k \in Manifests!Ids : manifest'[k] = IF k = m THEN x ELSE manifest[k]
    BY <1>1, <1>2, <1>3, <1>4, ExceptSeq
  <1>7. Manifests!Ids' = Manifests!Ids
    BY <1>2, <1>6, LenProperties DEF Manifests!Ids
  <1>8. manifest'[m] = x /\ \A k \in Manifests!Ids \ {m} : manifest'[k] = manifest[k]
    BY <1>6
  <1>9. Shaped'
    <2>1. \A k \in Manifests!Ids : /\ manifest'[k].parent < k /\ manifest'[k].depth < MaxDepth
                                   /\ manifest'[k].finalizedAt <= height /\ manifest'[k].attestedAt <= height
      BY <1>2, <1>4, <1>8 DEF Shaped
    <2>. QED
      BY <1>1, <1>6, <1>7, <2>1 DEF ManifestInv, Shaped
  <1>10. Ancestry' /\ Manifests!RootsCommitToAncestors' /\ Manifests!BundleCoversSelection'
    BY <1>1, <1>2, <1>4, <1>7, <1>8, ContentKept DEF ManifestInv
  <1>11. CurrentOK'
    <2>1. \A k \in Manifests!Ids : Waiting(k)' => Waiting(k) /\ manifest'[k] = manifest[k]
      BY <1>1, <1>2, <1>4, <1>8 DEF Waiting
    <2>2. \A k \in Manifests!Ids : manifest'[k].pipeline = manifest[k].pipeline /\ (k # m => manifest'[k] = manifest[k])
      BY <1>4, <1>8
    <2>3. manifest'[m].attestedAt = height /\ manifest'[m].status = "ATTESTED"
      BY <1>4, <1>8
    <2>4. \A q : Manifests!Group(q)' = Manifests!Group(q)
      BY <1>1, <1>4, <1>7, <1>8 DEF Manifests!Group, Manifests!Committed
    <2>. QED
      BY <1>1, <1>7, <2>1, <2>2, <2>3, <2>4 DEF ManifestInv, CurrentOK
  <1>12. Manifests!LaterAttestationAtOnce'
    <2>1. ASSUME NEW k \in Manifests!Ids, k # m, manifest[k].pipeline = manifest[m].pipeline, manifest[k].status = "ATTESTED",
                 manifest[k].attestedAt < height
          PROVE  manifest[m].finalizedAt = height
      <3>1. ~Waiting(m)
        BY <1>2, <2>1, ShapeFacts DEF ManifestInv, CurrentOK
      <3>2. manifest[m].finalizedAt <= height /\ manifest[m].finalizedAt \in Nat
        BY <1>2, ShapeFacts DEF Shaped
      <3>. QED
        BY <1>1, <1>2, <3>1, <3>2 DEF Waiting
    <2>2. \A k \in Manifests!Ids : manifest[k].attestedAt <= height /\ manifest[k].attestedAt \in Nat
      BY <1>2, ShapeFacts DEF Shaped
    <2>3. ASSUME NEW i \in Manifests!Ids, NEW k \in Manifests!Ids, manifest'[i].pipeline = manifest'[k].pipeline,
                 manifest'[i].status = "ATTESTED", manifest'[k].status = "ATTESTED",
                 manifest'[i].attestedAt < manifest'[k].attestedAt
          PROVE  manifest'[k].finalizedAt = manifest'[k].attestedAt
      <3>1. CASE k = m
        <4>1. i # m
          BY <1>2, <1>4, <1>8, <2>3, <3>1
        <4>. QED
          BY <1>4, <1>8, <2>1, <2>3, <3>1, <4>1
      <3>2. CASE i = m
        BY <1>2, <1>4, <1>8, <2>2, <2>3, <3>2
      <3>3. CASE k # m /\ i # m
        BY <1>8, <2>3, <3>3 DEF ManifestInv, Manifests!LaterAttestationAtOnce
      <3>. QED
        BY <3>1, <3>2, <3>3
    <2>. QED
      BY <1>7, <2>3 DEF Manifests!LaterAttestationAtOnce
  <1>. QED
    BY <1>9, <1>10, <1>11, <1>12 DEF ManifestInv

\* Of the committed manifests of a pipeline, one has none preferred to it.
LEMMA OneSurvives ==
    ASSUME Shaped, NEW p, Manifests!Group(p) # {}
    PROVE  \E m \in Manifests!Group(p) : ~Manifests!Superseded(m)
  <1>1. CASE \E m \in Manifests!Group(p) : manifest[m].status = "ATTESTED"
    BY <1>1 DEF Manifests!Superseded
  <1>2. CASE \A m \in Manifests!Group(p) : manifest[m].status # "ATTESTED"
    <2>1. /\ Len(manifest) \in Nat /\ height \in Nat /\ Manifests!Group(p) \subseteq 1 .. Len(manifest)
          /\ \A m \in Manifests!Group(p) : /\ manifest[m].finalizedAt \in 0 .. height
                                           /\ manifest[m].status = "FINALIZED" /\ manifest[m].pipeline = p
      BY <1>2, ShapeFacts DEF Shaped, Manifests!Group, Manifests!Committed
    <2>. DEFINE F == {manifest[m].finalizedAt : m \in Manifests!Group(p)}
    <2>2. F \in SUBSET (0 .. height) /\ F # {}
      BY <2>1
    <2>3. PICK f \in F : \A g \in F : g <= f
      <3>. HIDE DEF F
      <3>. QED
        BY <2>1, <2>2, GreatestNumber
    <2>. DEFINE L == {m \in Manifests!Group(p) : manifest[m].finalizedAt = f}
    <2>4. L \in SUBSET (0 .. Len(manifest)) /\ L # {}
      BY <2>1, <2>3
    <2>5. PICK l \in L : \A k \in L : k <= l
      <3>. HIDE DEF L
      <3>. QED
        BY <2>1, <2>4, GreatestNumber
    <2>6. ASSUME NEW n \in Manifests!Group(p), Manifests!preferLater(n, l)
          PROVE  FALSE
      <3>1. manifest[n].finalizedAt <= manifest[l].finalizedAt
        BY <2>3, <2>5
      <3>2. manifest[n].finalizedAt = manifest[l].finalizedAt => n <= l
        BY <2>5
      <3>3. manifest[n].finalizedAt \in Int /\ manifest[l].finalizedAt \in Int /\ n \in Int /\ l \in Int
        BY <2>1
      <3>. QED
        BY <1>2, <2>6, <3>1, <3>2, <3>3 DEF Manifests!preferLater
    <2>7. l \in Manifests!Group(p) /\ manifest[l].pipeline = p
      BY <2>1
    <2>. QED
      BY <2>6, <2>7 DEF Manifests!Superseded
  <1>. QED
    BY <1>1, <1>2

\* Of two finalized manifests of a pipeline, one supersedes the other; an attested one supersedes any.
LEMMA OneIsLater ==
    ASSUME Shaped, NEW m \in Manifests!Ids, NEW n \in Manifests!Ids, manifest[m].pipeline = manifest[n].pipeline, m # n,
           manifest[m].status = "FINALIZED", manifest[n].status \in {"FINALIZED", "ATTESTED"}
    PROVE  Manifests!Superseded(m) \/ Manifests!Superseded(n)
  <1>1. m \in Int /\ n \in Int /\ manifest[m].finalizedAt \in Int /\ manifest[n].finalizedAt \in Int
    BY ShapeFacts
  <1>2. Manifests!preferLater(m, n) \/ Manifests!preferLater(n, m)
    BY <1>1 DEF Manifests!preferLater
  <1>3. manifest[n].status = "ATTESTED" => Manifests!preferLater(n, m)
    BY DEF Manifests!preferLater
  <1>4. m \in Manifests!Group(manifest[n].pipeline) /\ n \in Manifests!Group(manifest[m].pipeline)
    BY DEF Manifests!Group, Manifests!Committed
  <1>. QED
    BY <1>2, <1>3, <1>4 DEF Manifests!Superseded

\* A block supersedes: what is left waiting has no rival.
LEMMA BlockKeeps ==
    ASSUME ManifestInv, Manifests!BeginBlocker
    PROVE  ManifestInv'
  <1>1. /\ height' = height + 1 /\ UNCHANGED <<corpus, attested, paused>>
        /\ manifest' = [m \in Manifests!Ids |-> IF Manifests!Superseded(m) THEN [manifest[m] EXCEPT !.status = "SUPERSEDED"] ELSE manifest[m]]
    BY DEF Manifests!BeginBlocker
  <1>2. Shaped /\ Len(manifest) \in Nat /\ Manifests!Ids = 1 .. Len(manifest) /\ height \in Nat
    BY ShapeFacts DEF ManifestInv, Shaped
  <1>3. PICK R : manifest \in Seq(ManifestOf(R)) /\ \A k \in Manifests!Ids : manifest[k] \in ManifestOf(R)
    BY <1>2, ShapeFacts
  <1>4. ASSUME NEW m \in Manifests!Ids
        PROVE  /\ manifest'[m] \in ManifestOf(R)
               /\ manifest'[m].status = (IF Manifests!Superseded(m) THEN "SUPERSEDED" ELSE manifest[m].status)
               /\ manifest'[m].pipeline = manifest[m].pipeline /\ manifest'[m].found = manifest[m].found
               /\ manifest'[m].parent = manifest[m].parent /\ manifest'[m].facts = manifest[m].facts
               /\ manifest'[m].traces = manifest[m].traces /\ manifest'[m].parentRoot = manifest[m].parentRoot
               /\ manifest'[m].depth = manifest[m].depth /\ manifest'[m].root = manifest[m].root
               /\ manifest'[m].finalizedAt = manifest[m].finalizedAt /\ manifest'[m].attestedAt = manifest[m].attestedAt
    <2>1. manifest[m] \in ManifestOf(R)
      BY <1>3
    <2>2. CASE Manifests!Superseded(m)
      <3>1. manifest'[m] = [manifest[m] EXCEPT !.status = "SUPERSEDED"]
        BY <1>1, <2>2
      <3>. QED
        BY <2>1, <2>2, <3>1 DEF ManifestOf
    <2>3. CASE ~Manifests!Superseded(m)
      <3>1. manifest'[m] = manifest[m]
        BY <1>1, <2>3
      <3>. QED
        BY <2>1, <2>3, <3>1
    <2>. QED
      BY <2>2, <2>3
  <1>5. manifest' \in Seq(ManifestOf(R)) /\ Manifests!Ids' = Manifests!Ids
    <2>1. DOMAIN manifest' = 1 .. Len(manifest)
      BY <1>1, <1>2
    <2>2. manifest' \in [1 .. Len(manifest) -> ManifestOf(R)]
      BY <1>1, <1>2, <1>4, <2>1
    <2>. QED
      BY <1>2, <2>1, <2>2 DEF Manifests!Ids
  <1>6. Shaped'
    <2>1. \A k \in Manifests!Ids : /\ manifest'[k].parent < k /\ manifest'[k].depth < MaxDepth
                                   /\ manifest'[k].finalizedAt <= height + 1 /\ manifest'[k].attestedAt <= height + 1
      <3>1. \A k \in Manifests!Ids : /\ manifest[k].parent < k /\ manifest[k].depth < MaxDepth
                                     /\ manifest[k].finalizedAt <= height + 1 /\ manifest[k].attestedAt <= height + 1
        BY <1>2, ShapeFacts DEF Shaped
      <3>. QED
        BY <1>4, <3>1
    <2>2. height' \in Nat
      BY <1>1, <1>2
    <2>. QED
      BY <1>1, <1>5, <2>1, <2>2 DEF ManifestInv, Shaped
  <1>7. Ancestry' /\ Manifests!RootsCommitToAncestors' /\ Manifests!BundleCoversSelection'
    <2>1. \A m \in Manifests!Ids : manifest'[m].status = "DRAFT" <=> manifest[m].status = "DRAFT"
      BY <1>4 DEF Manifests!Superseded
    <2>. QED
      BY <1>2, <1>4, <1>5, <2>1, ContentKept DEF ManifestInv
  <1>8. CurrentOK'
    <2>1. \A m \in Manifests!Ids : Waiting(m)' => manifest[m].status = "FINALIZED" /\ ~Manifests!Superseded(m)
      BY <1>4 DEF Waiting
    <2>2. ASSUME NEW m \in Manifests!Ids, NEW n \in Manifests!Ids, Waiting(m)', manifest[m].pipeline = manifest[n].pipeline, m # n
          PROVE  ~Waiting(n)' /\ manifest'[n].status # "ATTESTED"
      <3>1. manifest[m].status = "FINALIZED" /\ ~Manifests!Superseded(m)
        BY <2>1, <2>2
      <3>2. ASSUME manifest[n].status \in {"FINALIZED", "ATTESTED"}
            PROVE  Manifests!Superseded(n)
        BY <1>2, <2>2, <3>1, <3>2, OneIsLater
      <3>3. CASE Manifests!Superseded(n)
        BY <1>4, <2>1, <3>3
      <3>4. CASE ~Manifests!Superseded(n)
        <4>1. manifest'[n].status \notin {"FINALIZED", "ATTESTED"}
          BY <1>4, <3>2, <3>4
        <4>. QED
          BY <4>1 DEF Waiting
      <3>. QED
        BY <3>3, <3>4
    <2>3. ASSUME NEW m \in Manifests!Ids, manifest'[m].status = "SUPERSEDED"
          PROVE  Manifests!Group(manifest[m].pipeline)' # {}
      <3>1. PICK q : q = manifest[m].pipeline
        OBVIOUS
      <3>2. Manifests!Group(q) # {}
        <4>1. CASE Manifests!Superseded(m)
          BY <3>1, <4>1 DEF Manifests!Superseded, Manifests!Group, Manifests!Committed
        <4>2. CASE ~Manifests!Superseded(m)
          BY <1>4, <2>3, <3>1, <4>2 DEF ManifestInv, CurrentOK
        <4>. QED
          BY <4>1, <4>2
      <3>3. PICK l \in Manifests!Group(q) : ~Manifests!Superseded(l)
        BY <1>2, <3>2, OneSurvives
      <3>4. l \in Manifests!Ids /\ manifest[l].pipeline = q /\ Manifests!Committed(l)
        BY DEF Manifests!Group
      <3>5. l \in Manifests!Group(q)'
        BY <1>4, <1>5, <3>3, <3>4 DEF Manifests!Group, Manifests!Committed
      <3>6. manifest'[m].pipeline = q
        BY <1>4, <3>1
      <3>. QED
        BY <3>5, <3>6
    <2>4. \A m, n \in Manifests!Ids : manifest'[m].pipeline = manifest'[n].pipeline => manifest[m].pipeline = manifest[n].pipeline
      BY <1>4
    <2>5. \A m \in Manifests!Ids : Waiting(m)' => manifest'[m].status # "ATTESTED"
      BY DEF Waiting
    <2>6. \A m, n \in Manifests!Ids : Waiting(m)' /\ manifest'[m].pipeline = manifest'[n].pipeline =>
             (Waiting(n)' => m = n) /\ manifest'[n].status # "ATTESTED"
      BY <2>2, <2>4, <2>5
    <2>. QED
      BY <1>5, <2>3, <2>6 DEF CurrentOK
  <1>9. Manifests!LaterAttestationAtOnce'
    <2>1. \A m \in Manifests!Ids : manifest'[m].status = "ATTESTED" => manifest[m].status = "ATTESTED"
      BY <1>4
    <2>. QED
      BY <1>4, <1>5, <2>1 DEF ManifestInv, Manifests!LaterAttestationAtOnce
  <1>. QED
    BY <1>6, <1>7, <1>8, <1>9 DEF ManifestInv

\* There are no manifests at first.
LEMMA ManifestsStart ==
    ASSUME Manifests!Init
    PROVE  ManifestInv
  <1>1. manifest = <<>> /\ Manifests!Ids = {}
    BY DEF Manifests!Init, Manifests!Ids
  <1>2. manifest \in Seq(ManifestOf({}))
    BY <1>1, EmptySeq
  <1>. QED
    BY <1>1, <1>2 DEF Manifests!Init, ManifestInv, Shaped, Ancestry, Manifests!RootsCommitToAncestors, Manifests!BundleCoversSelection,
                      CurrentOK, Manifests!LaterAttestationAtOnce

\* Every step of the manifests keeps the invariant.
LEMMA ManifestNextKeeps ==
    ASSUME Manifests!DepthAssumption, ManifestInv, [Manifests!Next]_(Manifests!vars)
    PROVE  ManifestInv'
  <1>1. ASSUME NEW p \in Pipelines, NEW found \in {corpus} \cup {{f} : f \in corpus}, NEW parent \in {Manifests!NoParent} \cup Manifests!Ids,
               Manifests!CreateTrainingManifest(p, found, parent)
        PROVE  ManifestInv'
    <2>1. found \in SUBSET Facts
      BY DEF ManifestInv, Shaped
    <2>. QED
      BY <1>1, <2>1, DraftKeeps
  <1>2. ASSUME NEW m \in Manifests!Ids, Manifests!FinalizeTrainingManifest(m) \/ Manifests!BindManifestToAttestation(m)
        PROVE  ManifestInv'
    BY <1>2, FinalizeKeeps, BindKeeps
  <1>3. ASSUME UNCHANGED <<manifest, height>>, corpus' \subseteq Facts, attested' \subseteq Pipelines, paused' \in BOOLEAN
        PROVE  ManifestInv'
    <2>1. Shaped'
      BY <1>3 DEF ManifestInv, Shaped, Manifests!Ids
    <2>2. Ancestry' /\ Manifests!RootsCommitToAncestors' /\ Manifests!BundleCoversSelection' /\ Manifests!LaterAttestationAtOnce'
      BY <1>3 DEF ManifestInv, Ancestry, Manifests!RootsCommitToAncestors, Manifests!BundleCoversSelection, Manifests!LaterAttestationAtOnce, Manifests!Ids, Manifests!Bundle
    <2>3. CurrentOK'
      BY <1>3 DEF ManifestInv, CurrentOK, Waiting, Manifests!Group, Manifests!Committed, Manifests!Ids
    <2>. QED
      BY <2>1, <2>2, <2>3 DEF ManifestInv
  <1>4. corpus \subseteq Facts /\ attested \subseteq Pipelines /\ paused \in BOOLEAN
    BY DEF ManifestInv, Shaped
  <1>5. ASSUME NEW p \in Pipelines \ attested, Manifests!AttestTraining(p)
        PROVE  ManifestInv'
    BY <1>3, <1>4, <1>5 DEF Manifests!AttestTraining
  <1>6. ASSUME NEW f \in Facts, Manifests!FactMoves(f)
        PROVE  ManifestInv'
    BY <1>3, <1>4, <1>6 DEF Manifests!FactMoves
  <1>7. ASSUME NEW b \in BOOLEAN, Manifests!SetPaused(b)
        PROVE  ManifestInv'
    BY <1>3, <1>4, <1>7 DEF Manifests!SetPaused
  <1>8. CASE UNCHANGED Manifests!vars
    BY <1>3, <1>4, <1>8 DEF Manifests!vars
  <1>. QED
    BY <1>1, <1>2, <1>5, <1>6, <1>7, <1>8, BlockKeeps DEF Manifests!Next

-----------------------------------------------------------------------------
(* The theorem *)

\* A manifest's root commits to what it lists and to all its ancestors, its bundle holds what its selector found,
\* after each block one manifest of a pipeline is current, and an attestation beside an older one came in the block
\* that finalized it (x/knowledge/keeper/training_manifest.go, route_b_heartbeat.go).
THEOREM ManifestsStayCommitted ==
    ASSUME Manifests!DepthAssumption
    PROVE  Manifests!Spec => [](Manifests!TypeOK /\ Manifests!RootsCommitToAncestors /\ Manifests!BundleCoversSelection /\ Manifests!OneCurrentManifest /\ Manifests!LaterAttestationAtOnce)
  <1>1. Manifests!Init => ManifestInv
    BY ManifestsStart
  <1>2. ManifestInv /\ [Manifests!Next]_(Manifests!vars) => ManifestInv'
    BY ManifestNextKeeps
  <1>3. ManifestInv =>
           Manifests!TypeOK /\ Manifests!RootsCommitToAncestors /\ Manifests!BundleCoversSelection /\ Manifests!OneCurrentManifest /\ Manifests!LaterAttestationAtOnce
    BY ManifestInvSafe
  <1>. QED
    BY <1>1, <1>2, <1>3, PTL DEF Manifests!Spec

===============================================================================
