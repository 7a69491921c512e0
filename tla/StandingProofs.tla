---------------------------- MODULE StandingProofs ----------------------------
(* Proofs about what hangs on the standing of facts: sponsored bounties, for *)
(* any offers, sponsors and facts; survival rewards, for any facts, legacy   *)
(* facts and window; injected facts with their vetoes, for any contents,     *)
(* guardians and windows; qualifications, for any validators, domains,       *)
(* periods and thresholds; and capture challenges, for any challengers,      *)
(* stakes, rates and periods. All but the bounties are instances:            *)
(* Survival!TypeOK is the TypeOK of SurvivalEscrow, Veto!TypeOK that of      *)
(* FactInjection, Quals!TypeOK that of Qualification, Capture!TypeOK that of *)
(* CaptureChallenge.                                                         *)
EXTENDS Sponsorship, TotalsProofs, FiniteSetTheorems, TLAPS

CONSTANTS Legacy, Window,                                                                \* SurvivalEscrow
          Contents, Guardians, Windows, LastProposal,                                    \* FactInjection
          Validators, Void, Nested, Depth, Stakes, Purse, MinStake, StakeWeight, StakeLockPeriod,
          MinVerifications, MinAccuracy, QualificationPeriod, ProbationPeriod, RenewalWindow,
          MaxEndorsements, MaxOverlap, CrossRefMinWeight, CrossRefDiscount, InheritanceDiscount,
          DecayInterval, DecayMinSamples, DecayProbation, DecaySuspension, DecayRecovery,
          Scale, MaxVerdicts, MaxIds,                                                    \* Qualification
          Protocol, Challengers, Accusations, Panels, Gifts, Outcomes, BPSScale, RewardRate, Threshold,
          EvidencePeriod, ReviewPeriod, Pause, PenaltyBlocks, Intervals,
          MaxChallenges, MaxGifts, MaxRounds                                             \* CaptureChallenge
VARIABLES stage, neutral, status, pending, index, schedules,                             \* SurvivalEscrow
          injectStage, window, guardians, queue, vetoIndex, injected, announced, vetoed, \* FactInjection
          quals, endorsed, nextId, reviewNeutral, purse, pot,                            \* Qualification
          ch, paused, pool, held, dev, penalty, raised, history, flag, gifts             \* CaptureChallenge

Survival == INSTANCE SurvivalEscrow
Veto == INSTANCE FactInjection WITH stage <- injectStage, index <- vetoIndex, status <- injected
Quals == INSTANCE Qualification WITH neutral <- reviewNeutral
Capture == INSTANCE CaptureChallenge

\* The finite sets and the sums of the instances are those of this module.
LEMMA QualCounts ==
    /\ \A S : Quals!IsFiniteSet(S) <=> IsFiniteSet(S)
    /\ \A S : Quals!Cardinality(S) = Cardinality(S)
    /\ \A f : Quals!Total(f) = Total(f)
  BY DEF IsFiniteSet, Cardinality, Quals!IsFiniteSet, Quals!Cardinality, Total, Quals!Total, Coins, Quals!Coins

LEMMA CaptureCounts ==
    /\ \A S : Capture!IsFiniteSet(S) <=> IsFiniteSet(S)
    /\ \A S : Capture!Cardinality(S) = Cardinality(S)
    /\ \A f : Capture!Total(f) = Total(f)
  BY DEF IsFiniteSet, Cardinality, Capture!IsFiniteSet, Capture!Cardinality, Total, Capture!Total, Coins, Capture!Coins

-----------------------------------------------------------------------------
(* The inductive invariant *)

Order == [status : {"ACTIVE", "FULFILLED", "EXPIRED", "CANCELED"}, sponsor : Sponsors, domain : Domains,
          price : Nat \ {0}, target : Nat \ {0}, done : Nat, left : Nat, start : Nat, end : Nat]
NoFact == [status |-> "NONE"]
Fact == [status : {"PROVISIONAL", "VERIFIED", "CHALLENGED"}, domain : Domains, at : Nat]

Wants(o) == o.status \in {"ACTIVE", "EXPIRED"}

\* An order that still wants artifacts is left their price.
OrderOK(o, h) ==
    /\ o \in Order
    /\ o.start <= h /\ o.done <= o.target
    /\ Wants(o) => o.done < o.target
    /\ o.left = IF Wants(o) THEN o.price * (o.target - o.done) ELSE 0
    /\ o.status = "ACTIVE" => h < o.end

FactOK(x, h) == x = NoFact \/ (x \in Fact /\ x.at <= h)

Books ==
    /\ height \in Nat /\ escrow \in Nat /\ counter \in 0 .. MaxOrders
    /\ coins \in [Sponsors -> Nat] /\ earned \in [Facts -> Nat]
    /\ order \in [Ids -> {NoOrder} \cup Order] /\ fact \in [Facts -> {NoFact} \cup Fact]
    /\ \A i \in Ids : order[i] = NoOrder \/ OrderOK(order[i], height)
    /\ \A f \in Facts : FactOK(fact[f], height)

\* Whoever took a fact took one that exists, inside the order's life.
Taken ==
    /\ fulfilled \subseteq Made \X Facts
    /\ \A i \in Made, f \in Facts : <<i, f>> \in fulfilled =>
          fact[f] # NoFact /\ order[i].start <= fact[f].at /\ fact[f].at < order[i].end

ActiveOf(s) == {i \in Made : order[i].status = "ACTIVE" /\ order[i].sponsor = s}
TakenBy(i) == {f \in Facts : <<i, f>> \in fulfilled}
Lefts == [i \in Made |-> order[i].left]
Prices(f) == [i \in Paid(f) |-> order[i].price]

Sums ==
    /\ Total([s \in Sponsors |-> Funds]) = Total(coins) + escrow + Total(earned)
    /\ escrow = Total(Lefts)
    /\ \A f \in Facts : earned[f] = Total(Prices(f))
    /\ \A i \in Made : order[i].done = Cardinality(TakenBy(i))
    /\ \A s \in Sponsors : Cardinality(ActiveOf(s)) <= MaxActiveBountiesPerSponsor

IInv == Books /\ NumbersFresh /\ Taken /\ Sums

\* The invariant gives what is checked of every state.
LEMMA InvariantSafe ==
    ASSUME OffersAssumption, IInv
    PROVE  BountiesSafe
  <1>1. \A i \in Made : i \in Ids /\ OrderOK(order[i], height)
    BY DEF IInv, Books, Made, NoOrder
  <1>2. TypeOK
    BY <1>1 DEF IInv, Books, Taken, TypeOK, OrderOK, Order
  <1>3. EscrowExact
    BY <1>1 DEF IInv, Sums, Lefts, EscrowExact, OrderOK, Wants, Open
  <1>4. PaidByRecord
    BY DEF IInv, Sums, Prices, TakenBy, PaidByRecord
  <1>5. WorkInsideOrder
    <2>. SUFFICES ASSUME NEW r \in fulfilled
                  PROVE  fact[r[2]].at \in order[r[1]].start .. (order[r[1]].end - 1)
      BY DEF WorkInsideOrder
    <2>1. r = <<r[1], r[2]>> /\ r[1] \in Made /\ r[2] \in Facts
      BY DEF IInv, Taken
    <2>2. /\ fact[r[2]] # NoFact /\ order[r[1]].start <= fact[r[2]].at /\ fact[r[2]].at < order[r[1]].end
      BY <2>1 DEF IInv, Taken
    <2>3. fact[r[2]].at \in Nat
      BY <2>1, <2>2 DEF IInv, Books, FactOK, Fact
    <2>4. order[r[1]].start \in Nat /\ order[r[1]].end \in Nat
      BY <1>1, <2>1 DEF OrderOK, Order
    <2>. QED
      BY <2>2, <2>3, <2>4
  <1>6. ActiveIsCurrent
    BY <1>1 DEF IInv, Sums, ActiveOf, CountActiveBountiesBySponsor, ActiveIsCurrent, OrderOK
  <1>. QED
    BY <1>2, <1>3, <1>4, <1>5, <1>6 DEF BountiesSafe, IInv

-----------------------------------------------------------------------------
(* Amounts and sets *)

\* The price of the artifacts an order wants, before and after one more.
LEMMA PriceOfRest ==
    ASSUME NEW p \in Nat, NEW k \in Nat \ {0}
    PROVE  /\ p * k \in Nat /\ p * (k - 1) \in Nat
           /\ p * (k - 1) = p * k - p
  OBVIOUS

LEMMA OrderSets ==
    ASSUME IInv, OffersAssumption
    PROVE  /\ IsFiniteSet(Made) /\ Made \subseteq Ids
           /\ \A s : IsFiniteSet(ActiveOf(s)) /\ \A f : IsFiniteSet(Paid(f))
           /\ \A i : IsFiniteSet(TakenBy(i)) /\ Cardinality(TakenBy(i)) \in Nat
  <1>1. IsFiniteSet(Ids)
    <2>1. 1 \in Int /\ MaxOrders \in Int
      BY DEF OffersAssumption
    <2>. QED
      BY <2>1, FS_Interval DEF Ids
  <1>2. Made \subseteq Ids
    BY DEF Made
  <1>3. IsFiniteSet(Made)
    BY <1>1, <1>2, FS_Subset
  <1>4. \A s : IsFiniteSet(ActiveOf(s)) /\ \A f : IsFiniteSet(Paid(f))
    BY <1>3, FS_Subset DEF ActiveOf, Paid
  <1>5. \A i : IsFiniteSet(TakenBy(i)) /\ Cardinality(TakenBy(i)) \in Nat
    <2>. SUFFICES ASSUME NEW i
                  PROVE  IsFiniteSet(TakenBy(i)) /\ Cardinality(TakenBy(i)) \in Nat
      OBVIOUS
    <2>1. TakenBy(i) \subseteq Facts
      BY DEF TakenBy
    <2>2. IsFiniteSet(TakenBy(i))
      BY <2>1, FS_Subset DEF OffersAssumption
    <2>. QED
      BY <2>2, FS_CardinalityType
  <1>. QED
    BY <1>2, <1>3, <1>4, <1>5

\* The records of the orders on file.
LEMMA OrderFacts ==
    ASSUME IInv, NEW i \in Made
    PROVE  /\ i \in Ids /\ order[i] \in Order /\ OrderOK(order[i], height)
           /\ order[i].sponsor \in Sponsors /\ order[i].price \in Nat \ {0} /\ order[i].target \in Nat \ {0}
           /\ order[i].done \in Nat /\ order[i].left \in Nat /\ order[i].start \in Nat /\ order[i].end \in Nat
  BY DEF IInv, Books, Made, NoOrder, OrderOK, Order

\* An order stays on file, and its quota is not exceeded, when it is written again.
LEMMA OneOrder ==
    ASSUME OffersAssumption, IInv, NEW i \in Made, NEW o \in Order,
           o.sponsor = order[i].sponsor, o.price = order[i].price,
           o.status = "ACTIVE" => order[i].status = "ACTIVE",
           order' = [order EXCEPT ![i] = o]
    PROVE  /\ Made' = Made /\ order' \in [Ids -> {NoOrder} \cup Order]
           /\ order'[i] = o /\ \A j \in Ids \ {i} : order'[j] = order[j]
           /\ \A s \in Sponsors : Cardinality(ActiveOf(s)') <= MaxActiveBountiesPerSponsor
           /\ \A f \in Facts : [j \in Paid(f) |-> order'[j].price] = Prices(f)
           /\ Total(Lefts') = Total(Lefts) - order[i].left + o.left
  <1>1. /\ i \in Ids /\ order'[i] = o /\ \A j \in Ids \ {i} : order'[j] = order[j]
        /\ order' \in [Ids -> {NoOrder} \cup Order]
    BY DEF IInv, Books, Made
  <1>2. order[i].status # "NONE" /\ o.status # "NONE"
    BY DEF Made, Order
  <1>3. Made' = Made
    BY <1>1, <1>2 DEF Made
  <1>4. ASSUME NEW s \in Sponsors
        PROVE  Cardinality(ActiveOf(s)') <= MaxActiveBountiesPerSponsor
    <2>1. ActiveOf(s)' \subseteq ActiveOf(s)
      BY <1>1, <1>3, OrderSets DEF ActiveOf
    <2>2. /\ Cardinality(ActiveOf(s)') \in Nat /\ Cardinality(ActiveOf(s)) \in Nat
          /\ Cardinality(ActiveOf(s)') <= Cardinality(ActiveOf(s))
      BY <2>1, OrderSets, FS_Subset, FS_CardinalityType
    <2>3. Cardinality(ActiveOf(s)) <= MaxActiveBountiesPerSponsor /\ MaxActiveBountiesPerSponsor \in Nat
      BY DEF IInv, Sums, OffersAssumption
    <2>. QED
      BY <2>2, <2>3
  <1>5. ASSUME NEW f \in Facts
        PROVE  [j \in Paid(f) |-> order'[j].price] = Prices(f)
    BY <1>1, OrderSets DEF Prices, Paid
  <1>6. Total(Lefts') = Total(Lefts) - order[i].left + o.left
    <2>1. Lefts \in [Made -> Nat] /\ Lefts[i] = order[i].left
      BY OrderFacts DEF Lefts
    <2>2. Lefts' \in [Made -> Nat] /\ Lefts'[i] = o.left
      <3>1. o.left \in Nat
        BY DEF Order
      <3>2. \A j \in Made : order'[j].left \in Nat
        BY <1>1, <3>1, OrderFacts
      <3>. QED
        BY <1>1, <1>3, <3>2 DEF Lefts
    <2>3. \A j \in Made : j # i => Lefts'[j] = Lefts[j]
      BY <1>1, <1>3, OrderSets DEF Lefts
    <2>4. Total(Lefts') = Total(Lefts) - Lefts[i] + Lefts'[i]
      BY <2>1, <2>2, <2>3, OrderSets, TotalUpdate
    <2>. QED
      BY <2>1, <2>2, <2>4
  <1>. QED
    BY <1>1, <1>3, <1>4, <1>5, <1>6

\* Records that change no order and leave the marks of the facts taken keep the invariant.
LEMMA OrdersUntouched ==
    ASSUME OffersAssumption, IInv, UNCHANGED <<order, fulfilled, counter, escrow, coins, earned, height>>,
           fact' \in [Facts -> {NoFact} \cup Fact], \A f \in Facts : FactOK(fact'[f], height),
           \A f \in Facts : fact[f] # NoFact => fact'[f] # NoFact /\ fact'[f].at = fact[f].at
    PROVE  IInv'
  <1>1. Made' = Made
    BY DEF Made
  <1>2. Books'
    BY DEF IInv, Books
  <1>3. NumbersFresh' /\ Taken'
    BY <1>1 DEF IInv, NumbersFresh, Taken
  <1>4. Sums'
    <2>1. Lefts' = Lefts /\ \A f : Prices(f)' = Prices(f)
      BY <1>1 DEF Lefts, Prices, Paid
    <2>2. /\ \A i : TakenBy(i)' = TakenBy(i)
          /\ \A s : ActiveOf(s)' = ActiveOf(s)
      BY <1>1 DEF TakenBy, ActiveOf
    <2>. QED
      BY <1>1, <2>1, <2>2 DEF IInv, Sums
  <1>. QED
    BY <1>2, <1>3, <1>4 DEF IInv

\* Facts of x/knowledge change on their own.
LEMMA FactsKeep ==
    ASSUME OffersAssumption, IInv, NEW f \in Facts, (\E d \in Domains : SubmitFact(f, d)) \/ ChangeStanding(f)
    PROVE  IInv'
  <1>0. height \in Nat /\ fact \in [Facts -> {NoFact} \cup Fact] /\ \A g \in Facts : FactOK(fact[g], height)
    BY DEF IInv, Books
  <1>1. CASE \E d \in Domains : SubmitFact(f, d)
    <2>1. PICK d \in Domains : SubmitFact(f, d)
      BY <1>1
    <2>. DEFINE x == [status |-> "PROVISIONAL", domain |-> d, at |-> height]
    <2>2. fact' = [fact EXCEPT ![f] = x] /\ fact[f].status = "NONE"
      BY <2>1 DEF SubmitFact
    <2>3. x \in Fact /\ x.at <= height /\ fact[f] = NoFact
      BY <1>0, <2>2 DEF Fact
    <2>. HIDE DEF x
    <2>4. fact' \in [Facts -> {NoFact} \cup Fact] /\ \A g \in Facts : FactOK(fact'[g], height)
      BY <1>0, <2>2, <2>3 DEF FactOK
    <2>5. \A g \in Facts : fact[g] # NoFact => fact'[g] = fact[g]
      BY <1>0, <2>2, <2>3
    <2>. QED
      BY <2>1, <2>4, <2>5, OrdersUntouched DEF SubmitFact
  <1>2. CASE ChangeStanding(f)
    <2>. DEFINE st == IF fact[f].status = "VERIFIED" THEN "CHALLENGED" ELSE "VERIFIED"
                x == [fact[f] EXCEPT !.status = st]
    <2>1. fact[f].status # "NONE" /\ fact' = [fact EXCEPT ![f] = x]
      BY <1>0, <1>2 DEF ChangeStanding
    <2>2. fact[f] \in Fact /\ fact[f].at <= height
      BY <1>0, <2>1 DEF FactOK, NoFact
    <2>3. x \in Fact /\ x.at = fact[f].at
      BY <2>2 DEF Fact
    <2>4. x # NoFact
      BY <2>3 DEF Fact, NoFact
    <2>. HIDE DEF x
    <2>5. fact' \in [Facts -> {NoFact} \cup Fact] /\ \A g \in Facts : FactOK(fact'[g], height)
      BY <1>0, <2>1, <2>2, <2>3 DEF FactOK
    <2>6. \A g \in Facts : fact[g] # NoFact => fact'[g] # NoFact /\ fact'[g].at = fact[g].at
      BY <1>0, <2>1, <2>3, <2>4
    <2>. QED
      BY <1>2, <2>5, <2>6, OrdersUntouched DEF ChangeStanding
  <1>. QED
    BY <1>1, <1>2

\* A canceled order keeps its record and gives back what is left.
LEMMA CancelKeeps ==
    ASSUME OffersAssumption, IInv, NEW i \in Made, CancelBountyOrder(i)
    PROVE  IInv'
  <1>. DEFINE o == Canceled(order[i])
  <1>1. /\ Wants(order[i]) /\ escrow >= order[i].left /\ escrow' = escrow - order[i].left
        /\ coins' = [coins EXCEPT ![order[i].sponsor] = @ + order[i].left]
        /\ order' = [order EXCEPT ![i] = o]
        /\ UNCHANGED <<fulfilled, counter, earned, fact, height>>
    BY DEF CancelBountyOrder, Wants
  <1>2. /\ o \in Order /\ OrderOK(o, height) /\ o.left = 0 /\ o.status = "CANCELED"
        /\ o.sponsor = order[i].sponsor /\ o.price = order[i].price /\ o.done = order[i].done
        /\ o.start = order[i].start /\ o.end = order[i].end
    BY OrderFacts DEF Canceled, OrderOK, Order, Wants
  <1>. HIDE DEF o
  <1>3. /\ Made' = Made /\ order' \in [Ids -> {NoOrder} \cup Order]
        /\ order'[i] = o /\ \A j \in Ids \ {i} : order'[j] = order[j]
        /\ \A s \in Sponsors : Cardinality(ActiveOf(s)') <= MaxActiveBountiesPerSponsor
        /\ \A f \in Facts : [j \in Paid(f) |-> order'[j].price] = Prices(f)
        /\ Total(Lefts') = Total(Lefts) - order[i].left + o.left
    BY <1>1, <1>2, OneOrder
  <1>4. /\ height \in Nat /\ escrow \in Nat /\ counter \in 0 .. MaxOrders
        /\ coins \in [Sponsors -> Nat] /\ earned \in [Facts -> Nat]
        /\ order[i].sponsor \in Sponsors /\ order[i].left \in Nat
    BY OrderFacts DEF IInv, Books
  <1>5. escrow' \in Nat /\ coins' \in [Sponsors -> Nat]
    BY <1>1, <1>4
  <1>6. Books'
    BY <1>1, <1>2, <1>3, <1>5 DEF IInv, Books
  <1>7. NumbersFresh'
    BY <1>1, <1>3 DEF IInv, NumbersFresh
  <1>8. Taken'
    BY <1>1, <1>2, <1>3, OrderSets DEF IInv, Taken
  <1>9. Sums'
    <2>1. Total(coins') = Total(coins) + order[i].left
      <3>. DEFINE x == order[i].sponsor
      <3>1. x \in Sponsors /\ IsFiniteSet(Sponsors) /\ coins \in [Sponsors -> Nat] /\ coins' \in [Sponsors -> Nat]
        BY <1>4, <1>5 DEF OffersAssumption
      <3>2. coins'[x] = coins[x] + order[i].left /\ \A y \in Sponsors : y # x => coins'[y] = coins[y]
        BY <1>1, <1>4
      <3>. HIDE DEF x
      <3>3. Total(coins') = Total(coins) - coins[x] + coins'[x] /\ Total(coins) \in Nat
        BY <3>1, <3>2, TotalUpdate
      <3>4. coins[x] \in Nat
        BY <3>1
      <3>. QED
        BY <1>4, <3>2, <3>3, <3>4
    <2>2. Total(earned) \in Nat
      BY <1>4, TotalNat DEF OffersAssumption
    <2>3. Total([s \in Sponsors |-> Funds]) = Total(coins) + escrow + Total(earned) /\ Total(coins) \in Nat
      BY <1>4, TotalNat DEF IInv, Sums, OffersAssumption
    <2>4. Total([s \in Sponsors |-> Funds]) = Total(coins') + escrow' + Total(earned')
      BY <1>1, <1>4, <2>1, <2>2, <2>3
    <2>5. escrow' = Total(Lefts')
      BY <1>1, <1>2, <1>3, <1>4 DEF IInv, Sums
    <2>6. \A f \in Facts : earned'[f] = Total(Prices(f)')
      BY <1>1, <1>3 DEF IInv, Sums, Prices, Paid
    <2>7. \A j \in Made' : order'[j].done = Cardinality(TakenBy(j)')
      BY <1>1, <1>2, <1>3, OrderSets DEF IInv, Sums, TakenBy
    <2>. QED
      BY <1>3, <2>4, <2>5, <2>6, <2>7 DEF Sums
  <1>. QED
    BY <1>6, <1>7, <1>8, <1>9 DEF IInv

\* A fact is taken by an order: its price leaves the escrow.
LEMMA FulfillKeeps ==
    ASSUME OffersAssumption, IInv, NEW i \in Made, NEW f \in Facts, FulfillBounty(i, f)
    PROVE  IInv'
  <1>. DEFINE o == AfterPayout(order[i])
              p == order[i].price
  <1>1. /\ order[i].status = "ACTIVE" /\ height < order[i].end /\ <<i, f>> \notin fulfilled
        /\ fact[f].status = "VERIFIED" /\ fact[f].at >= order[i].start
        /\ escrow >= p /\ escrow' = escrow - p
        /\ earned' = [earned EXCEPT ![f] = @ + p]
        /\ order' = [order EXCEPT ![i] = o] /\ fulfilled' = fulfilled \cup {<<i, f>>}
        /\ UNCHANGED <<counter, coins, fact, height>>
    BY DEF FulfillBounty, Eligible, Recorded
  <1>2. /\ i \in Ids /\ order[i] \in Order /\ OrderOK(order[i], height) /\ p \in Nat \ {0}
        /\ order[i].target \in Nat /\ order[i].done \in Nat /\ order[i].left \in Nat
        /\ order[i].start \in Nat /\ order[i].end \in Nat /\ order[i].done < order[i].target
        /\ order[i].left = p * (order[i].target - order[i].done)
    BY <1>1, OrderFacts DEF OrderOK, Wants
  <1>3. /\ order[i].left - p \in Nat
        /\ order[i].left - p = p * (order[i].target - (order[i].done + 1))
    <2>. DEFINE k == order[i].target - order[i].done
    <2>1. k \in Nat \ {0} /\ k - 1 = order[i].target - (order[i].done + 1)
      BY <1>2
    <2>2. p * (k - 1) \in Nat /\ p * (k - 1) = p * k - p
      BY <1>2, <2>1, PriceOfRest
    <2>. QED
      BY <1>2, <2>1, <2>2
  <1>4. /\ o \in Order /\ o.left = order[i].left - p /\ o.done = order[i].done + 1
        /\ o.sponsor = order[i].sponsor /\ o.price = order[i].price /\ o.start = order[i].start
        /\ o.end = order[i].end /\ o.target = order[i].target
        /\ o.status = IF order[i].done + 1 >= order[i].target THEN "FULFILLED" ELSE "ACTIVE"
    <2>. DEFINE b == order[i]
                st == IF b.done + 1 >= b.target THEN "FULFILLED" ELSE b.status
                dn == b.done + 1
                lf == b.left - b.price
    <2>1. o = [b EXCEPT !.done = dn, !.left = lf, !.status = st]
      BY DEF AfterPayout
    <2>2. b \in Order /\ b.status = "ACTIVE" /\ dn \in Nat /\ lf \in Nat /\ lf = b.left - p
      BY <1>1, <1>2, <1>3
    <2>3. st \in {"FULFILLED", "ACTIVE"} /\ st = IF b.done + 1 >= b.target THEN "FULFILLED" ELSE "ACTIVE"
      BY <2>2
    <2>4. dn = order[i].done + 1
      OBVIOUS
    <2>. HIDE DEF o, st, dn, lf
    <2>5. /\ o \in Order /\ o.left = lf /\ o.done = dn /\ o.sponsor = b.sponsor /\ o.price = b.price
          /\ o.start = b.start /\ o.end = b.end /\ o.target = b.target /\ o.status = st
      BY <2>1, <2>2, <2>3 DEF Order
    <2>. QED
      BY <2>2, <2>3, <2>4, <2>5
  <1>. HIDE DEF o
  <1>5. OrderOK(o, height)
    <2>1. CASE order[i].done + 1 >= order[i].target
      <3>1. order[i].target - (order[i].done + 1) = 0
        BY <1>2, <2>1
      <3>2. o.left = 0
        BY <1>2, <1>3, <1>4, <3>1
      <3>. QED
        BY <1>2, <1>4, <2>1, <3>2 DEF OrderOK, Wants
    <2>2. CASE ~(order[i].done + 1 >= order[i].target)
      BY <1>1, <1>2, <1>3, <1>4, <2>2 DEF OrderOK, Wants
    <2>. QED
      BY <2>1, <2>2
  <1>6. /\ Made' = Made /\ order' \in [Ids -> {NoOrder} \cup Order]
        /\ order'[i] = o /\ \A j \in Ids \ {i} : order'[j] = order[j]
        /\ \A s \in Sponsors : Cardinality(ActiveOf(s)') <= MaxActiveBountiesPerSponsor
        /\ \A g \in Facts : [j \in Paid(g) |-> order'[j].price] = Prices(g)
        /\ Total(Lefts') = Total(Lefts) - order[i].left + o.left
    BY <1>1, <1>4, OneOrder
  <1>7. /\ height \in Nat /\ escrow \in Nat /\ counter \in 0 .. MaxOrders
        /\ coins \in [Sponsors -> Nat] /\ earned \in [Facts -> Nat]
        /\ FactOK(fact[f], height) /\ fact[f] \in Fact /\ fact[f].at <= height /\ fact[f].at \in Nat
    <2>1. FactOK(fact[f], height)
      BY DEF IInv, Books
    <2>. QED
      BY <1>1, <2>1 DEF IInv, Books, FactOK, NoFact, Fact
  <1>8. escrow' \in Nat /\ earned' \in [Facts -> Nat] /\ earned'[f] = earned[f] + p
    BY <1>1, <1>2, <1>7
  <1>9. Books'
    BY <1>1, <1>5, <1>6, <1>8 DEF IInv, Books
  <1>10. NumbersFresh'
    BY <1>1, <1>6 DEF IInv, NumbersFresh
  <1>11. Taken'
    <2>1. fulfilled' \subseteq Made \X Facts
      BY <1>1 DEF IInv, Taken
    <2>2. fact[f] # NoFact /\ order[i].start <= fact[f].at /\ fact[f].at < order[i].end
      BY <1>1, <1>2, <1>7 DEF NoFact
    <2>. QED
      BY <1>1, <1>4, <1>6, <2>1, <2>2, OrderSets DEF IInv, Taken
  <1>12. Sums'
    <2>1. Total(earned') = Total(earned) + p /\ Total(earned) \in Nat
      <3>1. IsFiniteSet(Facts) /\ \A y \in Facts : y # f => earned'[y] = earned[y]
        BY <1>1, <1>7 DEF OffersAssumption
      <3>2. earned \in [Facts -> Nat] /\ earned' \in [Facts -> Nat]
        BY <1>7, <1>8
      <3>3. Total(earned') = Total(earned) - earned[f] + earned'[f] /\ Total(earned) \in Nat
        BY <3>1, <3>2, TotalUpdate
      <3>4. earned[f] \in Nat
        BY <3>2
      <3>. QED
        BY <1>2, <1>8, <3>3, <3>4
    <2>2. Total([s \in Sponsors |-> Funds]) = Total(coins) + escrow + Total(earned) /\ Total(coins) \in Nat
      BY <1>7, TotalNat DEF IInv, Sums, OffersAssumption
    <2>3. Total([s \in Sponsors |-> Funds]) = Total(coins') + escrow' + Total(earned')
      BY <1>1, <1>2, <1>7, <2>1, <2>2
    <2>4. escrow' = Total(Lefts')
      <3>1. escrow = Total(Lefts)
        BY DEF IInv, Sums
      <3>. QED
        BY <1>1, <1>2, <1>4, <1>6, <1>7, <3>1
    <2>5. ASSUME NEW g \in Facts
          PROVE  earned'[g] = Total(Prices(g)')
      <3>1. earned[g] = Total(Prices(g))
        BY DEF IInv, Sums
      <3>2. CASE g # f
        <4>1. Paid(g)' = Paid(g)
          BY <1>1, <1>6, <3>2 DEF Paid
        <4>. QED
          BY <1>1, <1>6, <1>7, <3>1, <3>2, <4>1 DEF Prices
      <3>3. CASE g = f
        <4>1. Paid(f)' = Paid(f) \cup {i} /\ i \notin Paid(f)
          BY <1>1, <1>6 DEF Paid
        <4>2. /\ Prices(f) \in [Paid(f) -> Nat] /\ Prices(f)' \in [Paid(f) \cup {i} -> Nat]
              /\ \A j \in Paid(f) : Prices(f)'[j] = Prices(f)[j]
              /\ Prices(f)'[i] = p
          <5>1. \A j \in Paid(f) : j \in Made /\ order'[j].price = order[j].price /\ order[j].price \in Nat
            <6>1. Paid(f) \subseteq Made
              BY DEF Paid
            <6>. QED
              BY <1>4, <1>6, <6>1, OrderFacts
          <5>. QED
            BY <1>2, <1>4, <1>6, <4>1, <5>1 DEF Prices
        <4>3. Total(Prices(f)') = Total(Prices(f)) + p
          BY <4>1, <4>2, OrderSets, TotalExtend
        <4>. QED
          BY <1>8, <3>1, <3>3, <4>3
      <3>. QED
        BY <3>2, <3>3
    <2>6. ASSUME NEW j \in Made'
          PROVE  order'[j].done = Cardinality(TakenBy(j)')
      <3>1. order[j].done = Cardinality(TakenBy(j)) /\ j \in Ids
        BY <1>6, OrderSets DEF IInv, Sums
      <3>2. CASE j # i
        <4>1. TakenBy(j)' = TakenBy(j)
          BY <1>1, <3>2 DEF TakenBy
        <4>. QED
          BY <1>6, <3>1, <3>2, <4>1
      <3>3. CASE j = i
        <4>1. TakenBy(i)' = TakenBy(i) \cup {f} /\ f \notin TakenBy(i)
          BY <1>1 DEF TakenBy
        <4>2. Cardinality(TakenBy(i)') = Cardinality(TakenBy(i)) + 1
          BY <4>1, OrderSets, FS_AddElement
        <4>. QED
          BY <1>4, <1>6, <3>1, <3>3, <4>2
      <3>. QED
        BY <3>2, <3>3
    <2>. QED
      BY <1>6, <2>3, <2>4, <2>5, <2>6 DEF Sums
  <1>. QED
    BY <1>9, <1>10, <1>11, <1>12 DEF IInv

\* A new order takes the next number and locks its whole price.
LEMMA CreateKeeps ==
    ASSUME OffersAssumption, IInv, NEW s \in Sponsors, NEW d \in Domains, NEW x \in Offers,
           CreateBountyOrder(s, d, x)
    PROVE  IInv'
  <1>. DEFINE n == counter + 1
              total == x.price * x.target
              o == [status |-> "ACTIVE", sponsor |-> s, domain |-> d, price |-> x.price, target |-> x.target,
                    done |-> 0, left |-> total, start |-> height, end |-> height + x.duration]
  <1>1. /\ counter < MaxOrders /\ coins[s] >= total
        /\ CountActiveBountiesBySponsor(s) < MaxActiveBountiesPerSponsor
        /\ coins' = [coins EXCEPT ![s] = @ - total] /\ escrow' = escrow + total
        /\ counter' = n /\ order' = [order EXCEPT ![n] = o]
        /\ UNCHANGED <<fulfilled, earned, fact, height>>
    BY DEF CreateBountyOrder
  <1>2. x.price \in Nat \ {0} /\ x.target \in Nat \ {0} /\ x.duration \in Nat \ {0}
    BY DEF OffersAssumption
  <1>3. total \in Nat
    BY <1>2
  <1>4. /\ height \in Nat /\ escrow \in Nat /\ counter \in 0 .. MaxOrders /\ MaxOrders \in Nat
        /\ coins \in [Sponsors -> Nat] /\ earned \in [Facts -> Nat]
    BY DEF IInv, Books, OffersAssumption
  <1>5. n \in Ids /\ n = counter + 1
    BY <1>1, <1>4 DEF Ids
  <1>6. n \notin Made /\ Made = 1 .. counter
    BY <1>4 DEF IInv, NumbersFresh
  <1>7. /\ o \in Order /\ o.status = "ACTIVE" /\ o.sponsor = s /\ o.price = x.price /\ o.target = x.target
        /\ o.done = 0 /\ o.left = total /\ o.start = height /\ o.end = height + x.duration
    BY <1>2, <1>3, <1>4 DEF Order
  <1>. HIDE DEF n, o
  <1>8. OrderOK(o, height)
    <2>1. o.left = o.price * (o.target - o.done)
      <3>1. x.target - 0 = x.target
        BY <1>2
      <3>. QED
        BY <1>7, <3>1
    <2>2. height <= height /\ 0 < x.target /\ 0 <= x.target /\ height < height + x.duration
      BY <1>2, <1>4
    <2>. HIDE DEF total
    <2>. QED
      BY <1>7, <2>1, <2>2 DEF OrderOK, Wants
  <1>. HIDE DEF total
  <1>9. /\ order' \in [Ids -> {NoOrder} \cup Order] /\ order'[n] = o
        /\ \A j \in Ids \ {n} : order'[j] = order[j]
    BY <1>1, <1>5, <1>7 DEF IInv, Books
  <1>10. Made' = Made \cup {n}
    <2>1. o.status # "NONE"
      BY <1>7
    <2>. QED
      BY <1>5, <1>9, <2>1 DEF Made
  <1>11. escrow' \in Nat /\ coins' \in [Sponsors -> Nat] /\ coins'[s] = coins[s] - total
    BY <1>1, <1>3, <1>4
  <1>12. Books'
    <2>1. \A j \in Ids : order'[j] = NoOrder \/ OrderOK(order'[j], height)
      BY <1>8, <1>9 DEF IInv, Books
    <2>2. counter' \in 0 .. MaxOrders
      BY <1>1, <1>4, <1>5
    <2>. QED
      BY <1>1, <1>9, <1>11, <2>1, <2>2 DEF IInv, Books
  <1>13. NumbersFresh'
    BY <1>1, <1>4, <1>5, <1>6, <1>10 DEF NumbersFresh
  <1>14. Taken'
    <2>1. fulfilled \subseteq Made \X Facts
      BY DEF IInv, Taken
    <2>2. \A j \in Made' : j # n => j \in Made /\ order'[j] = order[j]
      BY <1>9, <1>10, OrderSets
    <2>3. \A f \in Facts : <<n, f>> \notin fulfilled
      BY <1>6, <2>1
    <2>. QED
      BY <1>1, <1>10, <2>1, <2>2, <2>3 DEF IInv, Taken
  <1>15. Sums'
    <2>1. Total([t \in Sponsors |-> Funds]) = Total(coins') + escrow' + Total(earned')
      <3>1. IsFiniteSet(Sponsors) /\ IsFiniteSet(Facts) /\ \A y \in Sponsors : y # s => coins'[y] = coins[y]
        BY <1>1, <1>4 DEF OffersAssumption
      <3>2. Total(coins') = Total(coins) - coins[s] + coins'[s] /\ Total(coins) \in Nat
        BY <1>4, <1>11, <3>1, TotalUpdate
      <3>3. Total(earned) \in Nat /\ coins[s] \in Nat
        BY <1>4, <3>1, TotalNat
      <3>4. Total([t \in Sponsors |-> Funds]) = Total(coins) + escrow + Total(earned)
        BY DEF IInv, Sums
      <3>5. Total(coins') = Total(coins) - total
        BY <1>3, <1>11, <3>2, <3>3
      <3>6. earned' = earned /\ escrow' = escrow + total
        BY <1>1
      <3>. QED
        BY <1>3, <1>4, <3>2, <3>3, <3>4, <3>5, <3>6
    <2>2. escrow' = Total(Lefts')
      <3>1. Lefts \in [Made -> Nat]
        BY OrderFacts DEF Lefts
      <3>2. \A j \in Made \cup {n} : order'[j].left \in Nat
        BY <1>3, <1>6, <1>7, <1>9, OrderFacts
      <3>3. Lefts' \in [Made \cup {n} -> Nat] /\ Lefts'[n] = total /\ \A j \in Made : Lefts'[j] = Lefts[j]
        BY <1>6, <1>7, <1>9, <1>10, <3>2, OrderSets DEF Lefts
      <3>4. Total(Lefts') = Total(Lefts) + Lefts'[n]
        <4>. DEFINE S == Made
                    f == Lefts
                    g == Lefts'
        <4>1. IsFiniteSet(S) /\ n \notin S /\ f \in [S -> Nat] /\ g \in [S \cup {n} -> Nat] /\ \A j \in S : g[j] = f[j]
          BY <1>6, <3>1, <3>3, OrderSets
        <4>. HIDE DEF S, f, g
        <4>2. Total(g) = Total(f) + g[n]
          BY <4>1, TotalExtend
        <4>. QED
          BY <4>2 DEF f, g
      <3>. QED
        BY <1>1, <3>3, <3>4 DEF IInv, Sums
    <2>3. ASSUME NEW f \in Facts
          PROVE  earned'[f] = Total(Prices(f)')
      <3>1. Paid(f)' = Paid(f) /\ Paid(f) \subseteq Made
        <4>1. <<n, f>> \notin fulfilled
          BY <1>6 DEF IInv, Taken
        <4>. QED
          BY <1>1, <1>10, <4>1 DEF Paid
      <3>2. Prices(f)' = Prices(f)
        BY <1>6, <1>9, <3>1, OrderSets DEF Prices
      <3>. QED
        BY <1>1, <3>2 DEF IInv, Sums
    <2>4. ASSUME NEW j \in Made'
          PROVE  order'[j].done = Cardinality(TakenBy(j)')
      <3>1. TakenBy(j)' = TakenBy(j)
        BY <1>1 DEF TakenBy
      <3>2. CASE j = n
        <4>1. TakenBy(n) = {}
          BY <1>6 DEF IInv, Taken, TakenBy
        <4>. QED
          BY <1>7, <1>9, <3>1, <3>2, <4>1, FS_EmptySet
      <3>3. CASE j # n
        BY <1>9, <1>10, <3>1, <3>3, OrderSets DEF IInv, Sums
      <3>. QED
        BY <3>2, <3>3
    <2>5. ASSUME NEW t \in Sponsors
          PROVE  Cardinality(ActiveOf(t)') <= MaxActiveBountiesPerSponsor
      <3>1. Cardinality(ActiveOf(t)) <= MaxActiveBountiesPerSponsor /\ MaxActiveBountiesPerSponsor \in Nat
        BY DEF IInv, Sums, OffersAssumption
      <3>2. CASE t # s
        <4>1. ActiveOf(t)' = ActiveOf(t)
          BY <1>6, <1>7, <1>9, <1>10, <3>2, OrderSets DEF ActiveOf
        <4>. QED
          BY <3>1, <4>1
      <3>3. CASE t = s
        <4>1. ActiveOf(s)' = ActiveOf(s) \cup {n} /\ n \notin ActiveOf(s)
          BY <1>6, <1>7, <1>9, <1>10, OrderSets DEF ActiveOf
        <4>2. Cardinality(ActiveOf(s)') = Cardinality(ActiveOf(s)) + 1 /\ Cardinality(ActiveOf(s)) \in Nat
          BY <4>1, OrderSets, FS_AddElement, FS_CardinalityType
        <4>3. Cardinality(ActiveOf(s)) < MaxActiveBountiesPerSponsor
          BY <1>1 DEF CountActiveBountiesBySponsor, ActiveOf
        <4>. QED
          BY <3>1, <3>3, <4>2, <4>3
      <3>. QED
        BY <3>2, <3>3
    <2>. QED
      BY <2>1, <2>2, <2>3, <2>4, <2>5 DEF Sums
  <1>. QED
    BY <1>12, <1>13, <1>14, <1>15 DEF IInv

\* A new block expires the orders that reached their end and moves no coin.
LEMMA BeginBlockKeeps ==
    ASSUME OffersAssumption, IInv, BeginBlock
    PROVE  IInv'
  <1>. DEFINE Late(o) == [o EXCEPT !.status = "EXPIRED"]
  <1>1. /\ height' = height + 1 /\ UNCHANGED <<fulfilled, counter, escrow, coins, earned, fact>>
        /\ order' = [i \in Ids |-> IF i \in Expiring(height + 1) THEN Late(order[i]) ELSE order[i]]
    BY DEF BeginBlock
  <1>2. height \in Nat /\ order \in [Ids -> {NoOrder} \cup Order] /\ Expiring(height + 1) \subseteq Made
    BY DEF IInv, Books, Expiring
  <1>3. ASSUME NEW i \in Made
        PROVE  /\ i \in Ids /\ order'[i] \in Order /\ OrderOK(order'[i], height + 1)
               /\ order'[i].sponsor = order[i].sponsor /\ order'[i].price = order[i].price
               /\ order'[i].done = order[i].done /\ order'[i].left = order[i].left
               /\ order'[i].start = order[i].start /\ order'[i].end = order[i].end
               /\ order'[i].status = "ACTIVE" => order[i].status = "ACTIVE"
    <2>1. /\ i \in Ids /\ order[i] \in Order /\ OrderOK(order[i], height)
          /\ order[i].start \in Nat /\ order[i].end \in Nat
      BY OrderFacts
    <2>2. CASE i \in Expiring(height + 1)
      <3>1. order'[i] = Late(order[i]) /\ order[i].status = "ACTIVE"
        BY <1>1, <2>1, <2>2 DEF Expiring
      <3>2. order[i].start <= height + 1
        BY <1>2, <2>1 DEF OrderOK
      <3>. QED
        BY <2>1, <3>1, <3>2 DEF OrderOK, Order, Wants
    <2>3. CASE i \notin Expiring(height + 1)
      <3>1. order'[i] = order[i]
        BY <1>1, <2>1, <2>3
      <3>2. order[i].status = "ACTIVE" => height + 1 < order[i].end
        BY <1>2, <2>1, <2>3 DEF Expiring
      <3>3. order[i].start <= height + 1
        BY <1>2, <2>1 DEF OrderOK
      <3>. QED
        BY <2>1, <3>1, <3>2, <3>3 DEF OrderOK
    <2>. QED
      BY <2>2, <2>3
  <1>4. \A i \in Ids \ Made : order'[i] = order[i] /\ order[i] = NoOrder
    BY <1>1, <1>2 DEF Made, Order
  <1>5. Made' = Made
    <2>1. \A i \in Made : order'[i].status # "NONE"
      BY <1>3 DEF Order
    <2>. QED
      BY <1>3, <1>4, <2>1 DEF Made
  <1>6. order' \in [Ids -> {NoOrder} \cup Order]
    <2>1. \A i \in Ids : order'[i] \in {NoOrder} \cup Order
      BY <1>3, <1>4
    <2>. QED
      BY <1>1, <2>1
  <1>7. Books'
    <2>1. \A f \in Facts : FactOK(fact[f], height) => FactOK(fact[f], height + 1)
      BY <1>2 DEF FactOK, Fact
    <2>2. \A i \in Ids : order'[i] = NoOrder \/ OrderOK(order'[i], height + 1)
      BY <1>3, <1>4
    <2>. QED
      BY <1>1, <1>2, <1>6, <2>1, <2>2 DEF IInv, Books
  <1>8. NumbersFresh'
    BY <1>1, <1>5 DEF IInv, NumbersFresh
  <1>9. Taken'
    BY <1>1, <1>3, <1>5 DEF IInv, Taken
  <1>10. Sums'
    <2>1. Lefts' = Lefts /\ \A f : Paid(f)' = Paid(f) /\ Paid(f) \subseteq Made
      BY <1>1, <1>3, <1>5 DEF Lefts, Paid
    <2>2. \A f : Prices(f)' = Prices(f)
      BY <1>3, <2>1 DEF Prices
    <2>3. \A i : TakenBy(i)' = TakenBy(i)
      BY <1>1 DEF TakenBy
    <2>4. ASSUME NEW s \in Sponsors
          PROVE  Cardinality(ActiveOf(s)') <= MaxActiveBountiesPerSponsor
      <3>1. ActiveOf(s)' \subseteq ActiveOf(s)
        BY <1>3, <1>5 DEF ActiveOf
      <3>2. /\ Cardinality(ActiveOf(s)') \in Nat /\ Cardinality(ActiveOf(s)) \in Nat
            /\ Cardinality(ActiveOf(s)') <= Cardinality(ActiveOf(s))
        BY <3>1, OrderSets, FS_Subset, FS_CardinalityType
      <3>3. Cardinality(ActiveOf(s)) <= MaxActiveBountiesPerSponsor /\ MaxActiveBountiesPerSponsor \in Nat
        BY DEF IInv, Sums, OffersAssumption
      <3>. QED
        BY <3>2, <3>3
    <2>. QED
      BY <1>1, <1>3, <1>5, <2>1, <2>2, <2>3, <2>4 DEF IInv, Sums
  <1>. QED
    BY <1>7, <1>8, <1>9, <1>10 DEF IInv

\* Nothing is ordered, paid or submitted yet.
LEMMA InvariantInitially ==
    ASSUME OffersAssumption, Init
    PROVE  IInv
  <1>1. Made = {} /\ Ids = 1 .. MaxOrders /\ MaxOrders \in Nat /\ Funds \in Nat /\ MaxActiveBountiesPerSponsor \in Nat
    BY DEF Init, Made, NoOrder, Ids, OffersAssumption
  <1>2. Books
    BY <1>1 DEF Init, Books, FactOK, NoFact
  <1>3. NumbersFresh /\ Taken
    BY <1>1 DEF Init, NumbersFresh, Taken
  <1>4. Sums
    <2>1. coins = [s \in Sponsors |-> Funds] /\ coins \in [Sponsors -> Nat] /\ earned \in [Facts -> Nat]
      BY <1>1 DEF Init
    <2>2. Total(coins) \in Nat
      BY <2>1, TotalNat DEF OffersAssumption
    <2>3. Total(earned) = 0
      <3>1. \A f \in Facts : earned[f] = 0
        BY DEF Init
      <3>. QED
        BY <2>1, <3>1, TotalZero
    <2>4. Total(Lefts) = 0
      <3>1. Lefts \in [{} -> Nat]
        BY <1>1 DEF Lefts
      <3>. QED
        BY <3>1, TotalZero
    <2>5. \A f \in Facts : Total(Prices(f)) = 0
      <3>1. \A f \in Facts : Prices(f) \in [{} -> Nat]
        BY <1>1 DEF Prices, Paid
      <3>. QED
        BY <3>1, TotalZero
    <2>6. \A s \in Sponsors : Cardinality(ActiveOf(s)) <= MaxActiveBountiesPerSponsor
      <3>1. \A s \in Sponsors : ActiveOf(s) = {}
        BY <1>1 DEF ActiveOf
      <3>. QED
        <4>1. Cardinality({}) = 0 /\ 0 <= MaxActiveBountiesPerSponsor
          BY <1>1, FS_EmptySet
        <4>. QED
          BY <3>1, <4>1
    <2>7. escrow = 0 /\ \A f \in Facts : earned[f] = 0
      BY DEF Init
    <2>. QED
      BY <1>1, <2>1, <2>2, <2>3, <2>4, <2>5, <2>6, <2>7 DEF Sums
  <1>. QED
    BY <1>2, <1>3, <1>4 DEF IInv

\* Every step keeps the invariant.
LEMMA NextKeeps ==
    ASSUME OffersAssumption, IInv, [Next]_vars
    PROVE  IInv'
  <1>. DEFINE same == UNCHANGED <<order, fulfilled, counter, escrow, coins, earned, height>>
  <1>1. ASSUME UNCHANGED vars \/ ExportImport
        PROVE  IInv'
    <2>1. UNCHANGED vars
      BY <1>1 DEF ExportImport, Imported, vars
    <2>. QED
      BY <2>1, OrdersUntouched DEF vars, IInv, Books
  <1>2. ASSUME NEW s \in Sponsors, NEW d \in Domains, NEW x \in Offers, CreateBountyOrder(s, d, x)
        PROVE  IInv'
    BY <1>2, CreateKeeps
  <1>3. ASSUME NEW i \in Made, NEW f \in Facts, FulfillBounty(i, f)
        PROVE  IInv'
    BY <1>3, FulfillKeeps
  <1>4. ASSUME NEW i \in Made, CancelBountyOrder(i)
        PROVE  IInv'
    BY <1>4, CancelKeeps
  <1>5. ASSUME NEW f \in Facts, (\E d \in Domains : SubmitFact(f, d)) \/ ChangeStanding(f)
        PROVE  IInv'
    BY <1>5, FactsKeep
  <1>6. ASSUME BeginBlock
        PROVE  IInv'
    BY <1>6, BeginBlockKeeps
  <1>. QED
    BY <1>1, <1>2, <1>3, <1>4, <1>5, <1>6 DEF Next

\* No step writes an order that is paid out or canceled.
LEMMA ClosedKept ==
    ASSUME OffersAssumption, IInv, [Next]_vars
    PROVE  ClosedStaysClosed
  <1>. SUFFICES ASSUME NEW i \in Made, order[i].status \in {"FULFILLED", "CANCELED"}
                PROVE  order'[i] = order[i]
    BY DEF ClosedStaysClosed
  <1>0. i \in Ids /\ order \in [Ids -> {NoOrder} \cup Order]
    BY OrderFacts DEF IInv, Books
  <1>1. CASE order' = order
    BY <1>1
  <1>2. ASSUME NEW s \in Sponsors, NEW d \in Domains, NEW x \in Offers, CreateBountyOrder(s, d, x)
        PROVE  order'[i] = order[i]
    <2>1. counter \in Nat /\ i # counter + 1
      BY DEF IInv, Books, NumbersFresh
    <2>2. PICK o : order' = [order EXCEPT ![counter + 1] = o]
      BY <1>2 DEF CreateBountyOrder
    <2>. QED
      BY <1>0, <2>1, <2>2
  <1>3. ASSUME NEW j \in Made, order[j].status \in {"ACTIVE", "EXPIRED"}, NEW o, order' = [order EXCEPT ![j] = o]
        PROVE  order'[i] = order[i]
    BY <1>0, <1>3
  <1>4. ASSUME NEW j \in Made, NEW f \in Facts, FulfillBounty(j, f)
        PROVE  order'[i] = order[i]
    <2>1. order[j].status = "ACTIVE" /\ order' = [order EXCEPT ![j] = AfterPayout(order[j])]
      BY <1>4 DEF FulfillBounty
    <2>. QED
      BY <1>3, <2>1
  <1>5. ASSUME NEW j \in Made, CancelBountyOrder(j)
        PROVE  order'[i] = order[i]
    <2>1. order[j].status \in {"ACTIVE", "EXPIRED"} /\ order' = [order EXCEPT ![j] = Canceled(order[j])]
      BY <1>5 DEF CancelBountyOrder
    <2>. QED
      BY <1>3, <2>1
  <1>6. ASSUME BeginBlock
        PROVE  order'[i] = order[i]
    BY <1>0, <1>6 DEF BeginBlock, Expiring
  <1>7. CASE UNCHANGED vars \/ ExportImport \/ \E f \in Facts : (\E d \in Domains : SubmitFact(f, d)) \/ ChangeStanding(f)
    BY <1>1, <1>7 DEF vars, ExportImport, SubmitFact, ChangeStanding
  <1>. QED
    BY <1>2, <1>4, <1>5, <1>6, <1>7 DEF Next

-----------------------------------------------------------------------------
(* The theorems *)

\* The invariant holds in every state.
THEOREM Invariant == ASSUME OffersAssumption PROVE Spec => []IInv
  <1>1. Init => IInv
    BY InvariantInitially
  <1>2. IInv /\ [Next]_vars => IInv'
    BY NextKeeps
  <1>. QED
    BY <1>1, <1>2, PTL DEF Spec

\* However orders, facts and blocks interleave and with exports and imports in
\* between: the module account holds what its open orders still want, each fact
\* is paid once by each order that took it, for work inside the order, quotas
\* hold, numbers are never reused and a closed order stays as it was.
THEOREM BountiesPaidOnceHolds == ASSUME OffersAssumption PROVE Spec => BountiesPaidOnce
  <1>1. IInv => BountiesSafe
    BY InvariantSafe
  <1>2. IInv /\ [Next]_vars => [ClosedStaysClosed]_vars
    BY ClosedKept
  <1>. QED
    BY <1>1, <1>2, Invariant, PTL DEF Spec, BountiesPaidOnce

-----------------------------------------------------------------------------
(* The inductive invariant *)

\* The index the records ask for.
Indexed(p) == {<<p[f], f>> : f \in {g \in Facts : p[g] # 0}}

\* A claim that is not accepted has no record: an acceptance never overwrites
\* one, whose index entry would stay behind.
Unborn == \A f \in Facts : status[f] = "NONE" => pending[f] = 0

SurvivalInv == Survival!EscrowSafe /\ Unborn

\* Records that are dropped leave the index with their entries.
LEMMA WithoutIndexed ==
    ASSUME MaxHeight \in Nat, NEW F \in SUBSET Facts, pending \in [Facts -> 0 .. MaxHeight],
           index = Indexed(pending), Survival!Without(F)
    PROVE  /\ pending' \in [Facts -> 0 .. MaxHeight]
           /\ index' = Indexed(pending')
           /\ index' \subseteq index
           /\ \A f \in Facts : pending'[f] = IF f \in F THEN 0 ELSE pending[f]
  <1>1. pending' \in [Facts -> 0 .. MaxHeight]
    BY DEF Survival!Without
  <1>2. \A f \in Facts : pending'[f] = IF f \in F THEN 0 ELSE pending[f]
    BY DEF Survival!Without
  <1>3. index' = index \ {<<pending[f], f>> : f \in F}
    BY DEF Survival!Without
  <1>4. \A x \in Indexed(pending) : x \notin {<<pending[f], f>> : f \in F} => x \in Indexed(pending')
    BY <1>2 DEF Indexed
  <1>5. \A x \in Indexed(pending') : x \in Indexed(pending) /\ x \notin {<<pending[f], f>> : f \in F}
    BY <1>2 DEF Indexed
  <1>. QED
    BY <1>1, <1>2, <1>3, <1>4, <1>5

\* A new record comes with its entry.
LEMMA RecordedIndexed ==
    ASSUME NEW f \in Facts, NEW d \in 1 .. MaxHeight, pending \in [Facts -> 0 .. MaxHeight],
           pending[f] = 0, index = Indexed(pending), Survival!Recorded(f, d)
    PROVE  /\ pending' \in [Facts -> 0 .. MaxHeight]
           /\ index' = Indexed(pending')
           /\ \A g \in Facts : pending'[g] = IF g = f THEN d ELSE pending[g]
  <1>1. pending' \in [Facts -> 0 .. MaxHeight]
    BY DEF Survival!Recorded
  <1>2. \A g \in Facts : pending'[g] = IF g = f THEN d ELSE pending[g]
    BY DEF Survival!Recorded
  <1>3. index' = index \cup {<<d, f>>}
    BY DEF Survival!Recorded
  <1>4. \A x \in Indexed(pending) \cup {<<d, f>>} : x \in Indexed(pending')
    BY <1>2 DEF Indexed
  <1>5. \A x \in Indexed(pending') : x \in Indexed(pending) \cup {<<d, f>>}
    BY <1>2 DEF Indexed
  <1>. QED
    BY <1>1, <1>2, <1>3, <1>4, <1>5

\* An index that the records ask for has the type of one.
LEMMA IndexedType ==
    ASSUME NEW p \in [Facts -> 0 .. MaxHeight], MaxHeight \in Nat
    PROVE  Indexed(p) \subseteq (1 .. MaxHeight) \X Facts
  <1>. SUFFICES ASSUME NEW f \in Facts, p[f] # 0
                PROVE  <<p[f], f>> \in (1 .. MaxHeight) \X Facts
    BY DEF Indexed
  <1>1. p[f] \in 1 .. MaxHeight
    OBVIOUS
  <1>. QED
    BY <1>1

-----------------------------------------------------------------------------
(* The steps *)

\* A step that is not the upgrade's and moves no record keeps the invariant if
\* the standing it writes is one, revives no claim and refutes none that holds
\* a record.
LEMMA StatusStep ==
    ASSUME SurvivalInv, UNCHANGED <<height, neutral, pending, index, schedules>>,
           stage # "upgrade", stage' \in {"verdicts", "sweep", "epoch", "txs"},
           status' \in [Facts -> Survival!Statuses],
           \A f \in Facts : status'[f] \in {"NONE", "DISPROVEN"} => status'[f] = status[f]
    PROVE  SurvivalInv' /\ Survival!RewardStep
  <1>. USE DEF SurvivalInv, Survival!EscrowSafe
  <1>1. Survival!TypeOK'
    BY DEF Survival!TypeOK
  <1>2. Survival!IndexExact'
    BY DEF Survival!IndexExact, Survival!Pending
  <1>3. Survival!RewardedOnce'
    BY DEF Survival!RewardedOnce
  <1>4. Survival!FallenOwesNothing' /\ Unborn'
    BY DEF Survival!FallenOwesNothing, Unborn, Survival!Pending
  <1>5. Survival!RewardStep
    BY DEF Survival!RewardStep, Survival!RewardFollowsSurvival, Survival!NotForfeitedByChallenge, Survival!Pending, Survival!TypeOK
  <1>. QED
    BY <1>1, <1>2, <1>3, <1>4, <1>5

\* One fact takes another standing.
LEMMA OneStatus ==
    ASSUME SurvivalInv, UNCHANGED <<height, stage, neutral, pending, index, schedules>>,
           stage # "upgrade", NEW f \in Facts, NEW s \in Survival!Statuses \ {"NONE", "DISPROVEN"},
           status' = [status EXCEPT ![f] = s]
    PROVE  SurvivalInv' /\ Survival!RewardStep
  <1>1. /\ status' \in [Facts -> Survival!Statuses] /\ stage' \in {"verdicts", "sweep", "epoch", "txs"}
        /\ \A g \in Facts : status'[g] = IF g = f THEN s ELSE status[g]
    BY DEF SurvivalInv, Survival!EscrowSafe, Survival!TypeOK
  <1>. QED
    BY <1>1, StatusStep

\* Where hand-offs and cancellations come from: a step that drops the records
\* of F and gives a schedule to the facts of G among them.
LEMMA DropStep ==
    ASSUME Survival!BoundsAssumption, SurvivalInv, NEW F \in SUBSET Facts, NEW G \in SUBSET F, Survival!Without(F),
           schedules' = [f \in Facts |-> IF f \in G THEN Survival!HandedOff(f) ELSE schedules[f]],
           stage # "upgrade", stage' \in {"verdicts", "sweep", "epoch", "txs"},
           UNCHANGED <<height, neutral>>, status' \in [Facts -> Survival!Statuses],
           \A f \in Facts : status'[f] = "NONE" => status[f] = "NONE",
           \A f \in Facts : status'[f] = "DISPROVEN" => status[f] = "DISPROVEN" \/ f \in F,
           \A f \in F \ G : status'[f] \notin {"VERIFIED", "ACTIVE", "CHALLENGED"},
           \A f \in G : \/ status[f] = "CHALLENGED" /\ status'[f] \in {"ACTIVE", "CONTESTED"}
                        \/ status'[f] \in {"VERIFIED", "ACTIVE"} /\ pending[f] <= height
    PROVE  SurvivalInv' /\ Survival!RewardStep
  <1>1. /\ Survival!TypeOK /\ pending \in [Facts -> 0 .. MaxHeight] /\ MaxHeight \in Nat
        /\ schedules \in [Facts -> Nat] /\ \A f \in Facts : schedules[f] <= 1
        /\ \A f \in Facts : status[f] \in {"NONE", "DISPROVEN"} => pending[f] = 0
    BY DEF SurvivalInv, Survival!EscrowSafe, Survival!TypeOK, Survival!BoundsAssumption, Survival!RewardedOnce, Survival!FallenOwesNothing, Unborn, Survival!Pending
  <1>2. index = Indexed(pending)
    BY DEF SurvivalInv, Survival!EscrowSafe, Survival!IndexExact, Indexed, Survival!Pending
  <1>3. /\ pending' \in [Facts -> 0 .. MaxHeight] /\ index' = Indexed(pending')
        /\ index' \subseteq index
        /\ \A f \in Facts : pending'[f] = IF f \in F THEN 0 ELSE pending[f]
    BY <1>1, <1>2, WithoutIndexed
  <1>4. /\ schedules' \in [Facts -> Nat]
        /\ \A f \in Facts : schedules'[f] <= 1
        /\ \A f \in G : schedules'[f] # 0
        /\ \A f \in Facts : f \notin G => schedules'[f] = schedules[f]
    BY <1>1 DEF Survival!HandedOff
  <1>5. Survival!TypeOK'
    BY <1>1, <1>3, <1>4 DEF Survival!TypeOK
  <1>6. Survival!IndexExact'
    BY <1>3 DEF Survival!IndexExact, Indexed, Survival!Pending
  <1>7. Survival!RewardedOnce'
    BY <1>4 DEF Survival!RewardedOnce
  <1>8. Survival!FallenOwesNothing' /\ Unborn'
    BY <1>1, <1>3 DEF Survival!FallenOwesNothing, Unborn, Survival!Pending
  <1>9. Survival!RewardFollowsSurvival
    BY <1>1, <1>4 DEF Survival!RewardFollowsSurvival
  <1>10. Survival!NotForfeitedByChallenge
    BY <1>3, <1>4 DEF Survival!NotForfeitedByChallenge, Survival!Pending
  <1>. QED
    BY <1>5, <1>6, <1>7, <1>8, <1>9, <1>10 DEF SurvivalInv, Survival!EscrowSafe, Survival!RewardStep

\* completeRound accepts a claim.
LEMMA AcceptKeeps ==
    ASSUME Survival!BoundsAssumption, SurvivalInv, NEW f \in Facts, Survival!Accept(f)
    PROVE  SurvivalInv' /\ Survival!RewardStep
  <1>1. /\ Survival!TypeOK /\ MaxHeight \in Nat /\ Window \in Nat \ {0} /\ height \in 1 .. MaxHeight
        /\ pending \in [Facts -> 0 .. MaxHeight] /\ status \in [Facts -> Survival!Statuses]
        /\ schedules \in [Facts -> Nat]
    BY DEF SurvivalInv, Survival!EscrowSafe, Survival!TypeOK, Survival!BoundsAssumption
  <1>2. /\ stage = "verdicts" /\ status[f] = "NONE" /\ height + Window <= MaxHeight
        /\ status' = [status EXCEPT ![f] = "VERIFIED"]
        /\ UNCHANGED <<height, stage, neutral, schedules>>
        /\ neutral \/ Survival!Recorded(f, height + Window)
        /\ neutral => UNCHANGED <<pending, index>>
    BY DEF Survival!Accept
  <1>3. CASE neutral
    BY <1>2, <1>3, OneStatus DEF Survival!Statuses
  <1>4. CASE ~neutral
    <2>1. /\ index = Indexed(pending) /\ pending[f] = 0
      BY <1>2 DEF SurvivalInv, Survival!EscrowSafe, Survival!IndexExact, Indexed, Survival!Pending, Unborn
    <2>2. height + Window \in 1 .. MaxHeight
      BY <1>1, <1>2
    <2>3. /\ pending' \in [Facts -> 0 .. MaxHeight] /\ index' = Indexed(pending')
          /\ \A g \in Facts : pending'[g] = IF g = f THEN height + Window ELSE pending[g]
      BY <1>1, <1>2, <1>4, <2>1, <2>2, RecordedIndexed
    <2>4. index' \subseteq (1 .. MaxHeight) \X Facts
      BY <1>1, <2>3, IndexedType
    <2>5. /\ status' \in [Facts -> Survival!Statuses]
          /\ \A g \in Facts : status'[g] = IF g = f THEN "VERIFIED" ELSE status[g]
      BY <1>1, <1>2 DEF Survival!Statuses
    <2>6. Survival!TypeOK'
      BY <1>1, <1>2, <2>3, <2>4, <2>5 DEF Survival!TypeOK
    <2>7. Survival!IndexExact'
      BY <2>3 DEF Survival!IndexExact, Indexed, Survival!Pending
    <2>8. Survival!RewardedOnce'
      BY <1>2 DEF Survival!RewardedOnce, SurvivalInv, Survival!EscrowSafe
    <2>9. Survival!FallenOwesNothing' /\ Unborn'
      BY <2>3, <2>5 DEF Survival!FallenOwesNothing, Unborn, Survival!Pending, SurvivalInv, Survival!EscrowSafe
    <2>10. Survival!RewardFollowsSurvival /\ Survival!NotForfeitedByChallenge
      BY <1>1, <1>2, <2>2, <2>3 DEF Survival!RewardFollowsSurvival, Survival!NotForfeitedByChallenge, Survival!Pending
    <2>. QED
      BY <2>6, <2>7, <2>8, <2>9, <2>10 DEF SurvivalInv, Survival!EscrowSafe, Survival!RewardStep
  <1>. QED
    BY <1>3, <1>4

\* handleChallengeSurvival: the verdict releases the reward, or vesting refuses
\* and the record stays.
LEMMA RejectKeeps ==
    ASSUME Survival!BoundsAssumption, SurvivalInv, NEW f \in Facts, Survival!RejectChallenge(f)
    PROVE  SurvivalInv' /\ Survival!RewardStep
  <1>1. PICK end \in {"ACTIVE", "CONTESTED"} : status' = [status EXCEPT ![f] = end]
    BY DEF Survival!RejectChallenge
  <1>2. PICK refused \in BOOLEAN : Survival!Released(f, refused)
    BY DEF Survival!RejectChallenge
  <1>3. /\ stage = "verdicts" /\ status[f] = "CHALLENGED" /\ UNCHANGED <<height, stage, neutral>>
        /\ schedules \in [Facts -> Nat] /\ status \in [Facts -> Survival!Statuses]
    BY DEF Survival!RejectChallenge, SurvivalInv, Survival!EscrowSafe, Survival!TypeOK
  <1>4. CASE Survival!Pending(f) /\ ~refused
    <2>1. Survival!Without({f}) /\ schedules' = [schedules EXCEPT ![f] = Survival!HandedOff(f)]
      BY <1>2, <1>4 DEF Survival!Released
    <2>2. schedules' = [g \in Facts |-> IF g \in {f} THEN Survival!HandedOff(g) ELSE schedules[g]]
      BY <1>3, <2>1
    <2>3. /\ status' \in [Facts -> Survival!Statuses]
          /\ \A g \in Facts : status'[g] = IF g = f THEN end ELSE status[g]
      BY <1>1, <1>3 DEF Survival!Statuses
    <2>4. /\ \A g \in Facts : status'[g] = "NONE" => status[g] = "NONE"
          /\ \A g \in Facts : status'[g] = "DISPROVEN" => status[g] = "DISPROVEN" \/ g \in {f}
          /\ \A g \in {f} : status[g] = "CHALLENGED" /\ status'[g] \in {"ACTIVE", "CONTESTED"}
      BY <1>3, <2>3
    <2>. QED
      BY <1>3, <2>1, <2>2, <2>3, <2>4, DropStep
  <1>5. CASE ~(Survival!Pending(f) /\ ~refused)
    <2>1. UNCHANGED <<pending, index, schedules>>
      BY <1>2, <1>5 DEF Survival!Released
    <2>. QED
      BY <1>1, <1>3, <2>1, OneStatus DEF Survival!Statuses
  <1>. QED
    BY <1>4, <1>5

\* handleChallengeDisproven: the fact falls and its record with it.
LEMMA DisproveKeeps ==
    ASSUME Survival!BoundsAssumption, SurvivalInv, NEW f \in Facts, Survival!AcceptChallenge(f)
    PROVE  SurvivalInv' /\ Survival!RewardStep
  <1>. DEFINE F == {f}
              G == {}
  <1>1. /\ stage = "verdicts" /\ status' = [status EXCEPT ![f] = "DISPROVEN"]
        /\ UNCHANGED <<height, stage, neutral, schedules>>
        /\ schedules \in [Facts -> Nat] /\ status \in [Facts -> Survival!Statuses]
        /\ pending \in [Facts -> 0 .. MaxHeight]
    BY DEF Survival!AcceptChallenge, SurvivalInv, Survival!EscrowSafe, Survival!TypeOK
  <1>2. Survival!Without({f})
    <2>1. CASE Survival!Pending(f)
      BY <2>1 DEF Survival!AcceptChallenge
    <2>2. CASE ~Survival!Pending(f)
      <3>1. pending[f] = 0 /\ UNCHANGED <<pending, index>>
        BY <2>2 DEF Survival!AcceptChallenge, Survival!Pending
      <3>2. index = Indexed(pending)
        BY <1>1 DEF SurvivalInv, Survival!EscrowSafe, Survival!IndexExact, Indexed, Survival!Pending
      <3>3. <<pending[f], f>> \notin index
        BY <3>1, <3>2 DEF Indexed
      <3>4. pending' = [g \in Facts |-> IF g \in {f} THEN 0 ELSE pending[g]]
        BY <1>1, <3>1
      <3>. QED
        BY <3>1, <3>3, <3>4 DEF Survival!Without
    <2>. QED
      BY <2>1, <2>2
  <1>3. schedules' = [g \in Facts |-> IF g \in G THEN Survival!HandedOff(g) ELSE schedules[g]]
    BY <1>1
  <1>4. /\ status' \in [Facts -> Survival!Statuses]
        /\ \A g \in Facts : status'[g] = IF g = f THEN "DISPROVEN" ELSE status[g]
    BY <1>1 DEF Survival!Statuses
  <1>5. /\ \A g \in Facts : status'[g] = "NONE" => status[g] = "NONE"
        /\ \A g \in Facts : status'[g] = "DISPROVEN" => status[g] = "DISPROVEN" \/ g \in F
        /\ \A g \in F \ G : status'[g] \notin {"VERIFIED", "ACTIVE", "CHALLENGED"}
    BY <1>4
  <1>6. F \in SUBSET Facts /\ G \in SUBSET F /\ Survival!Without(F) /\ \A g \in G : FALSE
    BY <1>2
  <1>7. stage # "upgrade" /\ stage' \in {"verdicts", "sweep", "epoch", "txs"} /\ UNCHANGED <<height, neutral>>
    BY <1>1
  <1>. HIDE DEF F, G
  <1>. QED
    BY <1>3, <1>4, <1>5, <1>6, <1>7, DropStep

\* SweepSurvivedRewards: whatever vesting refuses, what is due and stands is
\* handed off, what lost its standing is cancelled, a challenged fact waits.
LEMMA SweepKeeps ==
    ASSUME Survival!BoundsAssumption, SurvivalInv, NEW refused \in SUBSET Facts, Survival!SweepSurvivedRewards(refused)
    PROVE  SurvivalInv' /\ Survival!RewardStep
  <1>. DEFINE G == Survival!Survivors \ refused
              F == G \cup Survival!Cancelled
  <1>1. /\ stage = "sweep" /\ stage' = "epoch" /\ Survival!Without(F) /\ UNCHANGED <<height, neutral, status>>
        /\ schedules' = [f \in Facts |-> IF f \in G THEN Survival!HandedOff(f) ELSE schedules[f]]
    BY DEF Survival!SweepSurvivedRewards, Survival!StageAfter
  <1>2. F \in SUBSET Facts /\ G \in SUBSET F
    BY DEF Survival!Survivors, Survival!Cancelled, Survival!Due
  <1>3. /\ \A f \in F \ G : status'[f] \notin {"VERIFIED", "ACTIVE", "CHALLENGED"}
        /\ \A f \in G : status'[f] \in {"VERIFIED", "ACTIVE"} /\ pending[f] <= height
    BY <1>1 DEF Survival!Survivors, Survival!Cancelled, Survival!Due
  <1>4. status' \in [Facts -> Survival!Statuses]
    BY <1>1 DEF SurvivalInv, Survival!EscrowSafe, Survival!TypeOK
  <1>. HIDE DEF F, G
  <1>. QED
    BY <1>1, <1>2, <1>3, <1>4, DropStep

\* The upgrade rebuilds the index from the records, whatever was lost of it.
LEMMA MigrateKeeps ==
    ASSUME Survival!BoundsAssumption, SurvivalInv, Survival!Migrate6to7
    PROVE  SurvivalInv' /\ Survival!RewardStep
  <1>1. /\ index' = Indexed(pending) /\ stage' = "verdicts"
        /\ UNCHANGED <<height, neutral, status, pending, schedules>>
    BY DEF Survival!Migrate6to7, Survival!IndexRebuilt, Indexed, Survival!Pending
  <1>2. Survival!TypeOK'
    <2>1. pending \in [Facts -> 0 .. MaxHeight] /\ MaxHeight \in Nat
      BY DEF SurvivalInv, Survival!EscrowSafe, Survival!TypeOK, Survival!BoundsAssumption
    <2>2. index' \subseteq (1 .. MaxHeight) \X Facts
      BY <1>1, <2>1, IndexedType
    <2>. QED
      BY <1>1, <2>2 DEF SurvivalInv, Survival!EscrowSafe, Survival!TypeOK
  <1>3. Survival!IndexExact'
    BY <1>1 DEF Survival!IndexExact, Indexed, Survival!Pending
  <1>4. Survival!RewardedOnce' /\ Survival!FallenOwesNothing' /\ Unborn'
    BY <1>1 DEF Survival!RewardedOnce, Survival!FallenOwesNothing, Unborn, Survival!Pending, SurvivalInv, Survival!EscrowSafe
  <1>5. Survival!RewardFollowsSurvival /\ Survival!NotForfeitedByChallenge
    BY <1>1 DEF Survival!RewardFollowsSurvival, Survival!NotForfeitedByChallenge, Survival!Pending, SurvivalInv, Survival!EscrowSafe, Survival!TypeOK
  <1>. QED
    BY <1>2, <1>3, <1>4, <1>5 DEF SurvivalInv, Survival!EscrowSafe, Survival!RewardStep

\* The other moves of one standing: verdicts that credit nothing, contests,
\* decay, new challenges and patronage.
LEMMA MovesKeep ==
    ASSUME SurvivalInv, NEW f \in Facts,
           Survival!AbandonChallenge(f) \/ Survival!Contest(f) \/ Survival!Decay(f) \/ Survival!ChallengeFact(f) \/ Survival!PatronizeFact(f)
    PROVE  SurvivalInv' /\ Survival!RewardStep
  <1>1. /\ UNCHANGED <<height, stage, neutral, pending, index, schedules>> /\ stage # "upgrade"
        /\ \E s \in Survival!Statuses \ {"NONE", "DISPROVEN"} : status' = [status EXCEPT ![f] = s]
    <2>1. CASE Survival!AbandonChallenge(f)
      BY <2>1 DEF Survival!AbandonChallenge, Survival!Statuses
    <2>2. CASE Survival!Contest(f)
      BY <2>2 DEF Survival!Contest, Survival!Statuses
    <2>3. CASE Survival!Decay(f)
      BY <2>3 DEF Survival!Decay, Survival!Statuses
    <2>4. CASE Survival!ChallengeFact(f)
      BY <2>4 DEF Survival!ChallengeFact, Survival!Statuses
    <2>5. CASE Survival!PatronizeFact(f)
      BY <2>5 DEF Survival!PatronizeFact, Survival!Statuses
    <2>. QED
      BY <2>1, <2>2, <2>3, <2>4, <2>5
  <1>. QED
    BY <1>1, OneStatus

\* Steps of the block that write no standing and no record.
LEMMA NextBlockKeeps ==
    ASSUME Survival!BoundsAssumption, SurvivalInv, Survival!NextBlock
    PROVE  SurvivalInv' /\ Survival!RewardStep
  <1>1. /\ stage' = "verdicts" /\ UNCHANGED <<neutral, status, pending, index, schedules>>
        /\ stage = "txs" /\ height' = IF height = MaxHeight THEN height ELSE height + 1
    BY DEF Survival!NextBlock, Survival!StageAfter
  <1>2. Survival!TypeOK'
    BY <1>1 DEF SurvivalInv, Survival!EscrowSafe, Survival!TypeOK, Survival!BoundsAssumption
  <1>3. Survival!IndexExact' /\ Survival!RewardedOnce' /\ Survival!FallenOwesNothing' /\ Unborn'
    BY <1>1 DEF Survival!IndexExact, Survival!RewardedOnce, Survival!FallenOwesNothing, Unborn, Survival!Pending, SurvivalInv, Survival!EscrowSafe
  <1>4. Survival!RewardFollowsSurvival /\ Survival!NotForfeitedByChallenge
    BY <1>1 DEF Survival!RewardFollowsSurvival, Survival!NotForfeitedByChallenge, Survival!Pending, SurvivalInv, Survival!EscrowSafe, Survival!TypeOK
  <1>. QED
    BY <1>2, <1>3, <1>4 DEF SurvivalInv, Survival!EscrowSafe, Survival!RewardStep

\* Review neutrality stops new records and touches none.
LEMMA NeutralityKeeps ==
    ASSUME SurvivalInv, Survival!EnableReviewNeutrality
    PROVE  SurvivalInv' /\ Survival!RewardStep
  <1>1. neutral' = TRUE /\ UNCHANGED <<height, stage, status, pending, index, schedules>>
    BY DEF Survival!EnableReviewNeutrality
  <1>2. Survival!TypeOK'
    BY <1>1 DEF SurvivalInv, Survival!EscrowSafe, Survival!TypeOK
  <1>3. Survival!IndexExact' /\ Survival!RewardedOnce' /\ Survival!FallenOwesNothing' /\ Unborn'
    BY <1>1 DEF Survival!IndexExact, Survival!RewardedOnce, Survival!FallenOwesNothing, Unborn, Survival!Pending, SurvivalInv, Survival!EscrowSafe
  <1>4. Survival!RewardFollowsSurvival /\ Survival!NotForfeitedByChallenge
    BY <1>1 DEF Survival!RewardFollowsSurvival, Survival!NotForfeitedByChallenge, Survival!Pending, SurvivalInv, Survival!EscrowSafe, Survival!TypeOK
  <1>. QED
    BY <1>2, <1>3, <1>4 DEF SurvivalInv, Survival!EscrowSafe, Survival!RewardStep

-----------------------------------------------------------------------------
(* The theorems *)

\* A chain before the upgrade satisfies the invariant, lost entries included.
LEMMA SurvivalInitially ==
    ASSUME Survival!LegacyAssumption, Survival!BoundsAssumption
    PROVE  Survival!Init => SurvivalInv
  <1>. SUFFICES ASSUME Survival!Init
                PROVE  SurvivalInv
    OBVIOUS
  <1>1. /\ height = 1 /\ stage = "upgrade" /\ neutral = FALSE
        /\ status \in [Facts -> {"NONE", "VERIFIED", "CHALLENGED"}]
        /\ \A f \in Facts : (status[f] = "NONE") = (f \notin Legacy)
        /\ pending = [f \in Facts |-> IF f \in Legacy THEN Window ELSE 0]
        /\ schedules \in [Facts -> {0, 1}]
    BY DEF Survival!Init
  <1>2. MaxHeight \in Nat /\ Window \in 1 .. MaxHeight /\ Legacy \subseteq Facts
    BY DEF Survival!BoundsAssumption, Survival!LegacyAssumption
  <1>3. index \subseteq (1 .. MaxHeight) \X Facts
    <2>1. PICK lost \in SUBSET Legacy : index = {<<Window, f>> : f \in Legacy \ lost}
      BY DEF Survival!Init
    <2>. QED
      BY <1>2, <2>1
  <1>4. status \in [Facts -> Survival!Statuses]
    BY <1>1 DEF Survival!Statuses
  <1>5. Survival!TypeOK
    <2>1. pending \in [Facts -> 0 .. MaxHeight] /\ schedules \in [Facts -> Nat] /\ 1 \in 1 .. MaxHeight
      BY <1>1, <1>2
    <2>. QED
      BY <1>1, <1>3, <1>4, <2>1 DEF Survival!TypeOK
  <1>6. Survival!IndexExact /\ Survival!RewardedOnce
    BY <1>1 DEF Survival!IndexExact, Survival!RewardedOnce
  <1>7. Survival!FallenOwesNothing /\ Unborn
    BY <1>1 DEF Survival!FallenOwesNothing, Unborn, Survival!Pending
  <1>. QED
    BY <1>5, <1>6, <1>7 DEF SurvivalInv, Survival!EscrowSafe

\* Every step keeps the invariant and is one the submitter may rely on.
LEMMA NextKeepsSurvival ==
    ASSUME Survival!BoundsAssumption, SurvivalInv, [Survival!Next]_(Survival!vars)
    PROVE  SurvivalInv' /\ [Survival!RewardStep]_(Survival!vars)
  <1>1. CASE UNCHANGED Survival!vars
    <2>1. SurvivalInv'
      BY <1>1 DEF Survival!vars, SurvivalInv, Survival!EscrowSafe, Survival!TypeOK, Survival!IndexExact, Survival!RewardedOnce, Survival!FallenOwesNothing, Unborn, Survival!Pending
    <2>. QED
      BY <1>1, <2>1
  <1>2. CASE Survival!Migrate6to7 \/ Survival!EnableReviewNeutrality
    BY <1>2, MigrateKeeps, NeutralityKeeps
  <1>3. CASE Survival!Block
    <2>1. CASE Survival!VerdictsDone \/ Survival!EpochDone
      <3>1. /\ stage \in {"verdicts", "epoch"} /\ stage' \in {"sweep", "txs"}
            /\ UNCHANGED <<height, neutral, status, pending, index, schedules>>
        BY <2>1 DEF Survival!VerdictsDone, Survival!EpochDone, Survival!StageAfter
      <3>2. status' \in [Facts -> Survival!Statuses]
        BY <3>1 DEF SurvivalInv, Survival!EscrowSafe, Survival!TypeOK
      <3>. QED
        BY <3>1, <3>2, StatusStep
    <2>2. CASE Survival!NextBlock
      BY <2>2, NextBlockKeeps
    <2>3. CASE \E refused \in SUBSET Facts : Survival!SweepSurvivedRewards(refused)
      BY <2>3, SweepKeeps
    <2>. QED
      BY <1>3, <2>1, <2>2, <2>3 DEF Survival!Block
  <1>4. CASE \E f \in Facts : Survival!Accept(f) \/ Survival!VerdictOf(f) \/ Survival!Contest(f) \/ Survival!Decay(f)
                              \/ Survival!ChallengeFact(f) \/ Survival!PatronizeFact(f)
    <2>1. PICK f \in Facts : \/ Survival!Accept(f) \/ Survival!RejectChallenge(f) \/ Survival!AcceptChallenge(f)
                             \/ Survival!AbandonChallenge(f) \/ Survival!Contest(f) \/ Survival!Decay(f)
                             \/ Survival!ChallengeFact(f) \/ Survival!PatronizeFact(f)
      BY <1>4 DEF Survival!VerdictOf
    <2>. QED
      BY <2>1, AcceptKeeps, RejectKeeps, DisproveKeeps, MovesKeep
  <1>. QED
    BY <1>1, <1>2, <1>3, <1>4 DEF Survival!Next

\* The invariant holds throughout.
LEMMA SurvivalInvariant ==
    ASSUME Survival!LegacyAssumption, Survival!BoundsAssumption
    PROVE  Survival!Spec => []SurvivalInv
  <1>1. Survival!Init => SurvivalInv
    BY SurvivalInitially
  <1>2. SurvivalInv /\ [Survival!Next]_(Survival!vars) => SurvivalInv'
    BY NextKeepsSurvival
  <1>. QED
    BY <1>1, <1>2, PTL DEF Survival!Spec

\* survival.go: heights, records, index and schedules keep their types.
THEOREM SurvivalTypeCorrect ==
    ASSUME Survival!LegacyAssumption, Survival!BoundsAssumption
    PROVE  Survival!Spec => []Survival!TypeOK
  <1>1. SurvivalInv => Survival!TypeOK
    BY DEF SurvivalInv, Survival!EscrowSafe
  <1>. QED
    BY <1>1, SurvivalInvariant, PTL

\* SetSurvivalPendingReward and deleteSurvivalPending: once the upgrade has
\* rebuilt it, the deadline index is exactly that of the pending records.
THEOREM SweepMissesNothing ==
    ASSUME Survival!LegacyAssumption, Survival!BoundsAssumption
    PROVE  Survival!Spec => []Survival!IndexExact
  <1>1. SurvivalInv => Survival!IndexExact
    BY DEF SurvivalInv, Survival!EscrowSafe
  <1>. QED
    BY <1>1, SurvivalInvariant, PTL

\* createKnowledgeVestingSchedule: no claim gets a second schedule, however
\* refusals, verdicts, sweeps and older hand-offs fall together.
THEOREM OneSchedulePerClaim ==
    ASSUME Survival!LegacyAssumption, Survival!BoundsAssumption
    PROVE  Survival!Spec => []Survival!RewardedOnce
  <1>1. SurvivalInv => Survival!RewardedOnce
    BY DEF SurvivalInv, Survival!EscrowSafe
  <1>. QED
    BY <1>1, SurvivalInvariant, PTL

\* releaseSurvivalReward and SweepSurvivedRewards: the escrow keeps its promise
\* for any facts, records from before the upgrade and window, step by step.
THEOREM RewardsKeepPromise ==
    ASSUME Survival!LegacyAssumption, Survival!BoundsAssumption
    PROVE  Survival!Spec => Survival!RewardsFollowSurvival
  <1>1. SurvivalInv => Survival!EscrowSafe
    BY DEF SurvivalInv
  <1>2. SurvivalInv /\ [Survival!Next]_(Survival!vars) => [Survival!RewardStep]_(Survival!vars)
    BY NextKeepsSurvival
  <1>3. Survival!Spec => []SurvivalInv
    BY SurvivalInvariant
  <1>. QED
    BY <1>1, <1>2, <1>3, PTL DEF Survival!Spec, Survival!RewardsFollowSurvival


-----------------------------------------------------------------------------
(* Injected facts and their vetoes                                         *)

\* Each queued proposal has an index entry for its own height, each entry a
\* height that was announced, and nothing vetoed is queued.
QueueIndexed ==
    /\ \A id \in Veto!Ids : Veto!Queued(id) => <<queue[id], id>> \in vetoIndex
    /\ \A id \in Veto!Ids, e \in 1..MaxHeight : <<e, id>> \in vetoIndex => e \in announced[id]
    /\ \A id \in Veto!Ids : vetoed[id] # Veto!None => ~Veto!Queued(id)

VetoInv == Veto!TypeOK /\ Veto!Reviewable /\ QueueIndexed

VetoAssumptions == Veto!WindowsAssumption /\ Veto!HeightsAssumption /\ Veto!GuardiansAssumption

\* An identifier carries a height at which proposals were still made.
LEMMA IdFacts ==
    ASSUME VetoAssumptions, NEW x \in Contents, NEW h \in 1..MaxHeight, h <= LastProposal
    PROVE  /\ <<x, h>> \in Veto!Ids
           /\ \A w \in Windows : w \in Nat /\ h + w \in 1..MaxHeight
  <1>1. LastProposal \in Nat \ {0} /\ MaxHeight \in Nat /\ Windows \subseteq Nat
    BY DEF VetoAssumptions, Veto!HeightsAssumption, Veto!WindowsAssumption
  <1>2. <<x, h>> \in Veto!Ids
    BY <1>1 DEF Veto!Ids
  <1>3. \A w \in Windows : w \in Nat /\ LastProposal + w <= MaxHeight
    BY <1>1 DEF VetoAssumptions, Veto!HeightsAssumption
  <1>4. ASSUME NEW w \in Windows
        PROVE  w \in Nat /\ h + w \in 1..MaxHeight
    <2>1. w \in Nat /\ LastProposal + w <= MaxHeight /\ h \in Nat /\ 1 <= h
      BY <1>1, <1>3
    <2>. QED
      BY <1>1, <2>1
  <1>. QED
    BY <1>2, <1>4

\* Nothing is proposed yet.
LEMMA VetoInvariantInitially ==
    ASSUME VetoAssumptions, Veto!Init
    PROVE  VetoInv
  <1>1. 1 \in 1..MaxHeight /\ 0 \in 0..MaxHeight
    <2>1. LastProposal \in Nat \ {0} /\ MaxHeight \in Nat
      BY DEF VetoAssumptions, Veto!HeightsAssumption
    <2>2. window \in Nat /\ LastProposal + window <= MaxHeight
      BY DEF VetoAssumptions, Veto!HeightsAssumption, Veto!WindowsAssumption, Veto!Init
    <2>. QED
      BY <2>1, <2>2
  <1>2. Veto!TypeOK
    <2>1. queue \in [Veto!Ids -> 0..MaxHeight] /\ vetoIndex \subseteq (1..MaxHeight) \X Veto!Ids
      BY <1>1 DEF Veto!Init
    <2>2. announced \in [Veto!Ids -> SUBSET (1..MaxHeight)] /\ vetoed \in [Veto!Ids -> Guardians \cup {Veto!None}]
      BY DEF Veto!Init
    <2>3. injected \in [Veto!Ids -> {"NONE", "VERIFIED", "DISPROVEN"}] /\ guardians \subseteq Guardians
      BY DEF Veto!Init
    <2>. QED
      BY <1>1, <2>1, <2>2, <2>3 DEF Veto!Init, Veto!TypeOK
  <1>. QED
    BY <1>2 DEF Veto!Init, VetoInv, Veto!Reviewable, QueueIndexed, Veto!Queued

\* A proposal queues a fact for the height that it announces.
LEMMA ProposalKeepsVetoInv ==
    ASSUME VetoAssumptions, VetoInv, NEW x \in Contents, Veto!ProposeFact(x)
    PROVE  VetoInv'
  <1>. DEFINE id == <<x, height>>
              e == height + window
  <1>1. /\ injectStage = "txs" /\ height <= LastProposal /\ window > 0
        /\ queue' = [queue EXCEPT ![id] = e] /\ vetoIndex' = vetoIndex \cup {<<e, id>>}
        /\ announced' = [announced EXCEPT ![id] = @ \cup {e}] /\ vetoed' = [vetoed EXCEPT ![id] = Veto!None]
        /\ UNCHANGED <<height, injectStage, Veto!params, injected>>
    BY DEF Veto!ProposeFact, Veto!VetoEnabled
  <1>2. id \in Veto!Ids /\ e \in 1..MaxHeight /\ height \in 1..MaxHeight /\ window \in Nat
    BY <1>1, IdFacts DEF VetoInv, Veto!TypeOK
  <1>3. e > height /\ e # 0 /\ e \in 0..MaxHeight
    BY <1>1, <1>2
  <1>. HIDE DEF id, e
  <1>4. /\ queue \in [Veto!Ids -> 0..MaxHeight] /\ announced \in [Veto!Ids -> SUBSET (1..MaxHeight)]
        /\ vetoed \in [Veto!Ids -> Guardians \cup {Veto!None}] /\ vetoIndex \subseteq (1..MaxHeight) \X Veto!Ids
    BY DEF VetoInv, Veto!TypeOK
  <1>5. /\ queue'[id] = e /\ announced'[id] = announced[id] \cup {e} /\ vetoed'[id] = Veto!None
        /\ \A j \in Veto!Ids \ {id} : queue'[j] = queue[j] /\ announced'[j] = announced[j] /\ vetoed'[j] = vetoed[j]
    BY <1>1, <1>2, <1>4
  <1>6. Veto!TypeOK'
    <2>1. queue' \in [Veto!Ids -> 0..MaxHeight] /\ vetoed' \in [Veto!Ids -> Guardians \cup {Veto!None}]
      BY <1>1, <1>3, <1>4
    <2>2. announced' \in [Veto!Ids -> SUBSET (1..MaxHeight)]
      <3>1. announced[id] \cup {e} \in SUBSET (1..MaxHeight)
        BY <1>2, <1>4
      <3>. QED
        BY <1>1, <1>4, <3>1
    <2>3. vetoIndex' \subseteq (1..MaxHeight) \X Veto!Ids
      BY <1>1, <1>2, <1>4
    <2>. QED
      BY <1>1, <2>1, <2>2, <2>3 DEF VetoInv, Veto!TypeOK, Veto!params
  <1>7. Veto!Reviewable'
    BY <1>1, <1>3, <1>5 DEF VetoInv, Veto!Reviewable, QueueIndexed, Veto!Queued
  <1>8. QueueIndexed'
    BY <1>1, <1>5 DEF VetoInv, QueueIndexed, Veto!Queued
  <1>. QED
    BY <1>6, <1>7, <1>8 DEF VetoInv

\* A veto takes the proposal and its entry out.
LEMMA VetoKeepsVetoInv ==
    ASSUME VetoAssumptions, VetoInv, NEW g \in Guardians, NEW id \in Veto!Ids, Veto!VetoFactInjection(g, id)
    PROVE  VetoInv'
  <1>1. /\ Veto!Queued(id) /\ queue' = [queue EXCEPT ![id] = 0] /\ vetoIndex' = vetoIndex \ {<<queue[id], id>>}
        /\ vetoed' = [vetoed EXCEPT ![id] = g] /\ UNCHANGED <<height, injectStage, Veto!params, injected, announced>>
    BY DEF Veto!VetoFactInjection, Veto!Dequeued
  <1>2. queue \in [Veto!Ids -> 0..MaxHeight] /\ vetoed \in [Veto!Ids -> Guardians \cup {Veto!None}]
    BY DEF VetoInv, Veto!TypeOK
  <1>3. /\ queue'[id] = 0 /\ \A j \in Veto!Ids \ {id} : queue'[j] = queue[j] /\ vetoed'[j] = vetoed[j]
        /\ \A j \in Veto!Ids \ {id} : <<queue[j], j>> \in vetoIndex' <=> <<queue[j], j>> \in vetoIndex
    BY <1>1 DEF VetoInv, Veto!TypeOK
  <1>4. Veto!TypeOK'
    <2>1. queue' \in [Veto!Ids -> 0..MaxHeight] /\ vetoed' \in [Veto!Ids -> Guardians \cup {Veto!None}]
      <3>1. MaxHeight \in Nat
        BY DEF VetoAssumptions, Veto!HeightsAssumption
      <3>2. 0 \in 0..MaxHeight
        BY <3>1
      <3>. QED
        BY <1>1, <3>2 DEF VetoInv, Veto!TypeOK
    <2>. QED
      BY <1>1, <2>1 DEF VetoInv, Veto!TypeOK, Veto!params
  <1>5. Veto!Reviewable'
    BY <1>1, <1>3 DEF VetoInv, Veto!Reviewable, Veto!Queued
  <1>6. QueueIndexed'
    BY <1>1, <1>3 DEF VetoInv, QueueIndexed, Veto!Queued
  <1>. QED
    BY <1>4, <1>5, <1>6 DEF VetoInv

\* What is left in the queue after the matured entries have become facts has
\* an entry for a later block.
LEMMA MaterializationKeepsVetoInv ==
    ASSUME VetoAssumptions, VetoInv, Veto!MaterializeMaturedFactInjections
    PROVE  VetoInv'
  <1>1. /\ injectStage' = "txs"
        /\ injected' = [id \in Veto!Ids |-> IF id \in Veto!Due THEN "VERIFIED" ELSE injected[id]]
        /\ queue' = [id \in Veto!Ids |-> IF id \in Veto!Due THEN 0 ELSE queue[id]]
        /\ vetoIndex' = vetoIndex \ {<<queue[id], id>> : id \in Veto!Due}
        /\ UNCHANGED <<height, Veto!params, announced, vetoed>>
    BY DEF Veto!MaterializeMaturedFactInjections
  <1>2. /\ height \in 1..MaxHeight /\ queue \in [Veto!Ids -> 0..MaxHeight]
        /\ injected \in [Veto!Ids -> {"NONE", "VERIFIED", "DISPROVEN"}] /\ Veto!Due \subseteq Veto!Ids
    BY DEF VetoInv, Veto!TypeOK, Veto!Due
  <1>3. ASSUME NEW id \in Veto!Ids, queue'[id] # 0
        PROVE  id \notin Veto!Due /\ queue'[id] = queue[id] /\ Veto!Queued(id) /\ queue[id] > height /\ <<queue[id], id>> \in vetoIndex'
    <2>1. id \notin Veto!Due /\ queue'[id] = queue[id] /\ Veto!Queued(id)
      BY <1>1, <1>3 DEF Veto!Queued
    <2>2. <<queue[id], id>> \in vetoIndex
      BY <2>1 DEF VetoInv, QueueIndexed
    <2>3. queue[id] \notin 1..height
      BY <2>1, <2>2 DEF Veto!Due
    <2>4. queue[id] > height
      BY <1>2, <2>1, <2>3 DEF Veto!Queued
    <2>5. <<queue[id], id>> \notin {<<queue[j], j>> : j \in Veto!Due}
      BY <2>1
    <2>. QED
      BY <1>1, <2>1, <2>2, <2>4, <2>5
  <1>4. Veto!TypeOK'
    <2>1. queue' \in [Veto!Ids -> 0..MaxHeight]
      <3>1. MaxHeight \in Nat
        BY DEF VetoAssumptions, Veto!HeightsAssumption
      <3>2. 0 \in 0..MaxHeight
        BY <3>1
      <3>. QED
        BY <1>1, <1>2, <3>2
    <2>2. injected' \in [Veto!Ids -> {"NONE", "VERIFIED", "DISPROVEN"}]
      BY <1>1, <1>2
    <2>. QED
      BY <1>1, <2>1, <2>2 DEF VetoInv, Veto!TypeOK, Veto!params
  <1>5. Veto!Reviewable'
    BY <1>1, <1>3 DEF Veto!Reviewable, Veto!Queued
  <1>6. QueueIndexed'
    BY <1>1, <1>3 DEF VetoInv, QueueIndexed, Veto!Queued
  <1>. QED
    BY <1>4, <1>5, <1>6 DEF VetoInv

\* Every step keeps the invariant.
LEMMA NextKeepsVetoInv ==
    ASSUME VetoAssumptions, VetoInv, [Veto!Next]_(Veto!vars)
    PROVE  VetoInv'
  <1>1. CASE UNCHANGED Veto!vars
    BY <1>1 DEF Veto!vars, Veto!params, VetoInv, Veto!TypeOK, Veto!Reviewable, QueueIndexed, Veto!Queued
  <1>2. ASSUME NEW w \in Windows, NEW gs \in SUBSET Guardians, Veto!UpdateParams(w, gs)
        PROVE  VetoInv'
    BY <1>2 DEF Veto!UpdateParams, VetoInv, Veto!TypeOK, Veto!Reviewable, QueueIndexed, Veto!Queued
  <1>3. ASSUME NEW x \in Contents, Veto!ProposeFact(x)
        PROVE  VetoInv'
    BY <1>3, ProposalKeepsVetoInv
  <1>4. ASSUME NEW x \in Contents, Veto!AddFactNow(x)
        PROVE  VetoInv'
    <2>. DEFINE id == <<x, height>>
    <2>1. /\ height <= LastProposal /\ injected' = [injected EXCEPT ![id] = "VERIFIED"]
          /\ vetoed' = [vetoed EXCEPT ![id] = Veto!None]
          /\ UNCHANGED <<height, injectStage, Veto!params, queue, vetoIndex, announced>>
      BY <1>4 DEF Veto!AddFactNow
    <2>2. id \in Veto!Ids
      BY <2>1, IdFacts DEF VetoInv, Veto!TypeOK
    <2>. HIDE DEF id
    <2>3. \A j \in Veto!Ids : vetoed'[j] # Veto!None => vetoed'[j] = vetoed[j]
      BY <2>1, <2>2 DEF VetoInv, Veto!TypeOK
    <2>4. Veto!TypeOK'
      BY <2>1, <2>2 DEF VetoInv, Veto!TypeOK, Veto!params
    <2>5. Veto!Reviewable'
      BY <2>1 DEF VetoInv, Veto!Reviewable, Veto!Queued
    <2>6. QueueIndexed'
      BY <2>1, <2>3 DEF VetoInv, QueueIndexed, Veto!Queued
    <2>. QED
      BY <2>4, <2>5, <2>6 DEF VetoInv
  <1>5. ASSUME NEW g \in Guardians, NEW id \in Veto!Ids, Veto!VetoFactInjection(g, id)
        PROVE  VetoInv'
    BY <1>5, VetoKeepsVetoInv
  <1>6. ASSUME NEW id \in Veto!Ids, Veto!Refute(id)
        PROVE  VetoInv'
    BY <1>6 DEF Veto!Refute, VetoInv, Veto!TypeOK, Veto!params, Veto!Reviewable, QueueIndexed, Veto!Queued
  <1>7. CASE Veto!MaterializeMaturedFactInjections
    BY <1>7, MaterializationKeepsVetoInv
  <1>8. CASE Veto!NextBlock
    <2>1. height' \in 1..MaxHeight /\ injectStage' = "begin"
      <3>1. MaxHeight \in Nat
        BY DEF VetoAssumptions, Veto!HeightsAssumption
      <3>. QED
        BY <1>8, <3>1 DEF Veto!NextBlock, VetoInv, Veto!TypeOK
    <2>. QED
      BY <1>8, <2>1 DEF Veto!NextBlock, VetoInv, Veto!TypeOK, Veto!params, Veto!Reviewable, QueueIndexed, Veto!Queued
  <1>. QED
    BY <1>1, <1>2, <1>3, <1>4, <1>5, <1>6, <1>7, <1>8 DEF Veto!Next

\* What a step may do to a proposal that was queued or vetoed.
LEMMA StepsRespectVetoes ==
    ASSUME VetoAssumptions, VetoInv, [Veto!Next]_(Veto!vars)
    PROVE  Veto!VetoHolds /\ Veto!LeavesByVetoOrFact /\ Veto!NotBeforeAnnounced
  <1>. SUFFICES ASSUME NEW id \in Veto!Ids
                PROVE  /\ vetoed[id] # Veto!None /\ vetoed'[id] # Veto!None /\ injected[id] # "VERIFIED" => injected'[id] # "VERIFIED"
                       /\ Veto!Queued(id) /\ queue'[id] = 0 =>
                            /\ injected'[id] = "VERIFIED" \/ vetoed'[id] \in guardians
                            /\ vetoed'[id] = Veto!None => \E e \in announced[id] : height >= e
    BY DEF Veto!VetoHolds, Veto!LeavesByVetoOrFact, Veto!NotBeforeAnnounced
  <1>0. /\ queue \in [Veto!Ids -> 0..MaxHeight] /\ vetoed \in [Veto!Ids -> Guardians \cup {Veto!None}]
        /\ injected \in [Veto!Ids -> {"NONE", "VERIFIED", "DISPROVEN"}] /\ height \in 1..MaxHeight
        /\ vetoIndex \subseteq (1..MaxHeight) \X Veto!Ids
    BY DEF VetoInv, Veto!TypeOK
  <1>1. CASE UNCHANGED <<queue, injected>>
    BY <1>1 DEF Veto!Queued
  <1>2. CASE \E x \in Contents : Veto!ProposeFact(x)
    <2>1. PICK x \in Contents : Veto!ProposeFact(x)
      BY <1>2
    <2>2. injected' = injected /\ queue' = [queue EXCEPT ![<<x, height>>] = height + window] /\ window > 0
      BY <2>1 DEF Veto!ProposeFact, Veto!VetoEnabled
    <2>3. window \in Nat
      BY DEF VetoInv, Veto!TypeOK, VetoAssumptions, Veto!WindowsAssumption
    <2>4. height + window # 0
      BY <1>0, <2>2, <2>3
    <2>. QED
      BY <1>0, <2>2, <2>4 DEF Veto!Queued
  <1>3. CASE \E x \in Contents : Veto!AddFactNow(x)
    BY <1>0, <1>3 DEF Veto!AddFactNow, Veto!Queued
  <1>4. CASE \E g \in Guardians, j \in Veto!Ids : Veto!VetoFactInjection(g, j)
    <2>1. PICK g \in Guardians, j \in Veto!Ids : Veto!VetoFactInjection(g, j)
      BY <1>4
    <2>2. /\ g \in guardians /\ queue' = [queue EXCEPT ![j] = 0] /\ vetoed' = [vetoed EXCEPT ![j] = g]
          /\ injected' = injected
      BY <2>1 DEF Veto!VetoFactInjection, Veto!MayVeto, Veto!Dequeued
    <2>3. g # Veto!None
      BY DEF VetoAssumptions, Veto!GuardiansAssumption
    <2>. QED
      BY <1>0, <2>2, <2>3 DEF Veto!Queued
  <1>5. CASE \E j \in Veto!Ids : Veto!Refute(j)
    BY <1>0, <1>5 DEF Veto!Refute, Veto!Queued
  <1>6. CASE Veto!MaterializeMaturedFactInjections
    <2>1. /\ injected' = [j \in Veto!Ids |-> IF j \in Veto!Due THEN "VERIFIED" ELSE injected[j]]
          /\ queue' = [j \in Veto!Ids |-> IF j \in Veto!Due THEN 0 ELSE queue[j]]
      BY <1>6 DEF Veto!MaterializeMaturedFactInjections
    <2>2. CASE id \in Veto!Due
      <3>1. Veto!Queued(id)
        BY <2>2 DEF Veto!Due
      <3>2. PICK e \in 1..height : <<e, id>> \in vetoIndex
        BY <2>2 DEF Veto!Due
      <3>3. e \in 1..MaxHeight /\ height >= e
        BY <1>0, <3>2
      <3>4. e \in announced[id] /\ vetoed[id] = Veto!None
        BY <3>1, <3>2, <3>3 DEF VetoInv, QueueIndexed
      <3>. QED
        BY <2>1, <2>2, <3>3, <3>4
    <2>3. CASE id \notin Veto!Due
      BY <2>1, <2>3 DEF Veto!Queued
    <2>. QED
      BY <2>2, <2>3
  <1>. QED
    BY <1>1, <1>2, <1>3, <1>4, <1>5, <1>6 DEF Veto!Next, Veto!UpdateParams, Veto!NextBlock, Veto!vars

\* Whatever is queued stays within every listed guardian's reach, leaves only
\* by a guardian's veto or as a fact, never before a height that was announced,
\* and what was vetoed does not come back by itself.
THEOREM VetoesHoldAlways ==
    ASSUME VetoAssumptions
    PROVE  Veto!Spec => /\ [](Veto!TypeOK /\ Veto!Reviewable)
                        /\ [][Veto!VetoHolds /\ Veto!LeavesByVetoOrFact /\ Veto!NotBeforeAnnounced]_(Veto!vars)
  <1>1. Veto!Init => VetoInv
    BY VetoInvariantInitially
  <1>2. VetoInv /\ [Veto!Next]_(Veto!vars) => VetoInv'
    BY NextKeepsVetoInv
  <1>3. VetoInv /\ [Veto!Next]_(Veto!vars) => [Veto!VetoHolds /\ Veto!LeavesByVetoOrFact /\ Veto!NotBeforeAnnounced]_(Veto!vars)
    BY StepsRespectVetoes
  <1>4. VetoInv => Veto!TypeOK /\ Veto!Reviewable
    BY DEF VetoInv
  <1>. QED
    BY <1>1, <1>2, <1>3, <1>4, PTL DEF Veto!Spec

-----------------------------------------------------------------------------
(* The inductive invariant of qualifications *)

\* A record at height h, while the policy is neutral or not.
RecordOK(q, h, n) ==
    /\ q \in Quals!Record /\ q.weight \in 1 .. StakeWeight
    /\ q.pathway = "stake" \/ q.stake = 0
    /\ Quals!Standing(q) => q.expires > h
    /\ ~n /\ q.status = "probationary" => q.probation \in (h + 1) .. (h + ProbationPeriod)

\* What a record was granted for and counts, whatever becomes of its standing.
SameGrant(q, r) ==
    /\ r.weight = q.weight /\ r.expires = q.expires /\ r.endorsements = q.endorsements
    /\ r.pathway = q.pathway /\ r.stake = q.stake

RecordsOK(Q, h, n) == \A p \in Quals!Pairs : Q[p] # Void => RecordOK(Q[p], h, n)

EndorsementOK(e, n) == e.id \in 1 .. (n - 1) /\ e.of \in Quals!Pairs /\ e.by \in Validators /\ e.expires \in Nat

EndorsementsOK == IsFiniteSet(endorsed) /\ nextId \in Nat \ {0} /\ \A e \in endorsed : EndorsementOK(e, nextId)

CoinsOK == purse \in [Validators -> Nat] /\ pot \in Nat

QualInv ==
    /\ quals \in [Quals!Pairs -> Quals!Record \cup {Void}] /\ RecordsOK(quals, height, reviewNeutral)
    /\ EndorsementsOK /\ CoinsOK
    /\ reviewNeutral \in BOOLEAN /\ height \in 1 .. MaxHeight

\* The assumption, one fact at a time.
LEMMA QualParams ==
    ASSUME Quals!QualificationAssumption
    PROVE  /\ IsFiniteSet(Validators) /\ IsFiniteSet(Domains) /\ Depth \in [Domains -> Nat]
           /\ StakeLockPeriod \in Nat /\ QualificationPeriod \in Nat \ {0} /\ ProbationPeriod \in Nat \ {0}
           /\ Scale \in Nat \ {0} /\ MaxHeight \in Nat \ {0}
           /\ Void \notin Quals!Record /\ Stakes \subseteq Nat /\ StakeWeight \in 1 .. 100
           /\ Purse \in Nat /\ RenewalWindow \in Nat /\ MaxEndorsements \in Nat
           /\ CrossRefDiscount \in Nat /\ InheritanceDiscount \in Nat
  BY QualCounts DEF Quals!QualificationAssumption

\* The smaller and the greater of two numbers.
LEMMA SmallerGreater ==
    ASSUME NEW a \in Int, NEW b \in Int
    PROVE  /\ Quals!Min({a, b}) \in {a, b} /\ Quals!Min({a, b}) <= a /\ Quals!Min({a, b}) <= b
           /\ Quals!Max({a, b}) \in {a, b} /\ Quals!Max({a, b}) >= a /\ Quals!Max({a, b}) >= b
  <1>1. \E x \in {a, b} : \A y \in {a, b} : x <= y
    OBVIOUS
  <1>2. \E x \in {a, b} : \A y \in {a, b} : x >= y
    OBVIOUS
  <1>3. Quals!Min({a, b}) \in {a, b} /\ \A y \in {a, b} : Quals!Min({a, b}) <= y
    BY <1>1 DEF Quals!Min
  <1>4. Quals!Max({a, b}) \in {a, b} /\ \A y \in {a, b} : Quals!Max({a, b}) >= y
    BY <1>2 DEF Quals!Max
  <1>. QED
    BY <1>3, <1>4

\* A part of a whole is no more than the whole.
LEMMA PartOfWhole ==
    ASSUME NEW w \in Nat, NEW s \in Nat \ {0}, NEW k \in 0 .. s
    PROVE  (w * k) \div s \in 0 .. w
  <1>1. w * k \in Nat /\ w * s \in Nat
    OBVIOUS
  <1>2. w * (s - k) \in Nat
    OBVIOUS
  <1>3. w * k + w * (s - k) = w * s
    OBVIOUS
  <1>4. w * k <= w * s
    BY <1>1, <1>2, <1>3
  <1>5. (w * k) \div s \in Nat
    BY <1>1
  <1>6. s * ((w * k) \div s) <= w * k
    BY <1>1
  <1>7. s * ((w * k) \div s) <= s * w
    BY <1>4, <1>6
  <1>8. SUFFICES ASSUME (w * k) \div s > w
                 PROVE  FALSE
    BY <1>5
  <1>. DEFINE d == (w * k) \div s
  <1>9. d - w \in Nat /\ d - w >= 1
    BY <1>5, <1>8
  <1>. HIDE DEF d
  <1>10. s * (d - w) >= s
    BY <1>9
  <1>. QED
    BY <1>5, <1>7, <1>10 DEF d

\* A derived weight is positive and no greater than its source.
LEMMA DiscountedLess ==
    ASSUME Quals!QualificationAssumption, NEW w \in 1 .. StakeWeight, NEW disc \in Nat, NEW dist \in Nat
    PROVE  Quals!Discounted(w, disc, dist) \in 1 .. StakeWeight
  <1>. DEFINE scaled == Quals!Min({disc * dist, Scale})
              part == (w * (Scale - scaled)) \div Scale
  <1>1. Scale \in Nat \ {0} /\ StakeWeight \in 1 .. 100 /\ w \in Nat
    BY QualParams
  <1>2. disc * dist \in Nat
    OBVIOUS
  <1>3. scaled \in 0 .. Scale
    <2>1. ASSUME NEW m \in Nat
          PROVE  Quals!Min({m, Scale}) \in 0 .. Scale
      <3>1. Quals!Min({m, Scale}) \in {m, Scale} /\ Quals!Min({m, Scale}) <= Scale
        BY <1>1, SmallerGreater
      <3>. QED
        BY <1>1, <3>1
    <2>. QED
      BY <1>2, <2>1
  <1>. HIDE DEF scaled
  <1>4. Scale - scaled \in 0 .. Scale
    BY <1>1, <1>3
  <1>5. part \in 0 .. w
    BY <1>1, <1>4, PartOfWhole
  <1>. HIDE DEF part
  <1>6. Quals!Max({1, part}) \in 1 .. w
    <2>. DEFINE m == Quals!Max({1, part})
    <2>1. part \in Int
      BY <1>1, <1>5
    <2>2. ASSUME NEW a \in Int, NEW b \in Int
          PROVE  Quals!Max({a, b}) \in {a, b} /\ Quals!Max({a, b}) >= a
      BY SmallerGreater
    <2>3. m \in {1, part} /\ m >= 1
      <3>. HIDE DEF m
      <3>1. 1 \in Int
        OBVIOUS
      <3>. QED
        BY <2>1, <2>2, <3>1, Zenon DEF m
    <2>. HIDE DEF m
    <2>4. m \in 1 .. w
      BY <1>1, <1>5, <2>3
    <2>. QED
      BY <2>4 DEF m
  <1>7. Quals!Min({100, Quals!Max({1, part})}) \in 1 .. w
    <2>. DEFINE m == Quals!Max({1, part})
    <2>. HIDE DEF m
    <2>1. m \in 1 .. w
      BY <1>6 DEF m
    <2>2. Quals!Min({100, m}) \in {100, m} /\ Quals!Min({100, m}) <= m
      BY <2>1, SmallerGreater
    <2>3. Quals!Min({100, m}) \in 1 .. w
      BY <1>1, <2>1, <2>2
    <2>. QED
      BY <2>3 DEF m
  <1>. QED
    BY <1>1, <1>7 DEF Quals!Discounted, part, scaled

-----------------------------------------------------------------------------
(* One record through a block *)

\* The decay scan moves the status only, and sets a probation for one period.
LEMMA DecayedFacts ==
    ASSUME Quals!QualificationAssumption, NEW q \in Quals!Record, NEW now \in Nat
    PROVE  LET r == Quals!Decayed(q, now)
           IN  /\ r \in Quals!Record /\ SameGrant(q, r)
               /\ Quals!Standing(r) => Quals!Standing(q)
               /\ q.status = "suspended" => r.status = "suspended"
               /\ r.status = "probationary" => \/ q.status = "probationary" /\ r.probation = q.probation
                                               \/ r.probation = now + ProbationPeriod
  <1>1. now + ProbationPeriod \in Nat
    BY QualParams
  <1>. QED
    BY <1>1 DEF Quals!Decayed, Quals!Standing, Quals!Record, SameGrant

\* A probation that is over has ended.
LEMMA PromotedFacts ==
    ASSUME NEW q \in Quals!Record, NEW now \in Nat
    PROVE  LET r == Quals!Promoted(q, now)
           IN  /\ r \in Quals!Record /\ SameGrant(q, r)
               /\ Quals!Standing(r) => Quals!Standing(q)
               /\ q.status # "probationary" => r.status = q.status
               /\ r.status = "probationary" => r.probation = q.probation /\ (now < q.probation \/ q.probation = 0)
  <1>. DEFINE over == q.status = "probationary" /\ q.probation > 0 /\ now >= q.probation
              deserved == q.total >= MinVerifications /\ Quals!Accuracy(q) >= MinAccuracy
              r == Quals!Promoted(q, now)
  <1>. HIDE DEF deserved
  <1>1. r = IF over THEN [q EXCEPT !.probation = 0, !.status = IF deserved THEN "active" ELSE "suspended"] ELSE q
    BY DEF Quals!Promoted, deserved
  <1>2. q.probation \in Nat
    BY DEF Quals!Record
  <1>. HIDE DEF r
  <1>3. CASE over
    <2>1. r = [q EXCEPT !.probation = 0, !.status = "active"] \/ r = [q EXCEPT !.probation = 0, !.status = "suspended"]
      BY <1>1, <1>3
    <2>2. /\ r \in Quals!Record /\ SameGrant(q, r)
          /\ r.status \in {"active", "suspended"}
      <3>1. CASE r = [q EXCEPT !.probation = 0, !.status = "active"]
        BY <3>1 DEF Quals!Record, SameGrant
      <3>2. CASE r = [q EXCEPT !.probation = 0, !.status = "suspended"]
        BY <3>2 DEF Quals!Record, SameGrant
      <3>. QED
        BY <2>1, <3>1, <3>2
    <2>. QED
      BY <1>3, <2>2 DEF Quals!Standing, r
  <1>4. CASE ~over
    <2>1. r = q
      BY <1>1, <1>4
    <2>. QED
      BY <1>2, <1>4, <2>1 DEF SameGrant, r
  <1>. QED
    BY <1>3, <1>4

\* A record is still in order after the pass, and a suspended one is still suspended.
LEMMA PassedFacts ==
    ASSUME Quals!QualificationAssumption, reviewNeutral \in BOOLEAN, NEW h \in Nat, NEW q, RecordOK(q, h, reviewNeutral)
    PROVE  /\ RecordOK(Quals!Passed(q, h + 1), h + 1, reviewNeutral) /\ Quals!Passed(q, h + 1).endorsements = q.endorsements
           /\ q.status = "suspended" => Quals!Passed(q, h + 1).status = "suspended"
  <1>. DEFINE now == h + 1
              j == Quals!Judged(q, now)
              l == IF reviewNeutral THEN j ELSE Quals!Promoted(j, now)
              r == Quals!Passed(q, now)
  <1>1. now \in Nat /\ q \in Quals!Record /\ ProbationPeriod \in Nat \ {0}
    BY QualParams DEF RecordOK
  <1>2. /\ j \in Quals!Record /\ SameGrant(q, j)
        /\ Quals!Standing(j) => Quals!Standing(q)
        /\ q.status = "suspended" => j.status = "suspended"
        /\ j.status = "probationary" => \/ q.status = "probationary" /\ j.probation = q.probation
                                        \/ j.probation = now + ProbationPeriod
    <2>1. CASE j = q
      BY <1>1, <2>1 DEF SameGrant
    <2>2. CASE j = Quals!Decayed(q, now)
      BY <1>1, <2>2, DecayedFacts
    <2>. QED
      BY <2>1, <2>2 DEF Quals!Judged
  <1>. HIDE DEF j
  <1>3. /\ l \in Quals!Record /\ SameGrant(j, l)
        /\ Quals!Standing(l) => Quals!Standing(j)
        /\ j.status # "probationary" => l.status = j.status
        /\ ~reviewNeutral /\ l.status = "probationary" => l.probation = j.probation /\ (now < j.probation \/ j.probation = 0)
                                                    /\ j.status = "probationary"
    <2>1. CASE reviewNeutral
      BY <1>2, <2>1 DEF SameGrant
    <2>2. CASE ~reviewNeutral
      BY <1>1, <1>2, <2>2, PromotedFacts
    <2>. QED
      BY <2>1, <2>2
  <1>. HIDE DEF l
  <1>4. r = IF Quals!Expires(j, now) THEN [j EXCEPT !.status = "expired", !.probation = l.probation] ELSE l
    BY DEF Quals!Passed, j, l
  <1>5. CASE Quals!Expires(j, now)
    <2>1. l.probation \in Nat
      BY <1>3 DEF Quals!Record
    <2>2. r = [j EXCEPT !.status = "expired", !.probation = l.probation]
      BY <1>4, <1>5
    <2>3. /\ r \in Quals!Record /\ SameGrant(q, r)
          /\ r.status = "expired"
      BY <1>2, <2>1, <2>2 DEF Quals!Record, SameGrant
    <2>4. q.status # "suspended"
      BY <1>2, <1>5 DEF Quals!Expires, Quals!Standing
    <2>. QED
      BY <2>3, <2>4 DEF RecordOK, Quals!Standing, SameGrant
  <1>6. CASE ~Quals!Expires(j, now)
    <2>1. r = l
      BY <1>4, <1>6
    <2>2. /\ r \in Quals!Record /\ SameGrant(q, r)
          /\ q.status = "suspended" => r.status = "suspended"
      BY <1>2, <1>3, <2>1 DEF SameGrant
    <2>3. Quals!Standing(r) => r.expires > now
      <3>1. j.expires \in Nat
        BY <1>2 DEF Quals!Record
      <3>. QED
        BY <1>1, <1>3, <1>6, <2>1, <3>1 DEF Quals!Expires, SameGrant
    <2>4. ~reviewNeutral /\ r.status = "probationary" => r.probation \in (now + 1) .. (now + ProbationPeriod)
      <3>1. SUFFICES ASSUME ~reviewNeutral, r.status = "probationary"
                     PROVE  r.probation \in (now + 1) .. (now + ProbationPeriod)
        OBVIOUS
      <3>2. r.probation = j.probation /\ j.probation \in Nat /\ (now < j.probation \/ j.probation = 0)
            /\ j.status = "probationary"
        BY <1>2, <1>3, <2>1, <3>1 DEF Quals!Record
      <3>3. CASE q.status = "probationary" /\ j.probation = q.probation
        BY <1>1, <3>1, <3>2, <3>3 DEF RecordOK
      <3>4. CASE j.probation = now + ProbationPeriod
        BY <1>1, <3>2, <3>4
      <3>. QED
        BY <1>2, <3>2, <3>3, <3>4
    <2>. QED
      BY <2>2, <2>3, <2>4 DEF RecordOK, SameGrant
  <1>. QED
    BY <1>5, <1>6

-----------------------------------------------------------------------------
(* The steps *)

\* Writing or deleting one record in order.
LEMMA OneWritten ==
    ASSUME QualInv, NEW p \in Quals!Pairs, NEW x, x = Void \/ RecordOK(x, height, reviewNeutral),
           quals' = [quals EXCEPT ![p] = x], UNCHANGED <<reviewNeutral, height>>
    PROVE  quals' \in [Quals!Pairs -> Quals!Record \cup {Void}] /\ RecordsOK(quals', height', reviewNeutral')
  BY DEF QualInv, RecordsOK, RecordOK

\* A granted record is in order.
LEMMA GrantOK ==
    ASSUME Quals!QualificationAssumption, QualInv, NEW pathway \in {"stake", "cross_reference", "inheritance"},
           NEW weight \in 1 .. StakeWeight, NEW stake \in Nat, pathway = "stake" \/ stake = 0
    PROVE  RecordOK(Quals!Grant(pathway, weight, stake), height, reviewNeutral)
  <1>1. /\ height \in Nat /\ QualificationPeriod \in Nat \ {0} /\ MaxEndorsements \in Nat /\ StakeWeight \in 1 .. 100
    BY QualParams DEF QualInv
  <1>. QED
    BY <1>1 DEF RecordOK, Quals!Record, Quals!Grant, Quals!Standing

LEMMA StakeKeeps ==
    ASSUME Quals!QualificationAssumption, QualInv, NEW v \in Validators, NEW d \in Domains, NEW stake \in Stakes,
           Quals!QualifyByStake(v, d, stake)
    PROVE  QualInv'
  <1>. DEFINE p == <<v, d>>
              x == Quals!Grant("stake", StakeWeight, stake)
  <1>1. p \in Quals!Pairs /\ stake \in Nat /\ StakeWeight \in 1 .. StakeWeight
    BY QualParams DEF Quals!Pairs
  <1>2. RecordOK(x, height, reviewNeutral)
    BY <1>1, GrantOK
  <1>3. quals' = [quals EXCEPT ![p] = x] /\ UNCHANGED <<endorsed, nextId, reviewNeutral, height>>
    BY DEF Quals!QualifyByStake
  <1>. HIDE DEF p, x
  <1>4. quals' \in [Quals!Pairs -> Quals!Record \cup {Void}] /\ RecordsOK(quals', height', reviewNeutral')
    BY <1>1, <1>2, <1>3, OneWritten
  <1>5. CoinsOK'
    BY <1>1 DEF QualInv, CoinsOK, Quals!QualifyByStake
  <1>. QED
    BY <1>3, <1>4, <1>5 DEF QualInv, EndorsementsOK

\* A derived record is in order, and its endorsements are none.
LEMMA DeriveKeeps ==
    ASSUME Quals!QualificationAssumption, QualInv, NEW v \in Validators, NEW d \in Domains, NEW from \in Domains,
           NEW pathway \in {"cross_reference", "inheritance"}, NEW disc \in Nat, Quals!Derive(v, d, from, pathway, disc)
    PROVE  QualInv'
  <1>. DEFINE p == <<v, d>>
              source == quals[<<v, from>>]
              x == Quals!Grant(pathway, Quals!Discounted(source.weight, disc, Quals!Distance(d, from)), 0)
  <1>1. p \in Quals!Pairs /\ <<v, from>> \in Quals!Pairs
    BY DEF Quals!Pairs
  <1>2. source.weight \in 1 .. StakeWeight
    BY <1>1 DEF QualInv, RecordsOK, RecordOK, Quals!Derive
  <1>3. Quals!Distance(d, from) \in Nat
    BY QualParams DEF Quals!Distance
  <1>4. RecordOK(x, height, reviewNeutral)
    BY <1>2, <1>3, DiscountedLess, GrantOK
  <1>5. quals' = [quals EXCEPT ![p] = x] /\ UNCHANGED <<endorsed, nextId, reviewNeutral, purse, pot, height>>
    BY DEF Quals!Derive
  <1>. HIDE DEF p, x
  <1>6. quals' \in [Quals!Pairs -> Quals!Record \cup {Void}] /\ RecordsOK(quals', height', reviewNeutral')
    BY <1>1, <1>4, <1>5, OneWritten
  <1>. QED
    BY <1>5, <1>6 DEF QualInv, EndorsementsOK, CoinsOK

\* Changes of one record that leave its standing alone.
LEMMA EndorseKeeps ==
    ASSUME Quals!QualificationAssumption, QualInv, NEW e \in Validators, NEW v \in Validators, NEW d \in Domains,
           Quals!EndorseQualification(e, v, d)
    PROVE  /\ QualInv'
           /\ quals'[<<v, d>>] \in Quals!Record /\ quals'[<<v, d>>].endorsements = quals[<<v, d>>].endorsements + 1
  <1>. DEFINE p == <<v, d>>
              x == [quals[p] EXCEPT !.endorsements = @ + 1]
              new == [id |-> nextId, of |-> p, by |-> e, expires |-> height + QualificationPeriod]
  <1>1. /\ p \in Quals!Pairs /\ RecordOK(quals[p], height, reviewNeutral) /\ quals[p].endorsements < MaxEndorsements
        /\ quals' = [quals EXCEPT ![p] = x] /\ UNCHANGED <<reviewNeutral, purse, pot, height>>
        /\ endorsed' = endorsed \cup {new} /\ nextId' = nextId + 1
    BY DEF Quals!EndorseQualification, QualInv, RecordsOK, Quals!Pairs
  <1>2. height \in Nat /\ QualificationPeriod \in Nat /\ nextId \in Nat \ {0} /\ MaxEndorsements \in Nat
    BY QualParams DEF QualInv, EndorsementsOK
  <1>3. x \in Quals!Record
    <2>1. quals[p] \in Quals!Record /\ quals[p].endorsements + 1 \in 0 .. MaxEndorsements
      BY <1>1, <1>2 DEF RecordOK, Quals!Record
    <2>. QED
      BY <2>1 DEF Quals!Record
  <1>a. x.endorsements = quals[p].endorsements + 1
    BY <1>1 DEF RecordOK, Quals!Record
  <1>4. RecordOK(x, height, reviewNeutral)
    BY <1>1, <1>3 DEF RecordOK, Quals!Standing, Quals!Record
  <1>. HIDE DEF x
  <1>5. quals' \in [Quals!Pairs -> Quals!Record \cup {Void}] /\ RecordsOK(quals', height', reviewNeutral')
    BY <1>1, <1>4, OneWritten
  <1>6. IsFiniteSet(endorsed')
    BY <1>1, FS_AddElement DEF QualInv, EndorsementsOK
  <1>7. EndorsementOK(new, nextId')
    BY <1>1, <1>2 DEF EndorsementOK
  <1>8. \A y \in endorsed : EndorsementOK(y, nextId')
    BY <1>1, <1>2 DEF QualInv, EndorsementsOK, EndorsementOK
  <1>9. EndorsementsOK'
    BY <1>1, <1>2, <1>6, <1>7, <1>8 DEF EndorsementsOK
  <1>b. quals'[p] = x /\ x \in Quals!Record
    BY <1>1, <1>4 DEF QualInv, RecordOK
  <1>. QED
    BY <1>a, <1>b, <1>1, <1>5, <1>9 DEF QualInv, CoinsOK, p

LEMMA RenewKeeps ==
    ASSUME Quals!QualificationAssumption, QualInv, NEW v \in Validators, NEW d \in Domains, Quals!RenewQualification(v, d)
    PROVE  /\ QualInv'
           /\ quals'[<<v, d>>] \in Quals!Record /\ quals'[<<v, d>>].endorsements = quals[<<v, d>>].endorsements
  <1>. DEFINE p == <<v, d>>
              x == [quals[p] EXCEPT !.expires = height + QualificationPeriod]
  <1>1. /\ p \in Quals!Pairs /\ RecordOK(quals[p], height, reviewNeutral)
        /\ quals' = [quals EXCEPT ![p] = x] /\ UNCHANGED <<endorsed, nextId, reviewNeutral, purse, pot, height>>
    BY DEF Quals!RenewQualification, QualInv, RecordsOK, Quals!Pairs
  <1>2. height \in Nat /\ QualificationPeriod \in Nat \ {0}
    BY QualParams DEF QualInv
  <1>a. x.endorsements = quals[p].endorsements
    BY <1>1 DEF RecordOK, Quals!Record
  <1>3. RecordOK(x, height, reviewNeutral)
    BY <1>1, <1>2 DEF RecordOK, Quals!Standing, Quals!Record
  <1>. HIDE DEF x
  <1>4. quals' \in [Quals!Pairs -> Quals!Record \cup {Void}] /\ RecordsOK(quals', height', reviewNeutral')
    BY <1>1, <1>3, OneWritten
  <1>b. quals'[p] = x /\ x \in Quals!Record
    BY <1>1, <1>3 DEF QualInv, RecordOK
  <1>. QED
    BY <1>a, <1>b, <1>1, <1>4 DEF QualInv, CoinsOK, EndorsementsOK, p

LEMMA VerdictKeeps ==
    ASSUME QualInv, NEW v \in Validators, NEW d \in Domains, NEW correct \in BOOLEAN,
           Quals!RecordVerificationOutcome(v, d, correct)
    PROVE  /\ QualInv'
           /\ quals'[<<v, d>>] \in Quals!Record /\ quals'[<<v, d>>].endorsements = quals[<<v, d>>].endorsements
  <1>. DEFINE p == <<v, d>>
              x == [quals[p] EXCEPT !.total = @ + 1, !.correct = IF correct THEN @ + 1 ELSE @]
  <1>1. p \in Quals!Pairs /\ RecordOK(quals[p], height, reviewNeutral) /\ UNCHANGED <<endorsed, nextId, reviewNeutral, purse, pot, height>>
    BY DEF Quals!RecordVerificationOutcome, QualInv, RecordsOK, Quals!Pairs
  <1>2. quals' = [quals EXCEPT ![p] = x]
    BY <1>1 DEF Quals!RecordVerificationOutcome, QualInv
  <1>a. x.endorsements = quals[p].endorsements
    BY <1>1 DEF RecordOK, Quals!Record
  <1>3. RecordOK(x, height, reviewNeutral)
    <2>1. x = [quals[p] EXCEPT !.total = @ + 1, !.correct = @ + 1] \/ x = [quals[p] EXCEPT !.total = @ + 1]
      OBVIOUS
    <2>. HIDE DEF x
    <2>2. CASE x = [quals[p] EXCEPT !.total = @ + 1, !.correct = @ + 1]
      <3>. DEFINE y == [quals[p] EXCEPT !.total = @ + 1]
      <3>1. x \in Quals!Record
        <4>1. y \in Quals!Record
          BY <1>1 DEF RecordOK, Quals!Record
        <4>2. x = [y EXCEPT !.correct = @ + 1]
          BY <2>2
        <4>. HIDE DEF y
        <4>. QED
          BY <4>1, <4>2 DEF Quals!Record
      <3>2. /\ x.weight = quals[p].weight /\ x.pathway = quals[p].pathway /\ x.stake = quals[p].stake
            /\ x.status = quals[p].status /\ x.expires = quals[p].expires /\ x.probation = quals[p].probation
        BY <1>1, <2>2 DEF RecordOK, Quals!Record
      <3>. QED
        BY <1>1, <3>1, <3>2 DEF RecordOK, Quals!Standing
    <2>3. CASE x = [quals[p] EXCEPT !.total = @ + 1]
      BY <1>1, <2>3 DEF RecordOK, Quals!Standing, Quals!Record
    <2>. QED
      BY <2>1, <2>2, <2>3
  <1>. HIDE DEF x
  <1>4. quals' \in [Quals!Pairs -> Quals!Record \cup {Void}] /\ RecordsOK(quals', height', reviewNeutral')
    BY <1>1, <1>2, <1>3, OneWritten
  <1>b. quals'[p] = x /\ x \in Quals!Record
    BY <1>1, <1>3, <1>2 DEF QualInv, RecordOK
  <1>. QED
    BY <1>a, <1>b, <1>1, <1>4 DEF QualInv, CoinsOK, EndorsementsOK, p

LEMMA WithdrawKeeps ==
    ASSUME QualInv, NEW v \in Validators, NEW d \in Domains, Quals!WithdrawQualification(v, d)
    PROVE  QualInv'
  <1>. DEFINE p == <<v, d>>
  <1>1. /\ p \in Quals!Pairs /\ RecordOK(quals[p], height, reviewNeutral) /\ UNCHANGED <<nextId, reviewNeutral, height>>
        /\ quals' = [quals EXCEPT ![p] = Void] /\ endorsed' = endorsed \ Quals!EndorsementsByTarget(v, d)
    BY DEF Quals!WithdrawQualification, QualInv, RecordsOK, Quals!Pairs
  <1>2. quals' \in [Quals!Pairs -> Quals!Record \cup {Void}] /\ RecordsOK(quals', height', reviewNeutral')
    BY <1>1, OneWritten
  <1>3. EndorsementsOK'
    <2>1. IsFiniteSet(endorsed')
      BY <1>1, FS_Subset DEF QualInv, EndorsementsOK
    <2>. QED
      BY <1>1, <2>1 DEF QualInv, EndorsementsOK
  <1>4. CoinsOK'
    BY <1>1 DEF Quals!WithdrawQualification, QualInv, CoinsOK, RecordOK, Quals!Record
  <1>. QED
    BY <1>1, <1>2, <1>3, <1>4 DEF QualInv

\* The stakes of pairs held are a number of coins.
LEMMA StakeNat ==
    ASSUME Quals!QualificationAssumption, QualInv, NEW P \in SUBSET Quals!Held
    PROVE  Quals!StakeOf(P) \in Nat
  <1>1. IsFiniteSet(Quals!Pairs)
    BY QualParams, FS_Product DEF Quals!Pairs
  <1>2. IsFiniteSet(P)
    BY <1>1, FS_Subset DEF Quals!Held
  <1>3. [p \in P |-> quals[p].stake] \in [P -> Nat]
    BY DEF QualInv, RecordsOK, RecordOK, Quals!Record, Quals!Held
  <1>. QED
    BY <1>2, <1>3, TotalNat, QualCounts DEF Quals!StakeOf

\* What the pass does to one record: what Passed says, and some endorsements fewer.
LEMMA BlockPasses ==
    ASSUME Quals!QualificationAssumption, QualInv, Quals!NextBlock, NEW p \in Quals!Pairs
    PROVE  LET stale == {e \in endorsed : height + 1 >= e.expires /\ e.of = p}
           IN  /\ quals[p] = Void => quals'[p] = Void
               /\ quals[p] # Void =>
                     /\ quals'[p] \in Quals!Record
                     /\ quals'[p] = [Quals!Passed(quals[p], height + 1) EXCEPT !.endorsements = quals'[p].endorsements]
                     /\ IsFiniteSet(stale) /\ Cardinality(stale) \in Nat
                     /\ quals'[p].endorsements = Quals!Max({0, quals[p].endorsements - Cardinality(stale)})
  <1>. DEFINE stale == {e \in endorsed : height + 1 >= e.expires /\ e.of = p}
              old == {e \in endorsed : height + 1 >= e.expires}
              r == Quals!Passed(quals[p], height + 1)
              n == Quals!Max({0, r.endorsements - Cardinality(stale)})
  <1>1. {e \in old : e.of = p} = stale
    OBVIOUS
  <1>2. quals'[p] = IF quals[p] = Void THEN Void
                    ELSE [r EXCEPT !.endorsements = Quals!Max({0, @ - Cardinality({e \in old : e.of = p})})]
    BY QualCounts DEF Quals!NextBlock
  <1>3. CASE quals[p] = Void
    BY <1>2, <1>3
  <1>4. CASE quals[p] # Void
    <2>1. RecordOK(quals[p], height, reviewNeutral) /\ height \in Nat /\ reviewNeutral \in BOOLEAN
      BY <1>4 DEF QualInv, RecordsOK
    <2>2. r \in Quals!Record /\ r.endorsements = quals[p].endorsements
      BY <2>1, PassedFacts DEF RecordOK
    <2>3. IsFiniteSet(stale) /\ Cardinality(stale) \in Nat
      BY FS_Subset, FS_CardinalityType DEF QualInv, EndorsementsOK
    <2>. HIDE DEF r, stale
    <2>4. r.endorsements \in 0 .. MaxEndorsements /\ MaxEndorsements \in Nat
      BY <2>2, QualParams DEF Quals!Record
    <2>5. n \in 0 .. MaxEndorsements
      <3>1. n \in {0, r.endorsements - Cardinality(stale)} /\ n >= 0
        <4>. DEFINE b == r.endorsements - Cardinality(stale)
        <4>1. b \in Int
          BY <2>3, <2>4
        <4>. HIDE DEF b
        <4>2. Quals!Max({0, b}) \in {0, b} /\ Quals!Max({0, b}) >= 0
          BY <4>1, SmallerGreater
        <4>. QED
          BY <4>2 DEF b
      <3>. HIDE DEF n
      <3>. QED
        BY <2>3, <2>4, <3>1
    <2>6. quals'[p] = [r EXCEPT !.endorsements = n]
      BY <1>1, <1>2, <1>4
    <2>. HIDE DEF n
    <2>7. quals'[p] \in Quals!Record /\ quals'[p].endorsements = n
      BY <2>2, <2>5, <2>6 DEF Quals!Record
    <2>. QED
      BY <1>4, <2>2, <2>3, <2>6, <2>7 DEF r, n, stale
  <1>. QED
    BY <1>3, <1>4

LEMMA BlockKeeps ==
    ASSUME Quals!QualificationAssumption, QualInv, Quals!NextBlock
    PROVE  QualInv'
  <1>1. /\ height \in Nat /\ height < MaxHeight /\ height' = height + 1 /\ reviewNeutral' = reviewNeutral /\ reviewNeutral \in BOOLEAN
        /\ MaxHeight \in Nat /\ nextId' = nextId
    BY QualParams DEF QualInv, Quals!NextBlock
  <1>2. quals' \in [Quals!Pairs -> Quals!Record \cup {Void}]
    <2>1. quals' = [p \in Quals!Pairs |-> quals'[p]]
      BY DEF Quals!NextBlock
    <2>2. \A p \in Quals!Pairs : quals'[p] \in Quals!Record \cup {Void}
      BY BlockPasses
    <2>. QED
      BY <2>1, <2>2
  <1>3. RecordsOK(quals', height', reviewNeutral')
    <2>1. SUFFICES ASSUME NEW p \in Quals!Pairs, quals'[p] # Void
                   PROVE  RecordOK(quals'[p], height + 1, reviewNeutral)
      BY <1>1 DEF RecordsOK
    <2>2. /\ quals[p] # Void /\ quals'[p] \in Quals!Record
          /\ quals'[p] = [Quals!Passed(quals[p], height + 1) EXCEPT !.endorsements = quals'[p].endorsements]
      BY <2>1, BlockPasses
    <2>3. RecordOK(Quals!Passed(quals[p], height + 1), height + 1, reviewNeutral)
      BY <1>1, <2>2, PassedFacts DEF QualInv, RecordsOK
    <2>. DEFINE r == Quals!Passed(quals[p], height + 1)
                s == quals'[p]
    <2>. HIDE DEF r, s
    <2>4. s \in Quals!Record /\ s = [r EXCEPT !.endorsements = s.endorsements] /\ RecordOK(r, height + 1, reviewNeutral)
      BY <2>2, <2>3 DEF r, s
    <2>5. /\ s.weight = r.weight /\ s.expires = r.expires /\ s.status = r.status /\ s.probation = r.probation
          /\ s.pathway = r.pathway /\ s.stake = r.stake
      BY <2>4 DEF RecordOK, Quals!Record
    <2>. QED
      BY <2>4, <2>5 DEF RecordOK, Quals!Standing, s
  <1>4. EndorsementsOK'
    <2>1. endorsed' \subseteq endorsed
      BY DEF Quals!NextBlock
    <2>2. IsFiniteSet(endorsed')
      BY <2>1, FS_Subset DEF QualInv, EndorsementsOK
    <2>. QED
      BY <1>1, <2>1, <2>2 DEF QualInv, EndorsementsOK
  <1>5. CoinsOK'
    <2>1. PICK paid \in SUBSET Quals!Held :
             /\ Quals!StakeOf(paid) <= pot /\ pot' = pot - Quals!StakeOf(paid)
             /\ purse' = [v \in Validators |-> purse[v] + Quals!StakeOf({p \in paid : p[1] = v})]
      BY DEF Quals!NextBlock
    <2>2. Quals!StakeOf(paid) \in Nat /\ \A v : Quals!StakeOf({p \in paid : p[1] = v}) \in Nat
      BY StakeNat
    <2>. QED
      <3>. DEFINE back(v) == Quals!StakeOf({p \in paid : p[1] = v})
      <3>1. \A v : back(v) \in Nat
        BY <2>2
      <3>2. purse' = [v \in Validators |-> purse[v] + back(v)]
        BY <2>1
      <3>. HIDE DEF back
      <3>3. purse' \in [Validators -> Nat]
        BY <3>1, <3>2 DEF QualInv, CoinsOK
      <3>. QED
        BY <2>1, <2>2, <3>3 DEF QualInv, CoinsOK
  <1>. QED
    BY <1>1, <1>2, <1>3, <1>4, <1>5 DEF QualInv

\* Neutrality only takes an obligation away.
LEMMA NeutralKeeps ==
    ASSUME QualInv, Quals!EnableNeutrality
    PROVE  QualInv'
  BY DEF QualInv, Quals!EnableNeutrality, RecordsOK, RecordOK, EndorsementsOK, CoinsOK

LEMMA QualStarts ==
    ASSUME Quals!QualificationAssumption, Quals!Init
    PROVE  QualInv
  <1>1. Purse \in Nat /\ MaxHeight \in Nat \ {0}
    BY QualParams
  <1>2. EndorsementsOK
    BY FS_EmptySet DEF Quals!Init, EndorsementsOK
  <1>. QED
    <2>1. quals \in [Quals!Pairs -> Quals!Record \cup {Void}] /\ RecordsOK(quals, height, reviewNeutral)
      BY DEF Quals!Init, RecordsOK
    <2>2. CoinsOK
      BY <1>1 DEF Quals!Init, CoinsOK
    <2>3. reviewNeutral \in BOOLEAN
      BY DEF Quals!Init
    <2>4. height \in 1 .. MaxHeight
      BY <1>1 DEF Quals!Init
    <2>. QED
      BY <1>2, <2>1, <2>2, <2>3, <2>4 DEF QualInv

LEMMA NextKeepsQual ==
    ASSUME Quals!QualificationAssumption, QualInv, [Quals!Next]_(Quals!vars)
    PROVE  QualInv'
  <1>1. CASE UNCHANGED Quals!vars
    BY <1>1 DEF Quals!vars, QualInv, RecordsOK, EndorsementsOK, CoinsOK
  <1>2. ASSUME NEW v \in Validators, NEW d \in Domains, NEW stake \in Stakes, Quals!QualifyByStake(v, d, stake)
        PROVE  QualInv'
    BY <1>2, StakeKeeps
  <1>3. ASSUME NEW v \in Validators, NEW d \in Domains, NEW from \in Domains,
               Quals!QualifyByCrossReference(v, d, from) \/ Quals!QualifyByInheritance(v, d, from)
        PROVE  QualInv'
    BY <1>3, DeriveKeeps, QualParams DEF Quals!QualifyByCrossReference, Quals!QualifyByInheritance
  <1>4. ASSUME NEW v \in Validators, NEW d \in Domains, NEW e \in Validators, Quals!EndorseQualification(e, v, d)
        PROVE  QualInv'
    BY <1>4, EndorseKeeps
  <1>5. ASSUME NEW v \in Validators, NEW d \in Domains, Quals!RenewQualification(v, d) \/ Quals!WithdrawQualification(v, d)
        PROVE  QualInv'
    BY <1>5, RenewKeeps, WithdrawKeeps
  <1>6. ASSUME NEW v \in Validators, NEW d \in Domains, NEW correct \in BOOLEAN,
               Quals!RecordVerificationOutcome(v, d, correct)
        PROVE  QualInv'
    BY <1>6, VerdictKeeps
  <1>. QED
    BY <1>1, <1>2, <1>3, <1>4, <1>5, <1>6, NeutralKeeps, BlockKeeps DEF Quals!Next

-----------------------------------------------------------------------------
(* Endorsement counts and suspensions *)

EndorsedFor(p) == {e \in endorsed : e.of = p}

LEMMA CountExact ==
    Quals!EndorsementCountExact <=> \A p \in Quals!Pairs : Cardinality(EndorsedFor(p)) = IF quals[p] = Void THEN 0 ELSE quals[p].endorsements
  BY QualCounts DEF Quals!EndorsementCountExact, EndorsedFor

LEMMA CountExactNext ==
    Quals!EndorsementCountExact' <=> \A p \in Quals!Pairs : Cardinality(EndorsedFor(p)') = IF quals'[p] = Void THEN 0 ELSE quals'[p].endorsements
  BY QualCounts DEF Quals!EndorsementCountExact, EndorsedFor

LEMMA EndorsedFinite ==
    ASSUME QualInv, NEW p
    PROVE  IsFiniteSet(EndorsedFor(p)) /\ Cardinality(EndorsedFor(p)) \in Nat
  BY FS_Subset, FS_CardinalityType DEF QualInv, EndorsementsOK, EndorsedFor

\* A record that changes keeps its count, a granted one has none to count.
LEMMA CountStays ==
    ASSUME QualInv, Quals!EndorsementCountExact, NEW p \in Quals!Pairs, NEW x, quals' = [quals EXCEPT ![p] = x], x # Void,
           IF quals[p] = Void THEN x.endorsements = 0 ELSE x.endorsements = quals[p].endorsements,
           endorsed' = endorsed
    PROVE  Quals!EndorsementCountExact'
  <1>1. \A r \in Quals!Pairs : EndorsedFor(r)' = EndorsedFor(r)
    BY DEF EndorsedFor
  <1>2. \A r \in Quals!Pairs : quals'[r] = IF r = p THEN x ELSE quals[r]
    BY DEF QualInv
  <1>. QED
    BY <1>1, <1>2, CountExact, CountExactNext

LEMMA EndorseCounts ==
    ASSUME Quals!QualificationAssumption, QualInv, Quals!EndorsementCountExact,
           NEW e \in Validators, NEW v \in Validators, NEW d \in Domains, Quals!EndorseQualification(e, v, d)
    PROVE  Quals!EndorsementCountExact'
  <1>. DEFINE p == <<v, d>>
              new == [id |-> nextId, of |-> p, by |-> e, expires |-> height + QualificationPeriod]
  <1>1. p \in Quals!Pairs /\ quals[p] # Void /\ endorsed' = endorsed \cup {new}
    BY DEF Quals!EndorseQualification, Quals!Pairs
  <1>2. quals'[p] # Void /\ quals'[p].endorsements = quals[p].endorsements + 1
    BY EndorseKeeps, QualParams
  <1>3. \A r \in Quals!Pairs : r # p => quals'[r] = quals[r]
    BY <1>1 DEF Quals!EndorseQualification, QualInv
  <1>4. new \notin endorsed
    BY DEF QualInv, EndorsementsOK, EndorsementOK
  <1>5. \A r \in Quals!Pairs : EndorsedFor(r)' = IF r = p THEN EndorsedFor(r) \cup {new} ELSE EndorsedFor(r)
    BY <1>1 DEF EndorsedFor
  <1>. HIDE DEF new, p
  <1>6. Cardinality(EndorsedFor(p)') = Cardinality(EndorsedFor(p)) + 1
    <2>1. new \notin EndorsedFor(p)
      BY <1>4 DEF EndorsedFor
    <2>. QED
      BY <1>1, <1>5, <2>1, EndorsedFinite, FS_AddElement
  <1>7. \A r \in Quals!Pairs : Cardinality(EndorsedFor(r)') = IF quals'[r] = Void THEN 0 ELSE quals'[r].endorsements
    BY <1>1, <1>2, <1>3, <1>5, <1>6, CountExact
  <1>. QED
    BY <1>7, CountExactNext

\* Without nested names a withdrawal takes the endorsements of its own record.
LEMMA WithdrawCounts ==
    ASSUME Nested = {}, QualInv, Quals!EndorsementCountExact, NEW v \in Validators, NEW d \in Domains,
           Quals!WithdrawQualification(v, d)
    PROVE  Quals!EndorsementCountExact'
  <1>. DEFINE p == <<v, d>>
  <1>1. /\ p \in Quals!Pairs /\ quals' = [quals EXCEPT ![p] = Void] /\ endorsed' = endorsed \ Quals!EndorsementsByTarget(v, d)
    BY DEF Quals!WithdrawQualification, Quals!Pairs
  <1>2. Quals!EndorsementsByTarget(v, d) = EndorsedFor(p)
    <2>1. \A e \in endorsed : e.of[1] = v /\ e.of[2] = d <=> e.of = p
      BY DEF QualInv, EndorsementsOK, EndorsementOK, Quals!Pairs
    <2>. QED
      BY <2>1 DEF Quals!EndorsementsByTarget, EndorsedFor
  <1>3. \A r \in Quals!Pairs : EndorsedFor(r)' = IF r = p THEN {} ELSE EndorsedFor(r)
    BY <1>1, <1>2 DEF EndorsedFor
  <1>4. \A r \in Quals!Pairs : quals'[r] = IF r = p THEN Void ELSE quals[r]
    BY <1>1 DEF QualInv
  <1>5. \A r \in Quals!Pairs : Cardinality(EndorsedFor(r)') = IF quals'[r] = Void THEN 0 ELSE quals'[r].endorsements
    BY <1>3, <1>4, CountExact, FS_EmptySet
  <1>. QED
    BY <1>5, CountExactNext

LEMMA BlockCounts ==
    ASSUME Quals!QualificationAssumption, QualInv, Quals!EndorsementCountExact, Quals!NextBlock
    PROVE  Quals!EndorsementCountExact'
  <1>1. SUFFICES ASSUME NEW p \in Quals!Pairs
                 PROVE  Cardinality(EndorsedFor(p)') = IF quals'[p] = Void THEN 0 ELSE quals'[p].endorsements
    BY CountExactNext
  <1>. DEFINE stale == {e \in endorsed : height + 1 >= e.expires /\ e.of = p}
              m == Cardinality(stale)
              n == Cardinality(EndorsedFor(p))
  <1>2. EndorsedFor(p)' = EndorsedFor(p) \ stale /\ stale \in SUBSET EndorsedFor(p)
    BY DEF Quals!NextBlock, EndorsedFor
  <1>3. /\ IsFiniteSet(EndorsedFor(p)) /\ n \in Nat /\ n = IF quals[p] = Void THEN 0 ELSE quals[p].endorsements
    BY EndorsedFinite, CountExact
  <1>4. m \in Nat /\ m <= n
    BY <1>2, <1>3, FS_Subset, FS_CardinalityType
  <1>5. Cardinality(EndorsedFor(p)') = n - m
    <2>1. EndorsedFor(p) \cap stale = stale
      BY <1>2
    <2>2. Cardinality(EndorsedFor(p) \ stale) = n - Cardinality(EndorsedFor(p) \cap stale)
      BY <1>3, FS_Difference
    <2>. QED
      BY <1>2, <2>1, <2>2
  <1>6. CASE quals[p] = Void
    <2>1. quals'[p] = Void
      BY <1>6, BlockPasses
    <2>. HIDE DEF n, m
    <2>. QED
      BY <1>3, <1>4, <1>5, <1>6, <2>1
  <1>7. CASE quals[p] # Void
    <2>1. quals'[p] \in Quals!Record /\ quals'[p].endorsements = Quals!Max({0, quals[p].endorsements - m})
      BY <1>7, BlockPasses
    <2>2. quals'[p] # Void
      BY <2>1, QualParams
    <2>. HIDE DEF n, m
    <2>3. Quals!Max({0, n - m}) = n - m
      <3>1. Quals!Max({0, n - m}) \in {0, n - m} /\ Quals!Max({0, n - m}) >= n - m /\ Quals!Max({0, n - m}) >= 0
        <4>. DEFINE b == n - m
        <4>1. b \in Int
          BY <1>3, <1>4
        <4>. HIDE DEF b
        <4>2. Quals!Max({0, b}) \in {0, b}
          BY <4>1, SmallerGreater
        <4>3. Quals!Max({0, b}) >= 0
          BY <4>1, SmallerGreater
        <4>4. Quals!Max({0, b}) >= b
          BY <4>1, SmallerGreater
        <4>. QED
          BY <4>2, <4>3, <4>4 DEF b
      <3>. QED
        BY <1>3, <1>4, <3>1
    <2>. QED
      BY <1>3, <1>5, <1>7, <2>1, <2>2, <2>3
  <1>. QED
    BY <1>6, <1>7

LEMMA GrantCounts ==
    ASSUME Quals!QualificationAssumption, QualInv, Quals!EndorsementCountExact, NEW p \in Quals!Pairs, quals[p] = Void,
           NEW pathway \in {"stake", "cross_reference", "inheritance"}, NEW weight \in 1 .. StakeWeight,
           NEW stake \in Nat, pathway = "stake" \/ stake = 0,
           quals' = [quals EXCEPT ![p] = Quals!Grant(pathway, weight, stake)], endorsed' = endorsed
    PROVE  Quals!EndorsementCountExact'
  <1>1. Quals!Grant(pathway, weight, stake) # Void
    BY GrantOK, QualParams DEF RecordOK
  <1>2. Quals!Grant(pathway, weight, stake).endorsements = 0
    BY DEF Quals!Grant
  <1>. QED
    BY <1>1, <1>2, CountStays

LEMMA NextCounts ==
    ASSUME Quals!QualificationAssumption, Nested = {}, QualInv, Quals!EndorsementCountExact, [Quals!Next]_(Quals!vars)
    PROVE  Quals!EndorsementCountExact'
  <1>1. CASE UNCHANGED Quals!vars \/ Quals!EnableNeutrality
    BY <1>1 DEF Quals!vars, Quals!EnableNeutrality, Quals!EndorsementCountExact
  <1>2. ASSUME NEW v \in Validators, NEW d \in Domains, NEW stake \in Stakes, Quals!QualifyByStake(v, d, stake)
        PROVE  Quals!EndorsementCountExact'
    <2>1. stake \in Nat /\ StakeWeight \in 1 .. StakeWeight /\ <<v, d>> \in Quals!Pairs
      BY QualParams DEF Quals!Pairs
    <2>2. /\ quals[<<v, d>>] = Void /\ endorsed' = endorsed
          /\ quals' = [quals EXCEPT ![<<v, d>>] = Quals!Grant("stake", StakeWeight, stake)]
      BY <1>2 DEF Quals!QualifyByStake
    <2>. QED
      BY <2>1, <2>2, GrantCounts
  <1>3. ASSUME NEW v \in Validators, NEW d \in Domains, NEW from \in Domains,
               Quals!QualifyByCrossReference(v, d, from) \/ Quals!QualifyByInheritance(v, d, from)
        PROVE  Quals!EndorsementCountExact'
    <2>1. PICK pathway \in {"cross_reference", "inheritance"}, disc \in Nat : Quals!Derive(v, d, from, pathway, disc)
      BY <1>3, QualParams DEF Quals!QualifyByCrossReference, Quals!QualifyByInheritance
    <2>2. Quals!Distance(d, from) \in Nat
      BY QualParams DEF Quals!Distance
    <2>3. <<v, d>> \in Quals!Pairs /\ <<v, from>> \in Quals!Pairs
      BY DEF Quals!Pairs
    <2>4. quals[<<v, from>>].weight \in 1 .. StakeWeight
      BY <2>1, <2>3 DEF Quals!Derive, QualInv, RecordsOK, RecordOK
    <2>5. Quals!Discounted(quals[<<v, from>>].weight, disc, Quals!Distance(d, from)) \in 1 .. StakeWeight
      BY <2>2, <2>4, DiscountedLess
    <2>. QED
      BY <2>1, <2>3, <2>5, GrantCounts DEF Quals!Derive
  <1>4. ASSUME NEW v \in Validators, NEW d \in Domains, NEW e \in Validators, Quals!EndorseQualification(e, v, d)
        PROVE  Quals!EndorsementCountExact'
    BY <1>4, EndorseCounts
  <1>5. ASSUME NEW v \in Validators, NEW d \in Domains, NEW correct \in BOOLEAN,
               Quals!RenewQualification(v, d) \/ Quals!RecordVerificationOutcome(v, d, correct)
        PROVE  Quals!EndorsementCountExact'
    <2>. DEFINE p == <<v, d>>
    <2>1. p \in Quals!Pairs /\ quals[p] # Void /\ endorsed' = endorsed
      BY <1>5 DEF Quals!RenewQualification, Quals!RecordVerificationOutcome, Quals!Pairs
    <2>2. quals'[p] \in Quals!Record /\ quals'[p].endorsements = quals[p].endorsements
      BY <1>5, RenewKeeps, VerdictKeeps
    <2>3. quals'[p] # Void
      BY <2>2, QualParams
    <2>4. quals' = [quals EXCEPT ![p] = quals'[p]]
      BY <1>5, <2>1 DEF Quals!RenewQualification, Quals!RecordVerificationOutcome, QualInv
    <2>. QED
      BY <2>1, <2>2, <2>3, <2>4, CountStays
  <1>6. ASSUME NEW v \in Validators, NEW d \in Domains, Quals!WithdrawQualification(v, d)
        PROVE  Quals!EndorsementCountExact'
    BY <1>6, WithdrawCounts
  <1>. QED
    BY <1>1, <1>2, <1>3, <1>4, <1>5, <1>6, BlockCounts DEF Quals!Next

\* Only its holder, who withdraws, ends a suspension.
LEMMA SuspensionKept ==
    ASSUME Quals!QualificationAssumption, QualInv, [Quals!Next]_(Quals!vars)
    PROVE  [Quals!SuspensionHolds]_(Quals!vars)
  <1>1. SUFFICES ASSUME NEW p \in Quals!Held, quals[p].status = "suspended", Quals!Next
                 PROVE  quals'[p] = Void \/ quals'[p].status = "suspended"
    BY DEF Quals!SuspensionHolds
  <1>2. p \in Quals!Pairs /\ quals[p] # Void /\ RecordOK(quals[p], height, reviewNeutral) /\ quals[p] \in Quals!Record
    BY DEF Quals!Held, QualInv, RecordsOK, RecordOK
  <1>3. CASE Quals!NextBlock
    <2>1. Quals!Passed(quals[p], height + 1).status = "suspended" /\ RecordOK(Quals!Passed(quals[p], height + 1), height + 1, reviewNeutral)
      BY <1>1, <1>2, PassedFacts DEF QualInv
    <2>. DEFINE r == Quals!Passed(quals[p], height + 1)
                s == quals'[p]
    <2>2. s = [r EXCEPT !.endorsements = s.endorsements]
      BY <1>2, <1>3, BlockPasses
    <2>. HIDE DEF r
    <2>3. s.status = r.status
      BY <2>1, <2>2 DEF RecordOK, Quals!Record, r
    <2>. QED
      BY <2>1, <2>3 DEF r
  <1>4. CASE Quals!EnableNeutrality
    BY <1>1, <1>4 DEF Quals!EnableNeutrality
  <1>5. ASSUME NEW v \in Validators, NEW d \in Domains,
               \/ \E stake \in Stakes : Quals!QualifyByStake(v, d, stake)
               \/ \E from \in Domains : Quals!QualifyByCrossReference(v, d, from) \/ Quals!QualifyByInheritance(v, d, from)
               \/ \E e \in Validators : Quals!EndorseQualification(e, v, d)
               \/ Quals!RenewQualification(v, d) \/ Quals!WithdrawQualification(v, d)
               \/ \E correct \in BOOLEAN : Quals!RecordVerificationOutcome(v, d, correct)
        PROVE  quals'[p] = Void \/ quals'[p].status = "suspended"
    <2>1. \E x : quals' = [quals EXCEPT ![<<v, d>>] = x]
      BY <1>5 DEF Quals!QualifyByStake, Quals!QualifyByCrossReference, Quals!QualifyByInheritance, Quals!Derive, Quals!EndorseQualification,
                  Quals!RenewQualification, Quals!WithdrawQualification, Quals!RecordVerificationOutcome
    <2>2. CASE p # <<v, d>>
      BY <1>1, <1>2, <2>1, <2>2 DEF QualInv
    <2>3. CASE p = <<v, d>>
      <3>1. \/ Quals!WithdrawQualification(v, d)
            \/ \E correct \in BOOLEAN : Quals!RecordVerificationOutcome(v, d, correct)
        BY <1>1, <1>2, <1>5, <2>3 DEF Quals!QualifyByStake, Quals!QualifyByCrossReference, Quals!QualifyByInheritance, Quals!Derive,
                                      Quals!EndorseQualification, Quals!RenewQualification, Quals!Standing
      <3>2. CASE Quals!WithdrawQualification(v, d)
        BY <1>2, <2>3, <3>2 DEF Quals!WithdrawQualification, QualInv
      <3>3. ASSUME NEW correct \in BOOLEAN, Quals!RecordVerificationOutcome(v, d, correct)
            PROVE  quals'[p].status = "suspended"
        BY <1>1, <1>2, <2>3, <3>3 DEF Quals!RecordVerificationOutcome, QualInv, Quals!Record
      <3>. QED
        BY <3>1, <3>2, <3>3
    <2>. QED
      BY <2>2, <2>3
  <1>. QED
    BY <1>1, <1>3, <1>4, <1>5 DEF Quals!Next

-----------------------------------------------------------------------------
(* The theorems *)

\* x/qualification: a record that gives standing has not expired, probation ends
\* within its period, no derivation makes a record weigh more than the stake
\* pathway grants, and a suspension lasts until its holder withdraws.
THEOREM StandingStaysEarned ==
    ASSUME Quals!QualificationAssumption
    PROVE  Quals!Spec => /\ [](Quals!TypeOK /\ Quals!StandingIsCurrent /\ Quals!ProbationBounded /\ Quals!NoWeightGained)
                         /\ [][Quals!SuspensionHolds]_(Quals!vars)
  <1>1. Quals!Init => QualInv
    BY QualStarts
  <1>2. QualInv /\ [Quals!Next]_(Quals!vars) => QualInv'
    BY NextKeepsQual
  <1>3. QualInv /\ [Quals!Next]_(Quals!vars) => [Quals!SuspensionHolds]_(Quals!vars)
    BY SuspensionKept
  <1>4. QualInv => Quals!TypeOK /\ Quals!StandingIsCurrent /\ Quals!ProbationBounded /\ Quals!NoWeightGained
    BY DEF QualInv, Quals!TypeOK, Quals!StandingIsCurrent, Quals!ProbationBounded, Quals!NoWeightGained, RecordsOK, RecordOK, EndorsementsOK,
           EndorsementOK, CoinsOK, Quals!Held
  <1>. QED
    BY <1>1, <1>2, <1>3, <1>4, PTL DEF Quals!Spec

\* The endorsement count of a record is the number of its endorsements, as long
\* as no domain's name continues another's with a slash: the prefix scan of a
\* withdrawal takes those of such a domain, whose record still counts them.
THEOREM EndorsementsCounted ==
    ASSUME Quals!QualificationAssumption, Nested = {}
    PROVE  Quals!Spec => []Quals!EndorsementCountExact
  <1>1. Quals!Init => QualInv /\ Quals!EndorsementCountExact
    <2>1. Quals!Init => Quals!EndorsementCountExact
      BY FS_EmptySet, QualCounts DEF Quals!Init, Quals!EndorsementCountExact
    <2>. QED
      BY <2>1, QualStarts
  <1>2. QualInv /\ Quals!EndorsementCountExact /\ [Quals!Next]_(Quals!vars) => QualInv' /\ Quals!EndorsementCountExact'
    BY NextKeepsQual, NextCounts
  <1>. QED
    BY <1>1, <1>2, PTL DEF Quals!Spec

-----------------------------------------------------------------------------
(* Capture challenges: the inductive invariant *)

CaptureAssumptions == Capture!PeriodsAssumption /\ Capture!ChallengesAssumption

\* What a rejection, and a stake overwritten in its own block, would break.
Untroubled == "rejected" \notin Outcomes /\ Pause > 0

Challenge == [accused : SUBSET Validators, stake : Nat, status : {"evidence", "under_review", "resolved", "expired"},
              evidences : Nat, evidence : Nat, review : Nat, outcome : {"none", "upheld", "rejected", "partial"},
              decided : Nat, back : Nat]
ChallengeOK(c, k, h) ==
    /\ c \in Challenge /\ c.back <= c.stake /\ c.decided <= h
    /\ k[1] \in Challengers \cup {Protocol} /\ k[2] \in Domains /\ k[3] \in 1 .. h
LogOK(cs, h) ==
    /\ cs = [k \in DOMAIN cs |-> cs[k]] /\ IsFiniteSet(DOMAIN cs)
    /\ \A k \in DOMAIN cs : ChallengeOK(cs[k], k, h)
MoneyOK == held \in Nat /\ dev \in Nat /\ pool \in [Domains -> Nat]
PenaltiesOK ==
    /\ penalty \in [Validators -> [Domains -> Nat]] /\ raised \in [Domains -> Nat]
    /\ \A d \in Domains : raised[d] <= height + PenaltyBlocks /\ \A v \in Validators : penalty[v][d] <= height + PenaltyBlocks
PausesOK ==
    /\ paused \in [Domains -> Nat]
    /\ Pause > 0 => \A k \in DOMAIN ch : k[1] # Protocol => k[3] + Pause <= paused[k[2]]
\* The stake of every challenge that is open.
Due(cs) == [k \in DOMAIN cs |-> IF Capture!Active(cs[k]) THEN cs[k].stake ELSE 0]
FundsOK == Untroubled => /\ held = Total(pool) + Total(Due(ch))
                         /\ Capture!RefundedOnExpiry

CaptureInv ==
    /\ height \in Nat \ {0} /\ LogOK(ch, height) /\ MoneyOK /\ PenaltiesOK /\ PausesOK
    /\ Capture!Spaced /\ Capture!ConsequenceLands /\ Capture!OneAutoChallenge /\ FundsOK

\* What the assumptions say of the parameters.
LEMMA CaptureParameters ==
    ASSUME CaptureAssumptions
    PROVE  /\ EvidencePeriod \in Nat /\ ReviewPeriod \in Nat \ {0} /\ PenaltyBlocks \in Nat /\ Pause \in Nat
           /\ Protocol \notin Challengers /\ Accusations \subseteq SUBSET Validators /\ IsFiniteSet(Domains)
           /\ Stakes \subseteq Nat /\ Gifts \subseteq Nat /\ BPSScale \in Nat \ {0} /\ RewardRate \in 0 .. BPSScale
  BY CaptureCounts DEF CaptureAssumptions, Capture!PeriodsAssumption, Capture!ChallengesAssumption

\* Stakes are amounts, so they have a sum.
LEMMA DueNat ==
    ASSUME NEW cs, NEW h, LogOK(cs, h)
    PROVE  /\ Due(cs) \in [DOMAIN cs -> Nat] /\ Total(Due(cs)) \in Nat
           /\ Capture!StakesOf(cs, {k \in DOMAIN cs : Capture!Active(cs[k])}) = Total(Due(cs))
  <1>1. \A k \in DOMAIN cs : cs[k].stake \in Nat
    BY DEF LogOK, ChallengeOK, Challenge
  <1>2. Due(cs) \in [DOMAIN cs -> Nat]
    BY <1>1 DEF Due
  <1>3. Total(Due(cs)) \in Nat
    BY <1>2, TotalNat DEF LogOK
  <1>4. [k \in DOMAIN cs |-> IF k \in {j \in DOMAIN cs : Capture!Active(cs[j])} THEN cs[k].stake ELSE 0] = Due(cs)
    BY DEF Due
  <1>. QED
    BY <1>2, <1>3, <1>4, CaptureCounts DEF Capture!StakesOf

-----------------------------------------------------------------------------
(* Capture challenges: one of them is revised *)

\* A challenge is revised, and penalties only grow.
LEMMA Revised ==
    ASSUME CaptureAssumptions, CaptureInv, NEW k \in DOMAIN ch, NEW c, ChallengeOK(c, k, height), Capture!Active(c) => Capture!Active(ch[k]),
           ch' = [ch EXCEPT ![k] = c], UNCHANGED <<paused, height>>,
           penalty' \in [Validators -> [Domains -> Nat]], raised' \in [Domains -> Nat],
           \A d \in Domains : raised'[d] >= raised[d] /\ \A v \in Validators : penalty'[v][d] >= penalty[v][d],
           c.outcome = "upheld" => /\ \A v \in c.accused : penalty'[v][k[2]] >= c.decided + PenaltyBlocks
                                   /\ raised'[k[2]] >= c.decided + PenaltyBlocks
    PROVE  /\ LogOK(ch', height') /\ PausesOK' /\ Capture!Spaced' /\ Capture!ConsequenceLands' /\ Capture!OneAutoChallenge'
           /\ Total(Due(ch')) = Total(Due(ch)) - Due(ch)[k] + Due(ch')[k]
           /\ Total(Due(ch)) \in Nat /\ Total(Due(ch')) \in Nat /\ Due(ch)[k] <= Total(Due(ch))
  <1>. USE CaptureParameters
  <1>. DEFINE D == DOMAIN ch
  <1>1. /\ DOMAIN ch' = D /\ ch' = [x \in D |-> ch'[x]] /\ ch'[k] = c /\ \A x \in D : x # k => ch'[x] = ch[x]
    BY DEF CaptureInv, LogOK
  <1>2. LogOK(ch', height')
    BY <1>1 DEF CaptureInv, LogOK
  <1>3. PausesOK'
    BY <1>1 DEF CaptureInv, PausesOK
  <1>4. Capture!Spaced'
    BY <1>1 DEF CaptureInv, Capture!Spaced
  <1>5. Capture!ConsequenceLands'
    <2>. SUFFICES ASSUME NEW x \in D, ch'[x].outcome = "upheld"
                  PROVE  /\ \A v \in ch'[x].accused : penalty'[v][x[2]] >= ch'[x].decided + PenaltyBlocks
                         /\ raised'[x[2]] >= ch'[x].decided + PenaltyBlocks
      BY <1>1 DEF Capture!ConsequenceLands
    <2>1. CASE x = k
      BY <1>1, <2>1
    <2>2. CASE x # k
      <3>1. /\ ch'[x] = ch[x] /\ x[2] \in Domains /\ ch[x].accused \subseteq Validators /\ ch[x].decided \in Nat
        BY <1>1, <2>2 DEF CaptureInv, LogOK, ChallengeOK, Challenge
      <3>2. /\ \A v \in ch[x].accused : penalty[v][x[2]] >= ch[x].decided + PenaltyBlocks
            /\ raised[x[2]] >= ch[x].decided + PenaltyBlocks
        BY <3>1 DEF CaptureInv, Capture!ConsequenceLands
      <3>3. raised[x[2]] \in Nat /\ raised'[x[2]] \in Nat /\ raised'[x[2]] >= raised[x[2]]
        BY <3>1 DEF CaptureInv, PenaltiesOK
      <3>4. ASSUME NEW v \in ch[x].accused
            PROVE  penalty'[v][x[2]] >= ch[x].decided + PenaltyBlocks
        <4>1. penalty[v][x[2]] \in Nat /\ penalty'[v][x[2]] \in Nat /\ penalty'[v][x[2]] >= penalty[v][x[2]]
          BY <3>1 DEF CaptureInv, PenaltiesOK
        <4>. QED
          BY <3>1, <3>2, <4>1
      <3>. QED
        BY <3>1, <3>2, <3>3, <3>4
    <2>. QED
      BY <2>1, <2>2
  <1>6. Capture!OneAutoChallenge'
    <2>1. \A d \in Domains : Capture!ActiveIn(ch', d) \subseteq Capture!ActiveIn(ch, d)
      BY <1>1 DEF Capture!ActiveIn
    <2>. QED
      BY <2>1 DEF CaptureInv, Capture!OneAutoChallenge
  <1>7. \A x \in D : x # k => Due(ch')[x] = Due(ch)[x]
    BY <1>1 DEF Due
  <1>8. /\ Due(ch) \in [D -> Nat] /\ Due(ch') \in [D -> Nat] /\ IsFiniteSet(D)
        /\ Total(Due(ch)) \in Nat /\ Total(Due(ch')) \in Nat
    <2>1. LogOK(ch, height) /\ IsFiniteSet(D)
      BY DEF CaptureInv, LogOK
    <2>2. Due(ch) \in [D -> Nat] /\ Total(Due(ch)) \in Nat
      BY <2>1, DueNat
    <2>3. Due(ch') \in [DOMAIN ch' -> Nat] /\ Total(Due(ch')) \in Nat
      BY <1>2, DueNat
    <2>. QED
      BY <1>1, <2>1, <2>2, <2>3
  <1>9. Total(Due(ch')) = Total(Due(ch)) - Due(ch)[k] + Due(ch')[k]
    <2>. DEFINE f == Due(ch)
                g == Due(ch')
    <2>1. f \in [D -> Nat] /\ g \in [D -> Nat] /\ IsFiniteSet(D) /\ k \in D /\ \A x \in D : x # k => g[x] = f[x]
      BY <1>7, <1>8
    <2>. HIDE DEF f, g, D
    <2>2. Total(g) = Total(f) - f[k] + g[k]
      BY <2>1, TotalUpdate
    <2>. QED
      BY <2>2 DEF f, g
  <1>10. Due(ch)[k] <= Total(Due(ch))
    BY <1>8, TotalAtLeast
  <1>. QED
    BY <1>2, <1>3, <1>4, <1>5, <1>6, <1>8, <1>9, <1>10

\* Evidence leaves the stake and the outcome as they are.
LEMMA AddEvidenceKeeps ==
    ASSUME CaptureAssumptions, CaptureInv, NEW k \in DOMAIN ch, Capture!AddEvidence(k)
    PROVE  CaptureInv'
  <1>. USE CaptureParameters
  <1>. DEFINE c == [ch[k] EXCEPT !.evidences = @ + 1]
  <1>1. ch[k] \in Challenge /\ ChallengeOK(ch[k], k, height)
    BY DEF CaptureInv, LogOK, ChallengeOK
  <1>2. /\ c \in Challenge /\ c.stake = ch[k].stake /\ c.status = ch[k].status /\ c.outcome = ch[k].outcome
        /\ c.accused = ch[k].accused /\ c.decided = ch[k].decided /\ c.back = ch[k].back
    BY <1>1 DEF Challenge
  <1>3. ch' = [ch EXCEPT ![k] = c] /\ UNCHANGED <<paused, pool, held, dev, penalty, raised, height>>
    BY DEF Capture!AddEvidence, Capture!funds, Capture!consequences
  <1>. HIDE DEF c
  <1>4. ChallengeOK(c, k, height) /\ (Capture!Active(c) <=> Capture!Active(ch[k]))
    BY <1>1, <1>2 DEF ChallengeOK, Capture!Active
  <1>5. /\ penalty' \in [Validators -> [Domains -> Nat]] /\ raised' \in [Domains -> Nat]
        /\ \A d \in Domains : raised'[d] >= raised[d] /\ \A v \in Validators : penalty'[v][d] >= penalty[v][d]
    BY <1>3 DEF CaptureInv, PenaltiesOK
  <1>6. c.outcome = "upheld" => /\ \A v \in c.accused : penalty'[v][k[2]] >= c.decided + PenaltyBlocks
                                /\ raised'[k[2]] >= c.decided + PenaltyBlocks
    BY <1>2, <1>3 DEF CaptureInv, Capture!ConsequenceLands
  <1>7. /\ LogOK(ch', height') /\ PausesOK' /\ Capture!Spaced' /\ Capture!ConsequenceLands' /\ Capture!OneAutoChallenge'
        /\ Total(Due(ch')) = Total(Due(ch)) - Due(ch)[k] + Due(ch')[k] /\ Total(Due(ch)) \in Nat
    BY <1>3, <1>4, <1>5, <1>6, Revised
  <1>8. DOMAIN ch' = DOMAIN ch /\ ch'[k] = c /\ \A x \in DOMAIN ch : x # k => ch'[x] = ch[x]
    BY <1>3
  <1>9. Due(ch')[k] = Due(ch)[k] /\ Due(ch)[k] \in Nat
    BY <1>1, <1>2, <1>4, <1>8 DEF Due, Challenge
  <1>10. FundsOK'
    <2>1. Total(Due(ch')) = Total(Due(ch))
      BY <1>7, <1>9
    <2>2. Capture!RefundedOnExpiry => Capture!RefundedOnExpiry'
      BY <1>2, <1>8 DEF Capture!RefundedOnExpiry
    <2>. QED
      BY <1>3, <2>1, <2>2 DEF CaptureInv, FundsOK
  <1>. QED
    BY <1>3, <1>7, <1>10 DEF CaptureInv, MoneyOK, PenaltiesOK

\* A reward leaves the pool and the account what they have.
LEMMA RewardFits ==
    ASSUME CaptureAssumptions, CaptureInv, NEW k, k[2] \in Domains, NEW part \in {1, 2}, NEW cash \in Int
    PROVE  /\ Capture!Reward(k, part, cash) \in Nat /\ Capture!Reward(k, part, cash) <= pool[k[2]]
           /\ Capture!Reward(k, part, cash) <= cash \/ Capture!Reward(k, part, cash) = 0
  <1>. USE CaptureParameters
  <1>. DEFINE whole == (pool[k[2]] * RewardRate) \div BPSScale
  <1>1. pool[k[2]] \in Nat
    BY DEF CaptureInv, MoneyOK
  <1>2. whole \in Nat /\ whole <= pool[k[2]]
    <2>. DEFINE p == pool[k[2]]
    <2>1. p \in Nat /\ BPSScale \in Nat \ {0} /\ RewardRate \in 0 .. BPSScale
      BY <1>1
    <2>. HIDE DEF p
    <2>2. (p * RewardRate) \div BPSScale \in 0 .. p
      BY <2>1, PartOfWhole
    <2>3. whole = (p * RewardRate) \div BPSScale
      BY DEF p
    <2>. HIDE DEF whole
    <2>. QED
      BY <2>1, <2>2, <2>3 DEF p
  <1>3. Capture!Reward(k, part, cash) = IF k[1] = Protocol \/ whole \div part > cash THEN 0 ELSE whole \div part
    BY DEF Capture!Reward
  <1>. HIDE DEF whole
  <1>4. whole \div part \in Nat /\ whole \div part <= whole
    <2>1. CASE part = 1
      BY <1>2, <2>1
    <2>2. CASE part = 2
      BY <1>2, <2>2
    <2>. QED
      BY <2>1, <2>2
  <1>. DEFINE due == whole \div part
  <1>. HIDE DEF due
  <1>. QED
    BY <1>1, <1>2, <1>3, <1>4 DEF due

\* What a decision writes is a challenge.
LEMMA DecidedChallenge ==
    ASSUME NEW x \in Challenge, NEW o \in {"upheld", "rejected", "partial"}, NEW h \in Nat, NEW b \in Nat
    PROVE  LET c == [x EXCEPT !.status = "resolved", !.outcome = o, !.decided = h, !.back = b]
           IN  /\ c \in Challenge /\ c.accused = x.accused /\ c.outcome = o /\ c.decided = h
               /\ c.back = b /\ c.stake = x.stake /\ c.status = "resolved"
  BY DEF Challenge

\* A decision on a challenge: its stake and a reward leave the account, or the
\* stake is lost to the pool.
LEMMA ResolveKeeps ==
    ASSUME CaptureAssumptions, CaptureInv, NEW k \in DOMAIN ch, NEW outcome \in Outcomes, Capture!ResolveChallenge(k, outcome)
    PROVE  CaptureInv'
  <1>. USE CaptureParameters
  <1>. DEFINE s == ch[k].stake
              c(o, b) == [ch[k] EXCEPT !.status = "resolved", !.outcome = o, !.decided = height, !.back = b]
  <1>1. /\ ch[k] \in Challenge /\ ChallengeOK(ch[k], k, height) /\ s \in Nat /\ k[2] \in Domains /\ height \in Nat
        /\ ch[k].accused \subseteq Validators /\ held \in Nat /\ dev \in Nat /\ pool \in [Domains -> Nat] /\ pool[k[2]] \in Nat
    BY DEF CaptureInv, LogOK, ChallengeOK, Challenge, MoneyOK
  <1>2. ch[k].status = "under_review" /\ UNCHANGED <<paused, height>>
    BY DEF Capture!ResolveChallenge
  <1>3. ASSUME NEW o \in {"upheld", "rejected", "partial"}, NEW b \in 0 .. s
        PROVE  /\ c(o, b) \in Challenge /\ c(o, b).accused = ch[k].accused /\ c(o, b).outcome = o /\ c(o, b).decided = height
               /\ c(o, b).back = b /\ c(o, b).stake = s /\ c(o, b).status = "resolved"
               /\ ChallengeOK(c(o, b), k, height) /\ ~Capture!Active(c(o, b))
    <2>1. /\ c(o, b) \in Challenge /\ c(o, b).accused = ch[k].accused /\ c(o, b).outcome = o /\ c(o, b).decided = height
          /\ c(o, b).back = b /\ c(o, b).stake = s /\ c(o, b).status = "resolved"
      <3>. DEFINE was == ch[k]
      <3>1. b \in Nat /\ height \in Nat /\ o \in {"upheld", "rejected", "partial"} /\ was \in Challenge
        BY <1>1, <1>3
      <3>2. c(o, b) = [was EXCEPT !.status = "resolved", !.outcome = o, !.decided = height, !.back = b] /\ s = was.stake
        OBVIOUS
      <3>. HIDE DEF was, c, s
      <3>3. /\ c(o, b) \in Challenge /\ c(o, b).accused = was.accused /\ c(o, b).outcome = o /\ c(o, b).decided = height
            /\ c(o, b).back = b /\ c(o, b).stake = was.stake /\ c(o, b).status = "resolved"
        BY <3>1, <3>2 DEF Challenge
      <3>. QED
        BY <3>2, <3>3 DEF was
    <2>2. ChallengeOK(c(o, b), k, height) /\ ~Capture!Active(c(o, b))
      <3>. HIDE DEF c
      <3>. QED
        BY <1>1, <1>3, <2>1 DEF ChallengeOK, Capture!Active
    <2>. QED
      BY <2>1, <2>2
  <1>4. ASSUME NEW o \in {"upheld", "rejected", "partial"}, NEW b \in 0 .. s, ch' = Capture!Decided(k, o, b),
               PenaltiesOK', \A d \in Domains : raised'[d] >= raised[d] /\ \A v \in Validators : penalty'[v][d] >= penalty[v][d],
               o = "upheld" => /\ \A v \in ch[k].accused : penalty'[v][k[2]] >= height + PenaltyBlocks
                               /\ raised'[k[2]] >= height + PenaltyBlocks,
               MoneyOK', Untroubled => held' + s + pool[k[2]] = held + pool'[k[2]],
               \A d \in Domains : d # k[2] => pool'[d] = pool[d]
        PROVE  CaptureInv'
    <2>1. ch' = [ch EXCEPT ![k] = c(o, b)]
      BY <1>4 DEF Capture!Decided
    <2>2. /\ c(o, b) \in Challenge /\ c(o, b).accused = ch[k].accused /\ c(o, b).outcome = o /\ c(o, b).decided = height
          /\ ChallengeOK(c(o, b), k, height) /\ ~Capture!Active(c(o, b)) /\ c(o, b).status = "resolved"
      <3>. HIDE DEF c, s
      <3>. QED
        BY <1>3, <1>4
    <2>. DEFINE e == c(o, b)
    <2>. HIDE DEF c
    <2>3. penalty' \in [Validators -> [Domains -> Nat]] /\ raised' \in [Domains -> Nat]
      BY <1>4 DEF PenaltiesOK
    <2>4. /\ LogOK(ch', height') /\ PausesOK' /\ Capture!Spaced' /\ Capture!ConsequenceLands' /\ Capture!OneAutoChallenge'
          /\ Total(Due(ch')) = Total(Due(ch)) - Due(ch)[k] + Due(ch')[k]
          /\ Total(Due(ch)) \in Nat /\ Total(Due(ch')) \in Nat
      <3>1. ChallengeOK(e, k, height) /\ (Capture!Active(e) => Capture!Active(ch[k])) /\ ch' = [ch EXCEPT ![k] = e]
        BY <2>1, <2>2
      <3>2. e.outcome = "upheld" => /\ \A v \in e.accused : penalty'[v][k[2]] >= e.decided + PenaltyBlocks
                                    /\ raised'[k[2]] >= e.decided + PenaltyBlocks
        BY <1>4, <2>2
      <3>. HIDE DEF e
      <3>. QED
        BY <1>2, <1>4, <2>3, <3>1, <3>2, Revised
    <2>5. DOMAIN ch' = DOMAIN ch /\ ch'[k] = c(o, b) /\ \A x \in DOMAIN ch : x # k => ch'[x] = ch[x]
      BY <2>1
    <2>6. Due(ch)[k] = s /\ Due(ch')[k] = 0
      BY <1>2, <2>2, <2>5 DEF Due, Capture!Active
    <2>7. FundsOK'
      <3>. SUFFICES ASSUME Untroubled
                    PROVE  held' = Total(pool') + Total(Due(ch')) /\ Capture!RefundedOnExpiry'
        BY DEF FundsOK
      <3>1. held = Total(pool) + Total(Due(ch)) /\ Capture!RefundedOnExpiry
        BY DEF CaptureInv, FundsOK
      <3>2. pool' \in [Domains -> Nat] /\ held' \in Nat
        BY <1>4 DEF MoneyOK
      <3>3. Total(pool') = Total(pool) - pool[k[2]] + pool'[k[2]] /\ Total(pool) \in Nat /\ Total(pool') \in Nat
        BY <1>1, <1>4, <3>2, TotalUpdate
      <3>4. Total(Due(ch')) = Total(Due(ch)) - s
        BY <1>1, <2>4, <2>6
      <3>5. held' + s + pool[k[2]] = held + pool'[k[2]] /\ pool'[k[2]] \in Nat
        BY <1>1, <1>4, <3>2
      <3>6. held' = Total(pool') + Total(Due(ch'))
        <4>. HIDE DEF s
        <4>. QED
          BY <1>1, <2>4, <3>1, <3>2, <3>3, <3>4, <3>5
      <3>7. Capture!RefundedOnExpiry'
        BY <2>2, <2>5, <3>1 DEF Capture!RefundedOnExpiry
      <3>. QED
        BY <3>6, <3>7
    <2>8. height' \in Nat \ {0}
      BY <1>2 DEF CaptureInv
    <2>. QED
      BY <1>4, <2>4, <2>7, <2>8 DEF CaptureInv
  <1>5. PenaltiesOK /\ (UNCHANGED Capture!consequences => /\ PenaltiesOK'
                        /\ \A d \in Domains : raised'[d] >= raised[d] /\ \A v \in Validators : penalty'[v][d] >= penalty[v][d])
    BY <1>2 DEF CaptureInv, PenaltiesOK, Capture!consequences
  <1>6. CASE Capture!Uphold(k)
    <2>. DEFINE r == Capture!Reward(k, 1, held)
    <2>1. /\ held - r >= s /\ held' = held - r - s /\ pool' = [pool EXCEPT ![k[2]] = pool[k[2]] - r] /\ ch' = Capture!Decided(k, "upheld", s)
          /\ penalty' = Capture!Penalised(penalty, ch[k].accused, k[2], height) /\ raised' = [raised EXCEPT ![k[2]] = height + PenaltyBlocks]
          /\ dev' = dev
      BY <1>1, <1>6 DEF Capture!Uphold
    <2>2. r \in Nat /\ r <= pool[k[2]]
      BY <1>1, RewardFits
    <2>. HIDE DEF r
    <2>3. MoneyOK' /\ held' + s + pool[k[2]] = held + pool'[k[2]] /\ \A d \in Domains : d # k[2] => pool'[d] = pool[d]
      <3>. DEFINE m == pool[k[2]] - r
      <3>1. m \in Nat /\ pool' = [pool EXCEPT ![k[2]] = m]
        BY <1>1, <2>1, <2>2
      <3>2. held - r - s \in Nat /\ held - r - s + s + pool[k[2]] = held + m
        BY <1>1, <2>1, <2>2
      <3>. HIDE DEF m, s
      <3>. QED
        BY <1>1, <2>1, <3>1, <3>2 DEF MoneyOK
    <2>4. /\ \A v \in Validators, d \in Domains :
               penalty'[v][d] = IF v \in ch[k].accused /\ d = k[2] THEN height + PenaltyBlocks ELSE penalty[v][d]
          /\ penalty' \in [Validators -> [Domains -> Nat]]
      <3>1. \A v \in Validators, d \in Domains : penalty[v][d] \in Nat
        BY <1>5 DEF PenaltiesOK
      <3>. QED
        BY <1>1, <2>1, <3>1 DEF Capture!Penalised
    <2>5. /\ \A d \in Domains : raised'[d] = IF d = k[2] THEN height + PenaltyBlocks ELSE raised[d]
          /\ raised' \in [Domains -> Nat]
      BY <1>1, <1>5, <2>1 DEF PenaltiesOK
    <2>6. PenaltiesOK'
      <3>. DEFINE bound == height + PenaltyBlocks
      <3>1. /\ \A d \in Domains : raised[d] <= bound /\ raised'[d] <= bound
            /\ bound \in Nat /\ height' + PenaltyBlocks = bound
        BY <1>1, <1>2, <1>5, <2>5 DEF PenaltiesOK
      <3>2. \A v \in Validators, d \in Domains : penalty[v][d] <= bound
        BY <1>5 DEF PenaltiesOK
      <3>. HIDE DEF bound
      <3>3. \A v \in Validators, d \in Domains : penalty'[v][d] <= bound
        BY <2>4, <3>1, <3>2 DEF bound
      <3>. QED
        BY <2>4, <2>5, <3>1, <3>3 DEF PenaltiesOK
    <2>7. ASSUME NEW d \in Domains
          PROVE  raised'[d] >= raised[d] /\ \A v \in Validators : penalty'[v][d] >= penalty[v][d]
      <3>1. raised[d] \in Nat /\ raised[d] <= height + PenaltyBlocks
            /\ \A v \in Validators : penalty[v][d] \in Nat /\ penalty[v][d] <= height + PenaltyBlocks
        BY <1>5 DEF PenaltiesOK
      <3>. QED
        BY <1>1, <2>4, <2>5, <3>1
    <2>8. /\ \A v \in ch[k].accused : penalty'[v][k[2]] >= height + PenaltyBlocks
          /\ raised'[k[2]] >= height + PenaltyBlocks
      BY <1>1, <2>4, <2>5
    <2>9. s \in 0 .. s
      BY <1>1
    <2>. HIDE DEF c, s
    <2>. QED
      BY <1>4, <2>1, <2>3, <2>6, <2>7, <2>8, <2>9
  <1>7. CASE outcome = "rejected" /\ Capture!Reject(k)
    <2>1. /\ held >= s /\ held' = held - s /\ dev' = dev + s /\ pool' = [pool EXCEPT ![k[2]] = pool[k[2]] + s]
          /\ ch' = Capture!Decided(k, "rejected", 0) /\ UNCHANGED Capture!consequences /\ ~Untroubled
      BY <1>1, <1>7 DEF Capture!Reject, Untroubled
    <2>2. MoneyOK' /\ \A d \in Domains : d # k[2] => pool'[d] = pool[d]
      <3>. DEFINE m == pool[k[2]] + s
      <3>1. m \in Nat /\ held - s \in Nat /\ dev + s \in Nat
        BY <1>1, <2>1
      <3>. HIDE DEF m
      <3>. QED
        BY <1>1, <2>1, <3>1 DEF MoneyOK, m
    <2>3. 0 \in 0 .. s
      BY <1>1
    <2>. HIDE DEF c, s
    <2>. QED
      BY <1>4, <1>5, <2>1, <2>2, <2>3
  <1>8. CASE Capture!UpholdInPart(k)
    <2>. DEFINE r == Capture!Reward(k, 2, held - s)
                half == s \div 2
    <2>1. /\ held >= s /\ held' = held - s - r /\ dev' = dev + s - half /\ pool' = [pool EXCEPT ![k[2]] = pool[k[2]] - r]
          /\ ch' = Capture!Decided(k, "partial", half) /\ UNCHANGED Capture!consequences
      BY <1>1, <1>8 DEF Capture!UpholdInPart
    <2>2. held - s \in Nat /\ half \in 0 .. s
      BY <1>1, <2>1
    <2>3. r \in Nat /\ r <= pool[k[2]] /\ (r <= held - s \/ r = 0)
      BY <1>1, <2>2, RewardFits
    <2>. HIDE DEF r, half
    <2>4. MoneyOK' /\ held' + s + pool[k[2]] = held + pool'[k[2]] /\ \A d \in Domains : d # k[2] => pool'[d] = pool[d]
      <3>. DEFINE m == pool[k[2]] - r
      <3>1. m \in Nat /\ pool' = [pool EXCEPT ![k[2]] = m]
        BY <1>1, <2>1, <2>3
      <3>2. held - s - r \in Nat /\ held - s - r + s + pool[k[2]] = held + m /\ dev + s - half \in Nat
        BY <1>1, <2>1, <2>2, <2>3
      <3>. HIDE DEF m, s
      <3>. QED
        BY <1>1, <2>1, <3>1, <3>2 DEF MoneyOK
    <2>. HIDE DEF c, s
    <2>. QED
      BY <1>4, <1>5, <2>1, <2>2, <2>4
  <1>. QED
    BY <1>6, <1>7, <1>8 DEF Capture!ResolveChallenge

-----------------------------------------------------------------------------
(* Capture challenges: the other steps *)

\* Reports, analyses and gifts.
LEMMA QuietKeeps ==
    ASSUME CaptureAssumptions, CaptureInv, UNCHANGED <<ch, paused, dev, Capture!consequences, height>>,
           \/ UNCHANGED <<held, pool>>
           \/ \E d \in Domains, n \in Nat : held' = held + n /\ pool' = [pool EXCEPT ![d] = pool[d] + n]
    PROVE  CaptureInv'
  <1>. USE CaptureParameters
  <1>1. /\ LogOK(ch', height') /\ PausesOK' /\ Capture!Spaced' /\ Capture!ConsequenceLands' /\ Capture!OneAutoChallenge' /\ PenaltiesOK'
        /\ height' \in Nat \ {0} /\ (Capture!RefundedOnExpiry => Capture!RefundedOnExpiry')
    BY DEF CaptureInv, LogOK, PausesOK, Capture!Spaced, Capture!ConsequenceLands, Capture!OneAutoChallenge,
           PenaltiesOK, Capture!RefundedOnExpiry, Capture!consequences
  <1>2. held \in Nat /\ dev \in Nat /\ pool \in [Domains -> Nat] /\ (Untroubled => held = Total(pool) + Total(Due(ch)) /\ Capture!RefundedOnExpiry)
    BY DEF CaptureInv, MoneyOK, FundsOK
  <1>3. Total(pool) \in Nat /\ Total(Due(ch)) \in Nat
    BY <1>2, TotalNat, DueNat DEF CaptureInv
  <1>4. CASE UNCHANGED <<held, pool>>
    BY <1>1, <1>2, <1>4 DEF CaptureInv, MoneyOK, FundsOK
  <1>5. ASSUME NEW d \in Domains, NEW n \in Nat, held' = held + n, pool' = [pool EXCEPT ![d] = pool[d] + n]
        PROVE  CaptureInv'
    <2>. DEFINE m == pool[d] + n
    <2>1. m \in Nat /\ pool[d] \in Nat /\ held + n \in Nat
      BY <1>2
    <2>2. pool' \in [Domains -> Nat] /\ pool'[d] = m /\ \A x \in Domains : x # d => pool'[x] = pool[x]
      <3>. HIDE DEF m
      <3>. QED
        BY <1>2, <1>5, <2>1 DEF m
    <2>3. Total(pool') = Total(pool) - pool[d] + pool'[d]
      BY <1>2, <2>2, TotalUpdate
    <2>4. Total(pool') = Total(pool) + n
      BY <1>3, <2>1, <2>2, <2>3
    <2>5. FundsOK'
      <3>1. Untroubled => held' = Total(pool') + Total(Due(ch')) /\ Capture!RefundedOnExpiry'
        BY <1>1, <1>2, <1>3, <1>5, <2>4
      <3>. QED
        BY <3>1 DEF FundsOK
    <2>6. MoneyOK'
      BY <1>2, <1>5, <2>1, <2>2 DEF MoneyOK
    <2>. QED
      BY <1>1, <2>5, <2>6 DEF CaptureInv
  <1>. QED
    BY <1>4, <1>5

\* A submission adds a challenge, of which nothing is decided, and its stake.
LEMMA SubmitKeeps ==
    ASSUME CaptureAssumptions, CaptureInv, NEW who \in Challengers, NEW d \in Domains, NEW accused \in Accusations, NEW stake \in Stakes,
           Capture!SubmitChallenge(who, d, accused, stake)
    PROVE  CaptureInv'
  <1>. USE CaptureParameters
  <1>. DEFINE D == DOMAIN ch
              k == <<who, d, height>>
              c == [accused |-> accused, stake |-> stake, status |-> "evidence", evidences |-> 0,
                    evidence |-> height + EvidencePeriod, review |-> height + EvidencePeriod + ReviewPeriod,
                    outcome |-> "none", decided |-> 0, back |-> 0]
  <1>1. /\ height \in Nat \ {0} /\ held \in Nat /\ dev \in Nat /\ pool \in [Domains -> Nat] /\ paused \in [Domains -> Nat]
        /\ ch = [x \in D |-> ch[x]] /\ IsFiniteSet(D) /\ \A x \in D : ChallengeOK(ch[x], x, height)
    BY DEF CaptureInv, LogOK, MoneyOK, PausesOK
  <1>2. /\ ch' = Capture!Filed(ch, {k}, c) /\ held' = held + stake /\ ~(height < paused[d])
        /\ paused' = [paused EXCEPT ![d] = IF Pause > 0 THEN height + Pause ELSE 0]
        /\ UNCHANGED <<pool, dev, penalty, raised, height>>
    BY DEF Capture!SubmitChallenge, Capture!InPause, Capture!consequences
  <1>3. /\ c \in Challenge /\ c.back = 0 /\ c.decided = 0 /\ c.outcome = "none" /\ c.status = "evidence" /\ c.stake = stake
        /\ stake \in Nat
    <2>1. accused \subseteq Validators /\ stake \in Nat /\ height + EvidencePeriod \in Nat /\ height + EvidencePeriod + ReviewPeriod \in Nat
      BY <1>1
    <2>. QED
      BY <2>1 DEF Challenge
  <1>4. k[1] = who /\ k[2] = d /\ k[3] = height /\ who # Protocol
    OBVIOUS
  <1>. HIDE DEF c, k
  <1>5. ChallengeOK(c, k, height) /\ Capture!Active(c)
    BY <1>1, <1>3, <1>4 DEF ChallengeOK, Capture!Active
  <1>6. /\ DOMAIN ch' = D \cup {k} /\ ch' = [x \in D \cup {k} |-> ch'[x]] /\ ch'[k] = c
        /\ \A x \in D : x # k => ch'[x] = ch[x]
    BY <1>2 DEF Capture!Filed
  <1>7. LogOK(ch', height')
    <2>1. IsFiniteSet(D \cup {k})
      BY <1>1, FS_AddElement
    <2>. QED
      BY <1>1, <1>2, <1>5, <1>6, <2>1 DEF LogOK
  <1>8. PausesOK'
    <2>1. paused' \in [Domains -> Nat] /\ paused'[d] = (IF Pause > 0 THEN height + Pause ELSE 0) /\ \A x \in Domains : x # d => paused'[x] = paused[x]
      <3>. DEFINE m == IF Pause > 0 THEN height + Pause ELSE 0
      <3>1. m \in Nat
        BY <1>1
      <3>. HIDE DEF m
      <3>. QED
        BY <1>1, <1>2, <3>1 DEF m
    <2>2. ASSUME Pause > 0, NEW x \in DOMAIN ch', x[1] # Protocol
          PROVE  x[3] + Pause <= paused'[x[2]]
      <3>1. CASE x = k
        BY <1>1, <1>4, <2>1, <2>2, <3>1
      <3>2. CASE x # k
        <4>1. x \in D /\ x[2] \in Domains /\ x[3] \in 1 .. height
          BY <1>1, <1>6, <2>2, <3>2 DEF ChallengeOK
        <4>2. x[3] + Pause <= paused[x[2]]
          BY <2>2, <4>1 DEF CaptureInv, PausesOK
        <4>3. CASE x[2] = d
          BY <1>1, <2>1, <2>2, <4>1, <4>3
        <4>4. CASE x[2] # d
          BY <2>1, <4>1, <4>2, <4>4
        <4>. QED
          BY <4>3, <4>4
      <3>. QED
        BY <3>1, <3>2
    <2>. QED
      BY <2>1, <2>2 DEF PausesOK
  <1>9. ASSUME Pause > 0
        PROVE  k \notin D /\ \A x \in D : x[1] # Protocol /\ x[2] = d => height - x[3] >= Pause
    <2>1. ASSUME NEW x \in D, x[1] # Protocol, x[2] = d
          PROVE  x[3] \in Nat /\ height - x[3] >= Pause
      <3>1. x[3] \in Nat /\ x[3] + Pause <= paused[d]
        BY <1>1, <1>9, <2>1 DEF CaptureInv, PausesOK, ChallengeOK
      <3>. QED
        BY <1>1, <1>2, <3>1
    <2>. QED
      BY <1>1, <1>4, <1>9, <2>1
  <1>10. Capture!Spaced'
    <2>. SUFFICES ASSUME NEW x \in DOMAIN ch', NEW j \in DOMAIN ch', x # j, x[2] = j[2], x[1] # Protocol, j[1] # Protocol
                  PROVE  x[3] - j[3] >= Pause \/ j[3] - x[3] >= Pause
      BY DEF Capture!Spaced
    <2>1. x[3] \in Nat /\ j[3] \in Nat
      BY <1>7 DEF LogOK, ChallengeOK
    <2>2. CASE Pause = 0
      BY <2>1, <2>2
    <2>3. CASE Pause > 0
      <3>1. CASE x = k
        BY <1>4, <1>6, <1>9, <2>3, <3>1
      <3>2. CASE j = k
        BY <1>4, <1>6, <1>9, <2>3, <3>2
      <3>3. CASE x # k /\ j # k
        BY <1>6, <3>3 DEF CaptureInv, Capture!Spaced
      <3>. QED
        BY <3>1, <3>2, <3>3
    <2>. QED
      BY <2>2, <2>3
  <1>11. Capture!ConsequenceLands'
    BY <1>2, <1>3, <1>6 DEF CaptureInv, Capture!ConsequenceLands
  <1>12. Capture!OneAutoChallenge'
    <2>. SUFFICES ASSUME NEW e \in Domains, NEW x \in Capture!ActiveIn(ch', e), NEW j \in Capture!ActiveIn(ch', e), x[1] = Protocol, j # x
                  PROVE  j[1] # Protocol /\ j[3] >= x[3]
      BY DEF Capture!OneAutoChallenge
    <2>1. x # k /\ x \in Capture!ActiveIn(ch, e)
      BY <1>4, <1>6 DEF Capture!ActiveIn
    <2>2. CASE j = k
      BY <1>1, <1>4, <2>1, <2>2 DEF Capture!ActiveIn, ChallengeOK
    <2>3. CASE j # k
      <3>1. j \in Capture!ActiveIn(ch, e)
        BY <1>6, <2>3 DEF Capture!ActiveIn
      <3>. QED
        BY <2>1, <3>1 DEF CaptureInv, Capture!OneAutoChallenge
    <2>. QED
      BY <2>2, <2>3
  <1>13. FundsOK'
    <2>. SUFFICES ASSUME Untroubled
                  PROVE  held' = Total(pool') + Total(Due(ch')) /\ Capture!RefundedOnExpiry'
      BY DEF FundsOK
    <2>1. held = Total(pool) + Total(Due(ch)) /\ Capture!RefundedOnExpiry /\ k \notin D
      BY <1>9 DEF CaptureInv, FundsOK, Untroubled
    <2>2. /\ Due(ch) \in [D -> Nat] /\ Due(ch') \in [D \cup {k} -> Nat] /\ Due(ch')[k] = stake
          /\ \A x \in D : Due(ch')[x] = Due(ch)[x]
      <3>1. Due(ch) \in [D -> Nat] /\ Due(ch') \in [D \cup {k} -> Nat]
        BY <1>6, <1>7, DueNat DEF CaptureInv
      <3>2. Due(ch')[k] = stake
        BY <1>3, <1>5, <1>6 DEF Due
      <3>3. \A x \in D : Due(ch')[x] = Due(ch)[x]
        BY <1>6, <2>1 DEF Due
      <3>. QED
        BY <3>1, <3>2, <3>3
    <2>3. Total(Due(ch')) = Total(Due(ch)) + stake
      <3>. DEFINE S == D
                  f == Due(ch)
                  g == Due(ch')
      <3>1. /\ IsFiniteSet(S) /\ k \notin S /\ f \in [S -> Nat] /\ g \in [S \cup {k} -> Nat]
            /\ g[k] = stake /\ \A x \in S : g[x] = f[x]
        BY <1>1, <2>1, <2>2
      <3>. HIDE DEF S, f, g
      <3>2. Total(g) = Total(f) + g[k]
        BY <3>1, TotalExtend
      <3>. QED
        BY <3>1, <3>2 DEF f, g
    <2>4. Total(pool) \in Nat /\ Total(Due(ch)) \in Nat
      BY <1>1, TotalNat, DueNat DEF CaptureInv
    <2>5. held' = Total(pool') + Total(Due(ch'))
      BY <1>2, <1>3, <2>1, <2>3, <2>4
    <2>6. Capture!RefundedOnExpiry'
      BY <1>3, <1>6, <2>1 DEF Capture!RefundedOnExpiry
    <2>. QED
      BY <2>5, <2>6
  <1>14. MoneyOK' /\ PenaltiesOK' /\ height' \in Nat \ {0}
    BY <1>1, <1>2, <1>3 DEF CaptureInv, MoneyOK, PenaltiesOK
  <1>. QED
    BY <1>7, <1>8, <1>10, <1>11, <1>12, <1>13, <1>14 DEF CaptureInv

-----------------------------------------------------------------------------
(* Capture challenges: a block *)

\* The challenges a block goes through are those stored and one for every domain
\* newly accused.
Files(cs, N) == /\ DOMAIN cs = DOMAIN ch \cup N /\ cs = [x \in DOMAIN cs |-> cs[x]]
                /\ \A x \in DOMAIN ch : cs[x] = ch[x]
                /\ \A x \in N : cs[x] = Capture!AutoChallenge(height + 1)
\* The domains that are accused by the protocol.
Against(fl) == {d \in Domains : fl[d] /\ ~Capture!HasActive(ch, d)}
Accusing(fl) == {<<Protocol, d, height + 1>> : d \in Against(fl)}

\* The protocol files new challenges and leaves the others alone.
LEMMA AccusedFiles ==
    ASSUME CaptureAssumptions, CaptureInv, NEW fl
    PROVE  /\ IsFiniteSet(Accusing(fl)) /\ Accusing(fl) \cap DOMAIN ch = {}
           /\ Files(Capture!Accused(ch, fl, height + 1), Accusing(fl)) /\ Files(ch, {})
  <1>. USE CaptureParameters
  <1>. DEFINE N == Accusing(fl)
  <1>1. Capture!Accused(ch, fl, height + 1) = Capture!Filed(ch, N, Capture!AutoChallenge(height + 1))
    BY DEF Capture!Accused, Accusing, Against
  <1>2. IsFiniteSet(N)
    <2>1. IsFiniteSet(Against(fl))
      BY FS_Subset DEF Against
    <2>. DEFINE f == [d \in Against(fl) |-> <<Protocol, d, height + 1>>]
    <2>2. f \in Surjection(Against(fl), N)
      BY DEF Accusing, Surjection
    <2>. QED
      BY <2>1, <2>2, FS_Surjection
  <1>3. \A x \in N : x \notin DOMAIN ch
    BY DEF Accusing, CaptureInv, LogOK, ChallengeOK
  <1>. HIDE DEF N
  <1>4. Files(Capture!Filed(ch, N, Capture!AutoChallenge(height + 1)), N)
    BY <1>3 DEF Files, Capture!Filed
  <1>5. Files(ch, {})
    BY DEF Files, CaptureInv, LogOK
  <1>. QED
    BY <1>1, <1>2, <1>3, <1>4, <1>5 DEF N

\* What a block makes of a challenge c.
Ages(c, h, k, S) == [Capture!Advanced(c, h) EXCEPT !.back = IF k \in S THEN c.stake ELSE @]
\* Only its status and what was returned change, and only open ones end.
LEMMA AgesKeep ==
    ASSUME CaptureAssumptions, NEW c \in Challenge, NEW h \in Nat, NEW k, NEW S
    PROVE  LET a == Ages(c, h, k, S)
           IN  /\ a \in Challenge /\ a.stake = c.stake /\ a.outcome = c.outcome /\ a.decided = c.decided /\ a.accused = c.accused
               /\ a.back = (IF k \in S THEN c.stake ELSE c.back)
               /\ Capture!Active(a) <=> Capture!Active(c) /\ ~(c.status = "under_review" /\ h >= c.review)
               /\ a.status = "expired" <=> c.status = "expired" \/ (c.status = "under_review" /\ h >= c.review)
  <1>. DEFINE b == Capture!Advanced(c, h)
  <1>1. /\ b \in Challenge /\ b.stake = c.stake /\ b.outcome = c.outcome /\ b.decided = c.decided /\ b.accused = c.accused
        /\ b.back = c.back /\ b.stake \in Nat
        /\ b.status = IF c.status = "evidence" /\ h >= c.evidence THEN "under_review"
                      ELSE IF c.status = "under_review" /\ h >= c.review THEN "expired" ELSE c.status
    <2>1. CASE c.status = "evidence" /\ h >= c.evidence
      <3>1. b = [c EXCEPT !.status = "under_review"]
        BY <2>1 DEF Capture!Advanced
      <3>. HIDE DEF b
      <3>. QED
        BY <2>1, <3>1 DEF Challenge
    <2>2. CASE c.status = "under_review" /\ h >= c.review
      <3>1. b = [c EXCEPT !.status = "expired"]
        BY <2>2 DEF Capture!Advanced
      <3>. HIDE DEF b
      <3>. QED
        BY <2>2, <3>1 DEF Challenge
    <2>3. CASE ~(c.status = "evidence" /\ h >= c.evidence) /\ ~(c.status = "under_review" /\ h >= c.review)
      <3>1. b = c
        BY <2>3 DEF Capture!Advanced
      <3>. HIDE DEF b
      <3>. QED
        BY <2>3, <3>1 DEF Challenge
    <2>. QED
      BY <2>1, <2>2, <2>3
  <1>. HIDE DEF b
  <1>2. Ages(c, h, k, S) = [b EXCEPT !.back = IF k \in S THEN c.stake ELSE b.back]
    BY DEF Ages, b
  <1>. DEFINE a == Ages(c, h, k, S)
              m == IF k \in S THEN c.stake ELSE b.back
  <1>3. m \in Nat
    BY <1>1 DEF Challenge
  <1>. HIDE DEF m
  <1>4. /\ a \in Challenge /\ a.stake = b.stake /\ a.outcome = b.outcome /\ a.decided = b.decided /\ a.accused = b.accused
        /\ a.back = m /\ a.status = b.status
    BY <1>1, <1>2, <1>3 DEF Challenge, m
  <1>. HIDE DEF a
  <1>5. Capture!Active(a) <=> Capture!Active(c) /\ ~(c.status = "under_review" /\ h >= c.review)
    BY <1>1, <1>4 DEF Capture!Active
  <1>6. a.status = "expired" <=> c.status = "expired" \/ (c.status = "under_review" /\ h >= c.review)
    BY <1>1, <1>4
  <1>7. a.back = (IF k \in S THEN c.stake ELSE c.back)
    BY <1>1, <1>4 DEF m
  <1>. QED
    BY <1>1, <1>4, <1>5, <1>6, <1>7 DEF a

\* As long as the account holds what is due, a block refunds every stake that expires.
LEMMA AllRefunded ==
    ASSUME NEW cs, NEW h \in Nat, LogOK(cs, h), NEW have \in Nat, NEW S \in Capture!Refundable(cs, have, h), have >= Total(Due(cs))
    PROVE  S = Capture!Expiring(cs, h)
  <1>. DEFINE D == DOMAIN cs
              E == Capture!Expiring(cs, h)
              f(T) == [x \in D |-> IF x \in T THEN cs[x].stake ELSE 0]
  <1>1. IsFiniteSet(D) /\ (\A x \in D : cs[x].stake \in Nat) /\ E \subseteq D /\ \A x \in E : Capture!Active(cs[x])
    BY DEF LogOK, ChallengeOK, Challenge, Capture!Expiring, Capture!Active
  <1>2. S \subseteq E /\ \A x \in E \ S : Capture!StakesOf(cs, S) + cs[x].stake > have
    BY DEF Capture!Refundable
  <1>3. \A T : f(T) \in [D -> Nat]
    BY <1>1
  <1>4. ASSUME NEW x \in E \ S
        PROVE  FALSE
    <2>. DEFINE g == f(S)
                u == f(S \cup {x})
                w == Due(cs)
    <2>1. g \in [D -> Nat] /\ u \in [D -> Nat] /\ w \in [D -> Nat] /\ Total(w) \in Nat
      BY <1>3, DueNat
    <2>2. /\ x \in D /\ g[x] = 0 /\ u[x] = cs[x].stake /\ (\A y \in D : y # x => u[y] = g[y])
          /\ (\A y \in D : u[y] <= 1 * w[y]) /\ Total(g) = Capture!StakesOf(cs, S)
      <3>1. x \in D /\ g[x] = 0 /\ u[x] = cs[x].stake /\ \A y \in D : y # x => u[y] = g[y]
        BY <1>1
      <3>2. \A y \in D : u[y] <= 1 * w[y]
        BY <1>1, <1>2 DEF Due
      <3>3. Total(g) = Capture!StakesOf(cs, S)
        BY CaptureCounts DEF Capture!StakesOf
      <3>. QED
        BY <3>1, <3>2, <3>3
    <2>. HIDE DEF g, u, w
    <2>3. Total(u) = Total(g) - g[x] + u[x] /\ Total(g) \in Nat /\ Total(u) \in Nat
      BY <1>1, <2>1, <2>2, TotalUpdate
    <2>4. Total(u) <= 1 * Total(w)
      BY <1>1, <2>1, <2>2, TotalScaled
    <2>5. cs[x].stake \in Nat /\ Capture!StakesOf(cs, S) + cs[x].stake > have /\ have >= Total(w)
      BY <1>1, <1>2 DEF w
    <2>. QED
      BY <2>1, <2>2, <2>3, <2>4, <2>5
  <1>. QED
    BY <1>2, <1>4

\* Everything of NextBlock but the analysis.
LEMMA AgedKeeps ==
    ASSUME CaptureAssumptions, CaptureInv, NEW cs, NEW fl, NEW N, N \subseteq Accusing(fl), Files(cs, N), IsFiniteSet(N), N \cap DOMAIN ch = {},
           NEW S \in Capture!Refundable(cs, held, height + 1), height' = height + 1,
           ch' = [k \in DOMAIN cs |-> Ages(cs[k], height + 1, k, S)],
           held' = held - Capture!StakesOf(cs, S), UNCHANGED <<paused, pool, dev, penalty, raised>>
    PROVE  CaptureInv'
  <1>. USE CaptureParameters
  <1>. DEFINE D == DOMAIN ch
              h == height + 1
              E == Capture!Expiring(cs, h)
  <1>1. /\ height \in Nat \ {0} /\ h \in Nat /\ held \in Nat /\ dev \in Nat /\ pool \in [Domains -> Nat]
        /\ IsFiniteSet(D) /\ \A x \in D : ChallengeOK(ch[x], x, height)
    BY DEF CaptureInv, LogOK, MoneyOK
  <1>2. DOMAIN cs = D \cup N /\ (\A x \in D : cs[x] = ch[x]) /\ \A x \in N : cs[x] = Capture!AutoChallenge(h)
    BY DEF Files
  <1>3. ASSUME NEW x \in N
        PROVE  /\ x[1] = Protocol /\ x[2] \in Domains /\ x[3] = h /\ x[2] \in Against(fl) /\ x = <<Protocol, x[2], h>>
    BY DEF Accusing, Against
  <1>4. /\ Capture!AutoChallenge(h) \in Challenge /\ Capture!AutoChallenge(h).stake = 0
        /\ Capture!AutoChallenge(h).back = 0 /\ Capture!AutoChallenge(h).decided = 0
        /\ Capture!AutoChallenge(h).outcome = "none" /\ Capture!AutoChallenge(h).status = "under_review"
        /\ Capture!AutoChallenge(h).review = h + ReviewPeriod
    BY <1>1 DEF Capture!AutoChallenge, Challenge
  <1>5. LogOK(cs, h)
    <2>1. IsFiniteSet(DOMAIN cs)
      <3>1. IsFiniteSet(D \cup N)
        BY <1>1, FS_Union
      <3>. QED
        BY <1>2, <3>1
    <2>2. ASSUME NEW x \in DOMAIN cs
          PROVE  ChallengeOK(cs[x], x, h)
      <3>1. CASE x \in D
        BY <1>1, <1>2, <3>1 DEF ChallengeOK, Challenge
      <3>2. CASE x \in N
        BY <1>1, <1>2, <1>3, <1>4, <3>2 DEF ChallengeOK
      <3>. QED
        BY <1>2, <3>1, <3>2
    <2>. QED
      BY <2>1, <2>2 DEF LogOK, Files
  <1>6. S \subseteq E /\ E \subseteq DOMAIN cs /\ Capture!StakesOf(cs, S) <= held
    BY DEF Capture!Refundable, Capture!Expiring
  <1>. DEFINE a(x) == Ages(cs[x], h, x, S)
              due(x) == cs[x].status = "under_review" /\ h >= cs[x].review
  <1>7. DOMAIN ch' = DOMAIN cs /\ ch' = [x \in DOMAIN cs |-> ch'[x]] /\ \A x \in DOMAIN cs : ch'[x] = a(x)
    OBVIOUS
  <1>8. ASSUME NEW x \in DOMAIN cs
        PROVE  /\ ch'[x] \in Challenge /\ ch'[x].stake = cs[x].stake /\ ch'[x].outcome = cs[x].outcome
               /\ ch'[x].decided = cs[x].decided /\ ch'[x].accused = cs[x].accused
               /\ ch'[x].back = (IF x \in S THEN cs[x].stake ELSE cs[x].back)
               /\ Capture!Active(ch'[x]) <=> Capture!Active(cs[x]) /\ ~due(x)
               /\ ch'[x].status = "expired" <=> cs[x].status = "expired" \/ due(x)
    <2>1. cs[x] \in Challenge
      BY <1>5 DEF LogOK, ChallengeOK
    <2>. QED
      BY <1>1, <1>7, <2>1, AgesKeep
  <1>9. \A x \in DOMAIN cs : x \in E <=> due(x)
    BY DEF Capture!Expiring
  <1>. HIDE DEF a, due, h, E, D
  <1>10. LogOK(ch', height')
    <2>1. ASSUME NEW x \in DOMAIN cs
          PROVE  ChallengeOK(ch'[x], x, h)
      <3>1. ChallengeOK(cs[x], x, h) /\ cs[x].stake \in Nat
        BY <1>5 DEF LogOK, ChallengeOK, Challenge
      <3>. QED
        BY <1>8, <3>1 DEF ChallengeOK
    <2>. QED
      BY <1>5, <1>7, <2>1 DEF LogOK, h
  <1>11. PausesOK'
    BY <1>2, <1>3, <1>7 DEF CaptureInv, PausesOK, D
  <1>12. Capture!Spaced'
    BY <1>2, <1>3, <1>7 DEF CaptureInv, Capture!Spaced, D
  <1>13. Capture!ConsequenceLands'
    <2>1. ASSUME NEW x \in DOMAIN cs, ch'[x].outcome = "upheld"
          PROVE  /\ \A v \in ch'[x].accused : penalty[v][x[2]] >= ch'[x].decided + PenaltyBlocks
                 /\ raised[x[2]] >= ch'[x].decided + PenaltyBlocks
      <3>1. x \notin N
        <4>1. ch'[x].outcome = cs[x].outcome
          BY <1>8, <2>1
        <4>. QED
          BY <1>2, <1>4, <2>1, <4>1
      <3>2. x \in D /\ cs[x] = ch[x] /\ ch[x].outcome = "upheld"
        BY <1>2, <1>8, <2>1, <3>1
      <3>. QED
        BY <1>8, <3>2 DEF CaptureInv, Capture!ConsequenceLands, D
    <2>. QED
      BY <1>7, <2>1 DEF Capture!ConsequenceLands
  <1>14. Capture!OneAutoChallenge'
    <2>. SUFFICES ASSUME NEW d \in Domains, NEW k \in Capture!ActiveIn(ch', d), NEW j \in Capture!ActiveIn(ch', d), k[1] = Protocol, j # k
                  PROVE  j[1] # Protocol /\ j[3] >= k[3]
      BY DEF Capture!OneAutoChallenge
    <2>1. /\ k \in DOMAIN cs /\ j \in DOMAIN cs /\ k[2] = d /\ j[2] = d
          /\ (k \in D => k \in Capture!ActiveIn(ch, d)) /\ (j \in D => j \in Capture!ActiveIn(ch, d))
      BY <1>2, <1>7, <1>8 DEF Capture!ActiveIn, D
    <2>2. k \in N => Capture!ActiveIn(ch, d) = {}
      BY <1>3, <2>1 DEF Against, Capture!HasActive
    <2>3. j \in N => Capture!ActiveIn(ch, d) = {}
      BY <1>3, <2>1 DEF Against, Capture!HasActive
    <2>4. k \in N /\ j \in N => j = k
      BY <1>3, <2>1
    <2>5. k \in Capture!ActiveIn(ch, d) /\ j \in Capture!ActiveIn(ch, d)
      BY <1>2, <2>1, <2>2, <2>3, <2>4
    <2>. QED
      BY <2>5 DEF CaptureInv, Capture!OneAutoChallenge
  <1>15. Total(Due(cs)) = Total(Due(ch)) /\ Total(Due(ch)) \in Nat
    <2>1. Due(ch) \in [D -> Nat] /\ Due(cs) \in [DOMAIN cs -> Nat] /\ Total(Due(ch)) \in Nat
      BY <1>5, DueNat DEF CaptureInv, D
    <2>2. ASSUME NEW x \in DOMAIN cs
          PROVE  IF x \in D THEN Due(ch)[x] = Due(cs)[x] ELSE Due(cs)[x] = 0
      BY <1>2, <1>4 DEF Due, D
    <2>3. D \subseteq DOMAIN cs
      BY <1>2
    <2>. DEFINE g == Due(ch)
                f == Due(cs)
                T == DOMAIN cs
    <2>4. /\ D \subseteq T /\ g \in [D -> Nat] /\ f \in [T -> Nat]
          /\ \A x \in T : IF x \in D THEN g[x] = f[x] ELSE f[x] = 0
      BY <2>1, <2>2, <2>3
    <2>. HIDE DEF f, g, T
    <2>5. Total(g) = Total(f)
      <3>1. Coins(g) = Coins(f)
        BY <2>4 DEF Coins
      <3>. QED
        BY <3>1 DEF Total
    <2>. QED
      BY <2>1, <2>5 DEF f, g
  <1>16. Capture!StakesOf(cs, S) \in Nat
    <2>. DEFINE f == [x \in DOMAIN cs |-> IF x \in S THEN cs[x].stake ELSE 0]
    <2>1. f \in [DOMAIN cs -> Nat] /\ IsFiniteSet(DOMAIN cs)
      BY <1>5 DEF LogOK, ChallengeOK, Challenge
    <2>. QED
      BY <2>1, TotalNat, CaptureCounts DEF Capture!StakesOf
  <1>17. FundsOK'
    <2>. SUFFICES ASSUME Untroubled
                  PROVE  held' = Total(pool') + Total(Due(ch')) /\ Capture!RefundedOnExpiry'
      BY DEF FundsOK
    <2>1. held = Total(pool) + Total(Due(ch)) /\ Capture!RefundedOnExpiry
      BY DEF CaptureInv, FundsOK
    <2>2. Total(pool) \in Nat
      BY <1>1, TotalNat
    <2>3. S = E
      BY <1>1, <1>5, <1>15, <2>1, <2>2, AllRefunded DEF h, E
    <2>4. Total(Due(cs)) = Total(Due(ch')) + Capture!StakesOf(cs, S)
      <3>. DEFINE f == Due(ch')
                  g == [x \in DOMAIN cs |-> IF x \in S THEN cs[x].stake ELSE 0]
      <3>1. f \in [DOMAIN cs -> Nat] /\ g \in [DOMAIN cs -> Nat] /\ IsFiniteSet(DOMAIN cs)
        <4>1. f \in [DOMAIN cs -> Nat]
          BY <1>7, <1>10, DueNat
        <4>. QED
          BY <1>5, <4>1 DEF LogOK, ChallengeOK, Challenge
      <3>2. ASSUME NEW x \in DOMAIN cs
            PROVE  Due(cs)[x] = f[x] + g[x]
        <4>1. cs[x].stake \in Nat /\ (x \in S <=> due(x)) /\ (due(x) => Capture!Active(cs[x]))
          BY <1>5, <1>9, <2>3 DEF LogOK, ChallengeOK, Challenge, due, Capture!Active
        <4>2. f[x] = IF Capture!Active(cs[x]) /\ ~due(x) THEN cs[x].stake ELSE 0
          BY <1>7, <1>8 DEF Due
        <4>. QED
          BY <4>1, <4>2 DEF Due
      <3>3. Due(cs) = [x \in DOMAIN cs |-> f[x] + g[x]]
        <4>1. Due(cs) = [x \in DOMAIN cs |-> Due(cs)[x]]
          BY DEF Due
        <4>. HIDE DEF f, g
        <4>. QED
          BY <3>2, <4>1
      <3>4. Total(g) = Capture!StakesOf(cs, S)
        BY CaptureCounts DEF Capture!StakesOf
      <3>. HIDE DEF f, g
      <3>5. Total([x \in DOMAIN cs |-> f[x] + g[x]]) = Total(f) + Total(g)
        BY <3>1, TotalSum
      <3>. QED
        BY <3>3, <3>4, <3>5 DEF f
    <2>5. Total(Due(ch')) \in Nat
      BY <1>10, DueNat
    <2>6. held' = Total(pool') + Total(Due(ch'))
      BY <1>1, <1>15, <1>16, <2>1, <2>2, <2>4, <2>5
    <2>7. Capture!RefundedOnExpiry'
      <3>1. ASSUME NEW x \in DOMAIN cs, ch'[x].status = "expired"
            PROVE  ch'[x].back = ch'[x].stake
        <4>1. CASE due(x)
          BY <1>8, <1>9, <2>3, <4>1
        <4>2. CASE ~due(x)
          <5>1. cs[x].status = "expired" /\ x \notin S
            BY <1>8, <1>9, <2>3, <3>1, <4>2
          <5>2. x \in D /\ cs[x] = ch[x]
            BY <1>2, <1>4, <5>1
          <5>3. ch[x].back = ch[x].stake
            BY <2>1, <5>1, <5>2 DEF Capture!RefundedOnExpiry, D
          <5>. QED
            BY <1>8, <5>1, <5>2, <5>3
        <4>. QED
          BY <4>1, <4>2
      <3>. QED
        BY <1>7, <3>1 DEF Capture!RefundedOnExpiry
    <2>. QED
      BY <2>6, <2>7
  <1>18. MoneyOK'
    BY <1>1, <1>6, <1>16 DEF MoneyOK
  <1>19. PenaltiesOK' /\ height' \in Nat \ {0}
    <2>1. /\ penalty \in [Validators -> [Domains -> Nat]] /\ raised \in [Domains -> Nat]
          /\ \A d \in Domains : raised[d] <= height + PenaltyBlocks /\ \A v \in Validators : penalty[v][d] <= height + PenaltyBlocks
      BY DEF CaptureInv, PenaltiesOK
    <2>2. \A d \in Domains : raised[d] <= height' + PenaltyBlocks /\ \A v \in Validators : penalty[v][d] <= height' + PenaltyBlocks
      <3>1. \A n \in Nat : n <= height + PenaltyBlocks => n <= height' + PenaltyBlocks
        BY <1>1
      <3>2. \A d \in Domains : raised[d] \in Nat /\ \A v \in Validators : penalty[v][d] \in Nat
        BY <2>1
      <3>. QED
        BY <2>1, <3>1, <3>2
    <2>. QED
      BY <1>1, <2>1, <2>2 DEF PenaltiesOK
  <1>. QED
    BY <1>10, <1>11, <1>12, <1>13, <1>14, <1>17, <1>18, <1>19 DEF CaptureInv

\* A block is such a step; and a flagged domain is heard.
LEMMA CaptureBlockKeeps ==
    ASSUME CaptureAssumptions, CaptureInv, Capture!NextBlock
    PROVE  CaptureInv' /\ Capture!FlaggedIsHeard
  <1>. USE CaptureParameters
  <1>1. PICK interval \in Intervals :
         LET due == (height + 1) % interval = 0
             fl == [d \in Domains |-> IF due /\ Capture!Participations(d) > 0 THEN Capture!Flagged(d) ELSE flag[d]]
             cs == IF due THEN Capture!Accused(ch, fl, height + 1) ELSE ch
         IN /\ flag' = fl
            /\ \E S \in Capture!Refundable(cs, held, height + 1) :
                 /\ ch' = [k \in DOMAIN cs |-> [Capture!Advanced(cs[k], height + 1) EXCEPT !.back = IF k \in S THEN cs[k].stake ELSE @]]
                 /\ held' = held - Capture!StakesOf(cs, S)
    BY DEF Capture!NextBlock
  <1>. DEFINE due == (height + 1) % interval = 0
              cs == IF due THEN Capture!Accused(ch, flag', height + 1) ELSE ch
              N == IF due THEN Accusing(flag') ELSE {}
  <1>2. PICK S \in Capture!Refundable(cs, held, height + 1) :
          /\ ch' = [k \in DOMAIN cs |-> [Capture!Advanced(cs[k], height + 1) EXCEPT !.back = IF k \in S THEN cs[k].stake ELSE @]]
          /\ held' = held - Capture!StakesOf(cs, S)
    BY <1>1
  <1>3. height' = height + 1 /\ UNCHANGED <<paused, pool, dev, penalty, raised>> /\ height \in Nat
    BY DEF Capture!NextBlock, Capture!consequences, CaptureInv
  <1>4. Files(cs, N) /\ IsFiniteSet(N) /\ N \cap DOMAIN ch = {} /\ N \subseteq Accusing(flag')
    BY AccusedFiles, FS_EmptySet
  <1>. HIDE DEF due
  <1>5. ch' = [k \in DOMAIN cs |-> Ages(cs[k], height + 1, k, S)]
    BY <1>2 DEF Ages
  <1>6. CaptureInv'
    <2>. HIDE DEF cs, N
    <2>. QED
      BY <1>2, <1>3, <1>4, <1>5, AgedKeeps
  <1>7. Capture!FlaggedIsHeard
    <2>. SUFFICES ASSUME NEW d \in Domains, \A n \in Intervals : height' % n = 0, flag'[d], Capture!ActiveIn(ch, d) = {}
                  PROVE  Capture!ActiveIn(ch', d) # {}
      BY DEF Capture!FlaggedIsHeard
    <2>. DEFINE k == <<Protocol, d, height + 1>>
                c == Capture!AutoChallenge(height + 1)
    <2>1. due
      BY <1>3 DEF due
    <2>2. k \in N
      BY <2>1 DEF Accusing, Against, Capture!HasActive
    <2>. HIDE DEF N, cs
    <2>3. k \in DOMAIN cs /\ cs[k] = c
      BY <1>4, <2>2 DEF Files
    <2>4. c \in Challenge /\ Capture!Active(c) /\ ~(c.status = "under_review" /\ height + 1 >= c.review) /\ height + 1 \in Nat
      BY <1>3 DEF Capture!AutoChallenge, Challenge, Capture!Active
    <2>5. ch'[k] = Ages(c, height + 1, k, S) /\ k \in DOMAIN ch'
      BY <1>5, <2>3
    <2>6. k[2] = d
      OBVIOUS
    <2>. HIDE DEF c, k
    <2>7. Capture!Active(ch'[k])
      BY <2>4, <2>5, AgesKeep
    <2>. QED
      BY <2>5, <2>6, <2>7 DEF Capture!ActiveIn
  <1>. QED
    BY <1>6, <1>7

\* At first there are no challenges and no coins.
LEMMA CaptureStart ==
    ASSUME CaptureAssumptions, Capture!Init
    PROVE  CaptureInv
  <1>. USE CaptureParameters
  <1>1. ch = [k \in {} |-> 0] /\ DOMAIN ch = {}
    BY DEF Capture!Init
  <1>2. LogOK(ch, height)
    BY <1>1, FS_EmptySet DEF LogOK
  <1>3. Total(pool) = 0 /\ Total(Due(ch)) = 0
    <2>1. pool \in [Domains -> Nat] /\ \A d \in Domains : pool[d] = 0
      BY DEF Capture!Init
    <2>2. Due(ch) \in [{} -> Nat] /\ \A x \in {} : Due(ch)[x] = 0
      BY <1>1 DEF Due
    <2>3. Total(pool) = 0
      BY <2>1, TotalZero
    <2>4. Total(Due(ch)) = 0
      BY <2>2, TotalZero
    <2>. QED
      BY <2>3, <2>4
  <1>4. FundsOK
    BY <1>1, <1>3 DEF Capture!Init, FundsOK, Capture!RefundedOnExpiry
  <1>5. Capture!Spaced /\ Capture!ConsequenceLands /\ Capture!OneAutoChallenge
    BY <1>1 DEF Capture!Spaced, Capture!ConsequenceLands, Capture!OneAutoChallenge, Capture!ActiveIn
  <1>6. MoneyOK /\ PenaltiesOK /\ PausesOK /\ height \in Nat \ {0}
    BY <1>1 DEF Capture!Init, MoneyOK, PenaltiesOK, PausesOK
  <1>. QED
    BY <1>2, <1>4, <1>5, <1>6 DEF CaptureInv

\* Every step keeps the invariant, and hears the domains it flags.
LEMMA CaptureKept ==
    ASSUME CaptureAssumptions, CaptureInv, [Capture!Next]_(Capture!vars)
    PROVE  CaptureInv' /\ Capture!FlaggedIsHeard
  <1>. USE CaptureParameters
  <1>1. CASE Capture!NextBlock
    BY <1>1, CaptureBlockKeeps
  <1>2. ASSUME NEW who \in Challengers, NEW d \in Domains, NEW accused \in Accusations, NEW stake \in Stakes,
               Capture!SubmitChallenge(who, d, accused, stake)
        PROVE  CaptureInv' /\ height' = height
    BY <1>2, SubmitKeeps DEF Capture!SubmitChallenge
  <1>3. ASSUME NEW k \in DOMAIN ch, Capture!AddEvidence(k)
        PROVE  CaptureInv' /\ height' = height
    BY <1>3, AddEvidenceKeeps DEF Capture!AddEvidence
  <1>4. ASSUME NEW k \in DOMAIN ch, NEW outcome \in Outcomes, Capture!ResolveChallenge(k, outcome)
        PROVE  CaptureInv' /\ height' = height
    BY <1>4, ResolveKeeps DEF Capture!ResolveChallenge
  <1>5. ASSUME NEW d \in Domains, NEW amount \in Gifts, Capture!FundBountyPool(d, amount)
        PROVE  CaptureInv' /\ height' = height
    <2>1. /\ UNCHANGED <<ch, paused, dev, Capture!consequences, height>> /\ amount \in Nat
          /\ held' = held + amount /\ pool' = [pool EXCEPT ![d] = pool[d] + amount]
      BY <1>5 DEF Capture!FundBountyPool, CaptureInv, MoneyOK
    <2>. QED
      BY <2>1, QuietKeeps
  <1>6. ASSUME \/ \E d \in Domains, panel \in Panels : Capture!RecordVerification(d, panel)
               \/ \E d \in Domains : Capture!AnalyzeDomain(d)
               \/ UNCHANGED Capture!vars
        PROVE  CaptureInv' /\ height' = height
    <2>1. UNCHANGED <<ch, paused, dev, Capture!consequences, height>> /\ UNCHANGED <<held, pool>>
      BY <1>6 DEF Capture!RecordVerification, Capture!AnalyzeDomain, Capture!vars, Capture!funds, Capture!consequences, Capture!detection
    <2>. QED
      BY <2>1, QuietKeeps
  <1>7. height' = height => Capture!FlaggedIsHeard
    BY DEF Capture!FlaggedIsHeard
  <1>. QED
    BY <1>1, <1>2, <1>3, <1>4, <1>5, <1>6, <1>7 DEF Capture!Next

\* What the invariant means.
LEMMA CaptureMeans ==
    ASSUME CaptureAssumptions, CaptureInv
    PROVE  /\ Capture!TypeOK /\ Capture!ConsequenceLands /\ Capture!OneAutoChallenge /\ Capture!Spaced
           /\ "rejected" \notin Outcomes /\ Pause > 0 => Capture!Backed /\ Capture!RefundedOnExpiry
  <1>1. Capture!TypeOK
    <2>1. ASSUME NEW k \in DOMAIN ch
          PROVE  /\ k[1] \in Challengers \cup {Protocol} /\ k[2] \in Domains /\ k[3] \in 1 .. height
                 /\ ch[k].status \in {"evidence", "under_review", "resolved", "expired"}
                 /\ ch[k].back \in 0 .. ch[k].stake
      BY DEF CaptureInv, LogOK, ChallengeOK, Challenge
    <2>. QED
      BY <2>1 DEF Capture!TypeOK, CaptureInv, MoneyOK
  <1>2. Capture!StakesOf(ch, {k \in DOMAIN ch : Capture!Active(ch[k])}) = Total(Due(ch))
    BY DueNat DEF CaptureInv
  <1>. QED
    BY <1>1, <1>2, CaptureCounts DEF CaptureInv, FundsOK, Untroubled, Capture!Backed

\* The challenge of a domain: the protocol accuses a domain once at a time and
\* hears every domain it flags, challengers are spaced, and an upheld challenge
\* weighs on the accused to the end of the penalty. As long as none is rejected,
\* and a pause lies between two challenges of a domain, the account holds exactly
\* the pools and the open stakes, and every stake that expires is returned.
THEOREM ChallengesAreHeard ==
    ASSUME CaptureAssumptions
    PROVE  Capture!Spec => /\ [](/\ Capture!TypeOK /\ Capture!ConsequenceLands /\ Capture!OneAutoChallenge /\ Capture!Spaced
                                 /\ "rejected" \notin Outcomes /\ Pause > 0 => Capture!Backed /\ Capture!RefundedOnExpiry)
                           /\ [][Capture!FlaggedIsHeard]_(Capture!vars)
  <1>1. Capture!Init => CaptureInv
    BY CaptureStart
  <1>2. CaptureInv /\ [Capture!Next]_(Capture!vars) => CaptureInv' /\ [Capture!FlaggedIsHeard]_(Capture!vars)
    BY CaptureKept
  <1>3. CaptureInv => /\ Capture!TypeOK /\ Capture!ConsequenceLands /\ Capture!OneAutoChallenge /\ Capture!Spaced
                      /\ "rejected" \notin Outcomes /\ Pause > 0 => Capture!Backed /\ Capture!RefundedOnExpiry
    BY CaptureMeans
  <1>. QED
    BY <1>1, <1>2, <1>3, PTL DEF Capture!Spec

===============================================================================
