------------------------- MODULE ReviewRoundProofs -------------------------
(* Proofs about ReviewRound, for every set of rounds, accounts and payments *)
(* and every value of the other constants.                                  *)
EXTENDS ReviewRound, TotalsProofs, FiniteSetTheorems, WellFoundedInduction, TLAPS

-----------------------------------------------------------------------------
(* Arithmetic of the fee split *)

\* Division of a natural number by a positive one.
LEMMA DivNat ==
    ASSUME NEW a \in Nat, NEW b \in Nat \ {0}
    PROVE  /\ a \div b \in Nat
           /\ a % b \in Nat
  OBVIOUS

\* The review budget never exceeds the payment, so the refundable or retained
\* rest is a natural number.
LEMMA PoolBounds ==
    ASSUME NEW fee \in Nat
    PROVE  /\ verifierPoolFromFee(fee) \in Nat
           /\ verifierPoolFromFee(fee) <= fee
  BY DEF verifierPoolFromFee

\* The budget frozen at admission (safeMulDiv in parts per million) is the one
\* the funding-term validator recomputes: a difference would make every
\* settlement of a claim fail its own validation.
THEOREM BudgetsAgree ==
    ASSUME NEW paid \in Nat
    PROVE  verifierPoolFromFee(paid) = ClaimReviewBudget(paid)
  BY DEF verifierPoolFromFee, ClaimReviewBudget

\* The four shares of a review fee are natural numbers that add up to it: the
\* research remainder is never negative and no unit is lost to rounding.
THEOREM FeeSharesConserve ==
    ASSUME NEW fee \in Nat
    PROVE  LET s == FeeShares(fee)
           IN  /\ s.protocol \in Nat
               /\ s.dev \in Nat
               /\ s.research \in Nat
               /\ verifierPoolFromFee(fee) + s.protocol + s.dev + s.research = fee
  BY DEF verifierPoolFromFee, FeeShares

-----------------------------------------------------------------------------
(* The inductive invariant *)

\* A round exists exactly when its claim was admitted, its reveals start after
\* the commit phase, and obligations are frozen only with the verdict.
RoundShape ==
    \A r \in Rounds :
        /\ claim[r].admitted <=> round[r].phase # "ABSENT"
        /\ round[r].phase \in {"ABSENT", "COMMIT"} => round[r].reveals = << >>
        /\ round[r].phase # "COMPLETE" => round[r].plan = NoPlan /\ round[r].refund = NoRefund

\* The queue walk holds only rounds that are still due, the phase walk only
\* active ones.
WorkList ==
    /\ stage = "pending" => work.todo \subseteq pending
    /\ stage = "advance" => \A r \in work.todo : Active(r)

\* The part that only the records and the ledger of claims decide.
Ledger ==
    /\ RoundShape
    /\ CustodyCovers
    /\ PendingIndexExact
    /\ SettledTogether

IInv == TypeOK /\ WorkList /\ Ledger

-----------------------------------------------------------------------------
(* What settlement does to one record *)

\* A settlement changes the markers and nothing else.
LEMMA SettledFields ==
    ASSUME height \in Nat \ {0}, NEW rd \in RoundType
    PROVE  /\ Settled(rd) \in RoundType
           /\ \A f \in FinalFields : Settled(rd)[f] = rd[f]
           /\ Settled(rd).phase = rd.phase
           /\ Settled(rd).plan = [pool |-> rd.plan.pool, payees |-> rd.plan.payees,
                                  paidAt |-> IF PlanDue(rd) THEN height ELSE rd.plan.paidAt]
           /\ Settled(rd).refund = [amount |-> rd.refund.amount,
                                    paidAt |-> IF RefundDue(rd) THEN height ELSE rd.refund.paidAt]
  <1>. DEFINE p == IF PlanDue(rd) THEN height ELSE rd.plan.paidAt
              f == IF RefundDue(rd) THEN height ELSE rd.refund.paidAt
  <1>1. rd.plan \in PlanType /\ rd.refund \in RefundType
    BY DEF RoundType
  <1>2. p \in Nat /\ f \in Nat
    BY <1>1 DEF PlanType, RefundType
  <1>3. Settled(rd) = [rd EXCEPT !.plan = [@ EXCEPT !.paidAt = p],
                                 !.refund = [@ EXCEPT !.paidAt = f]]
    BY <1>1 DEF Settled, RoundType
  <1>. HIDE DEF p, f
  <1>4. /\ [rd.plan EXCEPT !.paidAt = p] =
              [pool |-> rd.plan.pool, payees |-> rd.plan.payees, paidAt |-> p]
        /\ [rd.refund EXCEPT !.paidAt = f] = [amount |-> rd.refund.amount, paidAt |-> f]
    BY <1>1, <1>2 DEF PlanType, RefundType
  <1>5. /\ [rd.plan EXCEPT !.paidAt = p] \in PlanType
        /\ [rd.refund EXCEPT !.paidAt = f] \in RefundType
    BY <1>1, <1>2 DEF PlanType, RefundType
  <1>. QED
    BY <1>3, <1>4, <1>5 DEF RoundType, FinalFields, p, f

\* A settled record owes nothing, and markers that agreed still agree.
LEMMA SettledFacts ==
    ASSUME height \in Nat \ {0}, NEW rd \in RoundType
    PROVE  /\ ~roundHasPendingFunds(Settled(rd))
           /\ AmountDue(Settled(rd)) = 0
           /\ (HasPlan(rd) /\ HasRefund(rd) => rd.plan.paidAt = rd.refund.paidAt) =>
              (HasPlan(Settled(rd)) /\ HasRefund(Settled(rd)) =>
                 Settled(rd).plan.paidAt = Settled(rd).refund.paidAt)
  <1>. DEFINE s == Settled(rd)
  <1>1. /\ s.plan.payees = rd.plan.payees
        /\ s.plan.paidAt = IF PlanDue(rd) THEN height ELSE rd.plan.paidAt
        /\ s.refund.amount = rd.refund.amount
        /\ s.refund.paidAt = IF RefundDue(rd) THEN height ELSE rd.refund.paidAt
    <2>. DEFINE p == IF PlanDue(rd) THEN height ELSE rd.plan.paidAt
                f == IF RefundDue(rd) THEN height ELSE rd.refund.paidAt
    <2>1. /\ s.plan = [pool |-> rd.plan.pool, payees |-> rd.plan.payees, paidAt |-> p]
          /\ s.refund = [amount |-> rd.refund.amount, paidAt |-> f]
      BY SettledFields, Zenon
    <2>. HIDE DEF s, p, f
    <2>2. /\ s.plan.payees = rd.plan.payees /\ s.plan.paidAt = p
          /\ s.refund.amount = rd.refund.amount /\ s.refund.paidAt = f
      BY <2>1
    <2>. QED
      BY <2>2 DEF p, f
  <1>. HIDE DEF s
  <1>2. ~PlanDue(s) /\ ~RefundDue(s)
    BY <1>1 DEF PlanDue, RefundDue, HasPlan, HasRefund
  <1>3. ~roundHasPendingFunds(s) /\ AmountDue(s) = 0
    BY <1>2 DEF roundHasPendingFunds, AmountDue
  <1>4. ASSUME HasPlan(rd) /\ HasRefund(rd) => rd.plan.paidAt = rd.refund.paidAt,
               HasPlan(s), HasRefund(s)
        PROVE  s.plan.paidAt = s.refund.paidAt
    BY <1>1, <1>4 DEF PlanDue, RefundDue, HasPlan, HasRefund
  <1>. QED
    BY <1>3, <1>4 DEF s

\* The unpaid legs of a record add up to an amount.
LEMMA AmountDueNat ==
    ASSUME NEW rd \in RoundType
    PROVE  AmountDue(rd) \in Nat
  BY DEF AmountDue, RoundType, PlanType, RefundType

\* The number of transfers a record still needs is a natural number.
LEMMA TransferCountNat ==
    ASSUME NEW rd \in RoundType
    PROVE  pendingFundTransferCount(rd) \in Nat
  <1>1. rd.plan.payees \in Seq(Accounts)
    BY DEF RoundType, PlanType
  <1>2. Len(rd.plan.payees) \in Nat
    BY <1>1
  <1>. DEFINE x == IF PlanDue(rd) THEN Len(rd.plan.payees) ELSE 0
              y == IF RefundDue(rd) THEN 1 ELSE 0
  <1>3. x \in Nat /\ y \in Nat
    BY <1>2
  <1>. HIDE DEF x, y
  <1>4. x + y \in Nat
    BY <1>3
  <1>. QED
    BY <1>4 DEF pendingFundTransferCount, x, y

\* What a settlement sends to one account is an amount.
LEMMA LegsToNat ==
    ASSUME NEW rd \in RoundType, NEW c, NEW a \in Accounts
    PROVE  LegsTo(c, rd, a) \in Nat
  <1>1. PlanDue(rd) => ShareOf(rd.plan, a) \in Nat
    <2>. SUFFICES ASSUME PlanDue(rd)
                  PROVE  ShareOf(rd.plan, a) \in Nat
      OBVIOUS
    <2>1. Len(rd.plan.payees) \in Nat \ {0} /\ rd.plan.pool \in Nat
      BY DEF RoundType, PlanType, PlanDue, HasPlan
    <2>2. \A i : Share(rd.plan, i) \in Nat
      BY <2>1, DivNat DEF Share
    <2>. QED
      BY <2>2 DEF ShareOf
  <1>. QED
    BY <1>1 DEF LegsTo, RoundType, RefundType

\* Aggregation returns a verdict of the enum.
LEMMA VerdictType ==
    ASSUME NEW r \in Rounds
    PROVE  AggregateVerdict(r) \in Verdicts
  BY DEF AggregateVerdict, Verdicts

\* Completion freezes exactly the escrow: the review budget goes to the
\* reviewers or, with no reviews, back to the payer, and a deposit returns the
\* rest.
LEMMA CompletedFacts ==
    ASSUME TypeOK, NEW r \in Rounds,
           round[r].plan = NoPlan, round[r].refund = NoRefund
    PROVE  /\ Completed(r) \in RoundType
           /\ Completed(r).phase = "COMPLETE"
           /\ AmountDue(Completed(r)) = Escrowed(claim[r].kind, claim[r].paid)
           /\ Completed(r).plan.paidAt = 0
           /\ Completed(r).refund.paidAt = 0
  <1>. DEFINE c == claim[r]
              rd == round[r]
              pool == verifierPoolFromFee(c.paid)
              amount == RefundableAmount(c) + (IF rd.reveals = << >> THEN pool ELSE 0)
              plan == IF rd.reveals = << >> \/ pool = 0 THEN NoPlan
                      ELSE [pool |-> pool, payees |-> rd.reveals, paidAt |-> 0]
  <1>1. /\ rd \in RoundType
        /\ c.paid \in Nat
        /\ c.kind \in Kinds
        /\ height \in Nat
    BY DEF TypeOK, ClaimType
  <1>2. pool \in Nat /\ pool <= c.paid
    BY <1>1, PoolBounds
  <1>3. amount \in Nat
    BY <1>1, <1>2 DEF RefundableAmount
  <1>4. plan \in PlanType
    BY <1>1, <1>2 DEF NoPlan, RoundType, PlanType
  <1>5. Completed(r) = [rd EXCEPT !.phase = "COMPLETE", !.verdict = AggregateVerdict(r),
                          !.verdictBlock = height, !.plan = plan,
                          !.refund = [amount |-> amount, paidAt |-> 0]]
    BY DEF Completed
  <1>. HIDE DEF plan, amount
  <1>6. /\ Completed(r) \in RoundType
        /\ Completed(r).phase = "COMPLETE"
        /\ Completed(r).plan = plan
        /\ Completed(r).refund = [amount |-> amount, paidAt |-> 0]
    <2>1. [amount |-> amount, paidAt |-> 0] \in RefundType
      BY <1>3 DEF RefundType
    <2>2. AggregateVerdict(r) \in Verdicts
      BY VerdictType
    <2>. HIDE DEF rd
    <2>. QED
      BY <1>1, <1>4, <1>5, <2>1, <2>2 DEF RoundType, Phases
  <1>7. plan.paidAt = 0
    BY DEF plan, NoPlan
  <1>8. AmountDue(Completed(r)) =
          (IF plan.payees # << >> THEN plan.pool ELSE 0) + amount
    BY <1>3, <1>4, <1>6, <1>7 DEF PlanType, AmountDue, PlanDue, RefundDue, HasPlan, HasRefund
  <1>9. (IF plan.payees # << >> THEN plan.pool ELSE 0) =
          (IF rd.reveals = << >> THEN 0 ELSE pool)
    BY <1>2 DEF plan, NoPlan
  <1>10. (IF rd.reveals = << >> THEN 0 ELSE pool) + amount = Escrowed(c.kind, c.paid)
    BY <1>1, <1>2 DEF amount, RefundableAmount, Escrowed, Kinds
  <1>. QED
    BY <1>6, <1>7, <1>8, <1>9, <1>10

-----------------------------------------------------------------------------
(* How a step may touch the ledger *)

\* The invariants of the ledger, for one round.
LedgerOf(c, rd, cu, due) ==
    /\ c.admitted <=> rd.phase # "ABSENT"
    /\ rd.phase \in {"ABSENT", "COMMIT"} => rd.reveals = << >>
    /\ rd.phase # "COMPLETE" => rd.plan = NoPlan /\ rd.refund = NoRefund
    /\ cu = IF ~c.admitted THEN 0
            ELSE IF rd.phase = "COMPLETE" THEN AmountDue(rd)
            ELSE Escrowed(c.kind, c.paid)
    /\ due <=> roundHasPendingFunds(rd)
    /\ HasPlan(rd) /\ HasRefund(rd) => rd.plan.paidAt = rd.refund.paidAt

\* The ledger invariant is a statement about each round by itself.
LEMMA LedgerSplit ==
    ASSUME TypeOK
    PROVE  Ledger <=> \A r \in Rounds : LedgerOf(claim[r], round[r], custody[r], r \in pending)
  <1>1. PendingIndexExact <=> \A r \in Rounds : r \in pending <=> roundHasPendingFunds(round[r])
    BY Zenon DEF TypeOK, PendingIndexExact
  <1>. QED
    BY <1>1 DEF Ledger, LedgerOf, RoundShape, CustodyCovers, Liability, SettledTogether

\* A step that changes no record and no claim money keeps the ledger.
LEMMA LedgerFrame ==
    ASSUME Ledger, UNCHANGED <<claim, round, pending, custody>>
    PROVE  Ledger'
  BY DEF Ledger, RoundShape, CustodyCovers, Liability, PendingIndexExact, SettledTogether

\* A record with nothing frozen owes nothing.
LEMMA NothingFrozen ==
    ASSUME NEW rd, rd.plan = NoPlan, rd.refund = NoRefund
    PROVE  ~roundHasPendingFunds(rd) /\ ~HasPlan(rd) /\ ~HasRefund(rd)
  BY DEF roundHasPendingFunds, PlanDue, RefundDue, HasPlan, HasRefund, NoPlan, NoRefund

\* A step that replaces the record of one round, and what the books say of it.
LEMMA LedgerUpdate ==
    ASSUME TypeOK, TypeOK', Ledger, NEW r \in Rounds, NEW rd, NEW c, NEW cu, NEW due \in BOOLEAN,
           claim' = [claim EXCEPT ![r] = c],
           round' = [round EXCEPT ![r] = rd],
           custody' = [custody EXCEPT ![r] = cu],
           pending' = IF due THEN pending \cup {r} ELSE pending \ {r},
           LedgerOf(c, rd, cu, due)
    PROVE  Ledger'
  <1>. SUFFICES ASSUME NEW q \in Rounds
                PROVE  LedgerOf(claim'[q], round'[q], custody'[q], q \in pending')
    <2>1. PendingIndexExact' <=>
            \A q \in Rounds : q \in pending' <=> roundHasPendingFunds(round'[q])
      BY Zenon DEF TypeOK, PendingIndexExact
    <2>. QED
      BY <2>1 DEF Ledger, LedgerOf, RoundShape, CustodyCovers, Liability, SettledTogether
  <1>1. CASE q = r
    <2>1. claim'[q] = c /\ round'[q] = rd /\ custody'[q] = cu /\ (q \in pending' <=> due)
      BY <1>1 DEF TypeOK
    <2>. QED
      BY <2>1 DEF LedgerOf
  <1>2. CASE q # r
    <2>1. /\ claim'[q] = claim[q] /\ round'[q] = round[q]
          /\ custody'[q] = custody[q] /\ (q \in pending' <=> q \in pending)
      BY <1>2 DEF TypeOK
    <2>2. LedgerOf(claim[q], round[q], custody[q], q \in pending)
      BY LedgerSplit
    <2>. QED
      BY <2>1, <2>2 DEF LedgerOf
  <1>. QED
    BY <1>1, <1>2

\* Paying or owing keeps the books well-typed: the balance covers the payment
\* by the guard, the custody by the ledger.
LEMMA PayType ==
    ASSUME TypeOK, NEW r \in Rounds, NEW rd \in RoundType, NEW bal \in Nat,
           Pay(r, rd, bal), AmountDue(rd) <= custody[r]
    PROVE  /\ round' \in [Rounds -> RoundType]
           /\ pending' \in SUBSET Rounds
           /\ moduleBal' \in Nat
           /\ received' \in [Accounts -> Nat]
           /\ custody' \in [Rounds -> Nat]
  <1>1. Settled(rd) \in RoundType
    BY SettledFields DEF TypeOK
  <1>2. AmountDue(rd) \in Nat
    BY AmountDueNat
  <1>3. round' \in [Rounds -> RoundType]
    BY <1>1 DEF TypeOK, Pay
  <1>4. pending' \in SUBSET Rounds
    BY DEF TypeOK, Pay, SyncPending
  <1>5. moduleBal' \in Nat /\ custody' \in [Rounds -> Nat]
    BY <1>2 DEF TypeOK, Pay
  <1>6. received' \in [Accounts -> Nat]
    <2>1. \A a \in Accounts : LegsTo(claim[r], rd, a) \in Nat
      BY LegsToNat
    <2>2. \A a \in Accounts : received[a] + LegsTo(claim[r], rd, a) \in Nat
      BY <2>1 DEF TypeOK
    <2>. QED
      BY <2>2 DEF Pay
  <1>. QED
    BY <1>3, <1>4, <1>5, <1>6

\* Storing a record whose obligations stay due keeps the books well-typed.
LEMMA OweType ==
    ASSUME TypeOK, NEW r \in Rounds, NEW rd \in RoundType, NEW bal \in Nat, Owe(r, rd, bal)
    PROVE  /\ round' \in [Rounds -> RoundType]
           /\ pending' \in SUBSET Rounds
           /\ moduleBal' \in Nat
           /\ received' \in [Accounts -> Nat]
           /\ custody' \in [Rounds -> Nat]
  BY DEF TypeOK, Owe, SyncPending

\* A decided round whose custody is what it owes keeps the ledger right,
\* whether the bank pays or refuses.
LEMMA PayLedger ==
    ASSUME TypeOK, TypeOK', Ledger, NEW r \in Rounds, NEW rd \in RoundType, NEW bal,
           Pay(r, rd, bal), UNCHANGED claim,
           claim[r].admitted, rd.phase = "COMPLETE", custody[r] = AmountDue(rd),
           HasPlan(rd) /\ HasRefund(rd) => rd.plan.paidAt = rd.refund.paidAt
    PROVE  Ledger'
  <1>. DEFINE s == Settled(rd)
  <1>1. s.phase = "COMPLETE"
    BY SettledFields DEF TypeOK
  <1>2. /\ ~roundHasPendingFunds(s)
        /\ AmountDue(s) = 0
        /\ HasPlan(s) /\ HasRefund(s) => s.plan.paidAt = s.refund.paidAt
    BY SettledFacts DEF TypeOK
  <1>3. custody' = [custody EXCEPT ![r] = 0]
    <2>1. AmountDue(rd) \in Nat
      BY AmountDueNat
    <2>2. custody[r] - AmountDue(rd) = 0
      BY <2>1
    <2>. QED
      BY <2>2 DEF Pay
  <1>4. round' = [round EXCEPT ![r] = s] /\ pending' = pending \ {r}
    BY <1>2 DEF Pay, SyncPending
  <1>5. claim' = [claim EXCEPT ![r] = claim[r]]
    BY DEF TypeOK
  <1>. HIDE DEF s
  <1>6. LedgerOf(claim[r], s, 0, FALSE)
    BY <1>1, <1>2 DEF LedgerOf
  <1>. QED
    BY <1>3, <1>4, <1>5, <1>6, LedgerUpdate

\* The refusing half of PayLedger: the whole amount stays due and in custody.
LEMMA OweLedger ==
    ASSUME TypeOK, TypeOK', Ledger, NEW r \in Rounds, NEW rd \in RoundType, NEW bal,
           Owe(r, rd, bal), UNCHANGED claim,
           claim[r].admitted, rd.phase = "COMPLETE", custody[r] = AmountDue(rd),
           HasPlan(rd) /\ HasRefund(rd) => rd.plan.paidAt = rd.refund.paidAt
    PROVE  Ledger'
  <1>1. /\ round' = [round EXCEPT ![r] = rd]
        /\ claim' = [claim EXCEPT ![r] = claim[r]]
        /\ custody' = [custody EXCEPT ![r] = custody[r]]
    BY DEF Owe, TypeOK
  <1>2. CASE roundHasPendingFunds(rd)
    <2>1. pending' = pending \cup {r} /\ LedgerOf(claim[r], rd, custody[r], TRUE)
      BY <1>2 DEF Owe, SyncPending, LedgerOf
    <2>. QED
      BY <1>1, <2>1, LedgerUpdate
  <1>3. CASE ~roundHasPendingFunds(rd)
    <2>1. pending' = pending \ {r} /\ LedgerOf(claim[r], rd, custody[r], FALSE)
      BY <1>3 DEF Owe, SyncPending, LedgerOf
    <2>. QED
      BY <1>1, <2>1, LedgerUpdate
  <1>. QED
    BY <1>2, <1>3

\* A step of a running review touches neither obligations nor money.
LEMMA EditLedger ==
    ASSUME TypeOK, TypeOK', Ledger, NEW r \in Rounds, NEW rd \in RoundType,
           round' = [round EXCEPT ![r] = rd], UNCHANGED <<claim, pending, custody>>,
           Active(r), rd.phase \in {"COMMIT", "REVEAL", "AGGREGATION"},
           rd.phase = "COMMIT" => rd.reveals = << >>,
           rd.plan = round[r].plan, rd.refund = round[r].refund
    PROVE  Ledger'
  <1>1. LedgerOf(claim[r], round[r], custody[r], r \in pending)
    BY LedgerSplit
  <1>2. ~roundHasPendingFunds(round[r]) /\ ~roundHasPendingFunds(rd) /\ ~HasPlan(rd)
    BY <1>1, NothingFrozen DEF LedgerOf, Active
  <1>3. /\ claim' = [claim EXCEPT ![r] = claim[r]]
        /\ custody' = [custody EXCEPT ![r] = custody[r]]
        /\ pending' = pending \ {r}
    BY <1>1, <1>2 DEF TypeOK, LedgerOf
  <1>4. LedgerOf(claim[r], rd, custody[r], FALSE)
    BY <1>1, <1>2 DEF LedgerOf, Active
  <1>. QED
    BY <1>3, <1>4, LedgerUpdate

-----------------------------------------------------------------------------
(* Every step preserves the inductive invariant *)

\* The record of a round that does not exist yet is well-typed.
LEMMA NoRoundType ==
    /\ NoRound \in RoundType
    /\ NoRound.reveals = << >>
    /\ NoRound.plan = NoPlan
    /\ NoRound.refund = NoRefund
  <1>1. NoPlan \in PlanType /\ NoRefund \in RefundType
    BY DEF NoPlan, NoRefund, PlanType, RefundType
  <1>. QED
    BY <1>1 DEF NoRound, RoundType, Phases, Verdicts

\* An empty store satisfies the inductive invariant.
LEMMA InitInv == Init => IInv
  <1>. SUFFICES ASSUME Init PROVE IInv
    OBVIOUS
  <1>1. NoClaim \in ClaimType
    BY DEF NoClaim, ClaimType, Kinds
  <1>4. TypeOK
    BY <1>1, NoRoundType DEF Init, TypeOK, Idle, NoBounty
  <1>5. WorkList
    BY DEF Init, WorkList
  <1>6. ASSUME NEW r \in Rounds
        PROVE  LedgerOf(claim[r], round[r], custody[r], r \in pending)
    <2>1. /\ claim[r].admitted = FALSE /\ round[r].phase = "ABSENT" /\ custody[r] = 0
          /\ r \notin pending /\ round[r].plan = NoPlan /\ round[r].refund = NoRefund
          /\ round[r].reveals = << >>
      BY DEF Init, NoClaim, NoRound
    <2>2. ~roundHasPendingFunds(round[r]) /\ ~HasPlan(round[r])
      BY <2>1, NothingFrozen
    <2>. QED
      BY <2>1, <2>2 DEF LedgerOf
  <1>. QED
    BY <1>4, <1>5, <1>6, LedgerSplit DEF IInv

\* Admission (SubmitClaim, SubmitDispute) puts into custody what the new
\* round owes.
LEMMA AdmitInv ==
    ASSUME IInv, NEW r \in Rounds, NEW kind \in Kinds, NEW paid \in Payments,
           NEW s \in Accounts, NEW d \in Accounts \cup {None}, NEW answers \in BOOLEAN,
           Admit(r, kind, paid, s, d, answers)
    PROVE  IInv'
  <1>. DEFINE c == [admitted |-> TRUE, kind |-> kind, paid |-> paid,
                    submitter |-> s, defender |-> d, answers |-> answers]
              rd == [NoRound EXCEPT !.phase = "COMMIT", !.start = height]
              cu == Escrowed(kind, paid)
  <1>1. paid \in Nat /\ cu \in Nat
    BY PaymentsAssumption, PoolBounds DEF Escrowed
  <1>2. c \in ClaimType
    BY <1>1 DEF ClaimType
  <1>3. height \in Nat
    BY DEF IInv, TypeOK
  <1>4. /\ rd \in RoundType /\ rd.phase = "COMMIT" /\ rd.reveals = << >>
        /\ rd.plan = NoPlan /\ rd.refund = NoRefund
    BY <1>3, NoRoundType DEF RoundType, Phases
  <1>5. /\ claim' = [claim EXCEPT ![r] = c]
        /\ round' = [round EXCEPT ![r] = rd]
        /\ custody' = [custody EXCEPT ![r] = cu]
        /\ moduleBal' = moduleBal + cu
        /\ UNCHANGED <<height, stage, work, minVerifiers, pending, cursor, received, bounty>>
        /\ ~claim[r].admitted /\ stage = "txs"
    BY DEF Admit
  <1>. HIDE DEF c, rd, cu
  <1>6. TypeOK'
    BY <1>1, <1>2, <1>4, <1>5 DEF IInv, TypeOK
  <1>7. WorkList'
    BY <1>5 DEF WorkList
  <1>8. pending' = pending \ {r}
    <2>1. LedgerOf(claim[r], round[r], custody[r], r \in pending)
      BY LedgerSplit DEF IInv
    <2>2. ~roundHasPendingFunds(round[r])
      BY <1>5, <2>1, NothingFrozen DEF LedgerOf
    <2>. QED
      BY <1>5, <2>1, <2>2 DEF LedgerOf
  <1>9. LedgerOf(c, rd, cu, FALSE)
    <2>1. c.admitted /\ c.kind = kind /\ c.paid = paid
      BY DEF c
    <2>2. ~roundHasPendingFunds(rd) /\ ~HasPlan(rd)
      BY <1>4, NothingFrozen
    <2>. QED
      BY <1>4, <2>1, <2>2 DEF LedgerOf, cu
  <1>10. Ledger'
    BY <1>5, <1>6, <1>8, <1>9, LedgerUpdate DEF IInv
  <1>. QED
    BY <1>6, <1>7, <1>10 DEF IInv

\* SubmitCommitment changes only votes of a running round.
LEMMA CommitmentInv ==
    ASSUME IInv, NEW r \in Rounds, NEW v \in Accounts, NEW vote \in VoteOptions,
           SubmitCommitment(r, v, vote)
    PROVE  IInv'
  <1>. DEFINE rd == [round[r] EXCEPT !.commits[v] = vote]
  <1>1. round[r] \in RoundType /\ round[r].reveals = << >>
    BY DEF IInv, TypeOK, Ledger, RoundShape, SubmitCommitment
  <1>2. /\ rd \in RoundType /\ rd.phase = round[r].phase /\ rd.reveals = round[r].reveals
        /\ rd.plan = round[r].plan /\ rd.refund = round[r].refund
    BY <1>1 DEF RoundType
  <1>3. round' = [round EXCEPT ![r] = rd]
    BY <1>1 DEF SubmitCommitment, IInv, TypeOK
  <1>. HIDE DEF rd
  <1>4. TypeOK'
    BY <1>2, <1>3 DEF IInv, TypeOK, SubmitCommitment, books
  <1>5. WorkList'
    BY DEF WorkList, SubmitCommitment
  <1>6. Ledger'
    <2>1. Active(r) /\ rd.phase = "COMMIT" /\ UNCHANGED <<claim, pending, custody>>
      BY <1>2 DEF SubmitCommitment, books, Active
    <2>2. rd.phase = "COMMIT" => rd.reveals = << >>
      BY <1>1, <1>2, <2>1
    <2>. QED
      BY <1>2, <1>3, <1>4, <2>1, <2>2, EditLedger DEF IInv
  <1>. QED
    BY <1>4, <1>5, <1>6 DEF IInv

\* SubmitReveal changes only reveals of a running round.
LEMMA RevealInv ==
    ASSUME IInv, NEW r \in Rounds, NEW v \in Accounts, SubmitReveal(r, v)
    PROVE  IInv'
  <1>. DEFINE rd == [round[r] EXCEPT !.reveals = Append(@, v)]
  <1>1. round[r] \in RoundType
    BY DEF IInv, TypeOK
  <1>2. /\ rd \in RoundType /\ rd.phase = round[r].phase
        /\ rd.plan = round[r].plan /\ rd.refund = round[r].refund
    <2>1. Append(round[r].reveals, v) \in Seq(Accounts)
      BY <1>1 DEF RoundType
    <2>. QED
      BY <1>1, <2>1 DEF RoundType
  <1>3. round' = [round EXCEPT ![r] = rd]
    BY <1>1 DEF SubmitReveal, IInv, TypeOK
  <1>. HIDE DEF rd
  <1>4. TypeOK'
    BY <1>2, <1>3 DEF IInv, TypeOK, SubmitReveal, books
  <1>5. WorkList'
    BY DEF WorkList, SubmitReveal
  <1>6. Ledger'
    <2>1. Active(r) /\ rd.phase = "REVEAL" /\ UNCHANGED <<claim, pending, custody>>
      BY <1>2 DEF SubmitReveal, books, Active
    <2>2. rd.phase = "COMMIT" => rd.reveals = << >>
      BY <1>2, <2>1
    <2>. QED
      BY <1>2, <1>3, <1>4, <2>1, <2>2, EditLedger DEF IInv
  <1>. QED
    BY <1>4, <1>5, <1>6 DEF IInv

\* Steps that leave records and claim money alone.
LEMMA QuietInv ==
    ASSUME IInv, \/ \E m \in MinVerifiersChoices : UpdateParams(m)
                 \/ NextBlock
                 \/ \E r \in Rounds : PendingStop(r)
                 \/ PendingDone
                 \/ \E r \in Rounds : KeepPhase(r)
                 \/ AdvanceDone
                 \/ ProcessDemandBounties
                 \/ ProcessExpiredBounties
    PROVE  IInv'
  <1>. USE DEF books
  <1>. SUFFICES TypeOK' /\ WorkList' /\ UNCHANGED <<claim, round, pending, custody>>
    BY LedgerFrame DEF IInv
  <1>1. ASSUME NEW m \in MinVerifiersChoices, UpdateParams(m)
        PROVE  TypeOK' /\ WorkList' /\ UNCHANGED <<claim, round, pending, custody>>
    BY <1>1 DEF IInv, TypeOK, WorkList, UpdateParams
  <1>2. CASE NextBlock
    <2>1. FirstKeys({r \in pending : r > cursor}, PendingBatchSize) \subseteq pending
      BY DEF FirstKeys
    <2>2. PendingTransferBudget \in Nat
      BY BoundsAssumption DEF PendingTransferBudget
    <2>3. (Cardinality({r \in pending : r > cursor}) <= PendingBatchSize) \in BOOLEAN
      <3>1. Cardinality({r \in pending : r > cursor}) \in Nat
        BY RoundsAssumption, FS_Subset, FS_CardinalityType DEF IInv, TypeOK
      <3>. QED
        BY <3>1, BoundsAssumption
    <2>4. /\ work'.todo = FirstKeys({r \in pending : r > cursor}, PendingBatchSize)
          /\ work' \in [todo : SUBSET Rounds, budget : Nat, last : Nat, exhausted : BOOLEAN]
      BY <1>2, <2>1, <2>2, <2>3 DEF IInv, TypeOK, NextBlock
    <2>5. TypeOK'
      BY <1>2, <2>4 DEF IInv, TypeOK, NextBlock
    <2>6. WorkList'
      BY <1>2, <2>1, <2>4 DEF WorkList, NextBlock
    <2>. QED
      BY <1>2, <2>5, <2>6 DEF NextBlock
  <1>3. ASSUME NEW r \in Rounds, PendingStop(r)
        PROVE  TypeOK' /\ WorkList' /\ UNCHANGED <<claim, round, pending, custody>>
    BY <1>3 DEF IInv, TypeOK, WorkList, PendingStop
  <1>4. CASE PendingDone
    <2>1. /\ work' \in [todo : SUBSET Rounds, budget : Nat, last : Nat, exhausted : BOOLEAN]
          /\ work'.todo = {r \in Rounds : Active(r)}
      BY <1>4 DEF PendingDone, Idle
    <2>2. TypeOK'
      BY <1>4, <2>1 DEF IInv, TypeOK, PendingDone
    <2>3. WorkList'
      BY <1>4, <2>1 DEF WorkList, PendingDone, Active
    <2>. QED
      BY <1>4, <2>2, <2>3 DEF PendingDone
  <1>5. ASSUME NEW r \in Rounds, KeepPhase(r)
        PROVE  TypeOK' /\ WorkList' /\ UNCHANGED <<claim, round, pending, custody>>
    BY <1>5 DEF IInv, TypeOK, WorkList, KeepPhase, Visited, Active
  <1>6. CASE AdvanceDone
    BY <1>6 DEF IInv, TypeOK, WorkList, AdvanceDone, Idle
  <1>7. CASE ProcessDemandBounties
    <2>1. moduleBal' \in Nat /\ bounty' \in [open : BOOLEAN, expires : Nat]
      <3>1. moduleBal \in Nat /\ bounty \in [open : BOOLEAN, expires : Nat] /\ height \in Nat
        BY DEF IInv, TypeOK
      <3>2. CASE UNCHANGED <<moduleBal, bounty>>
        BY <3>1, <3>2
      <3>3. CASE /\ bounty' = [open |-> TRUE, expires |-> height + BountyLifetime]
                 /\ moduleBal' = moduleBal + BountyReward
        <4>1. height + BountyLifetime \in Nat /\ moduleBal + BountyReward \in Nat
          BY <3>1, BoundsAssumption
        <4>. QED
          BY <3>3, <4>1
      <3>. QED
        BY <1>7, <3>2, <3>3 DEF ProcessDemandBounties
    <2>2. TypeOK' /\ WorkList'
      BY <1>7, <2>1 DEF IInv, TypeOK, WorkList, ProcessDemandBounties
    <2>. QED
      BY <1>7, <2>2 DEF ProcessDemandBounties
  <1>8. CASE ProcessExpiredBounties
    <2>1. moduleBal' \in Nat /\ bounty' \in [open : BOOLEAN, expires : Nat]
      <3>1. moduleBal \in Nat /\ bounty \in [open : BOOLEAN, expires : Nat]
        BY DEF IInv, TypeOK
      <3>2. CASE UNCHANGED <<moduleBal, bounty>>
        BY <3>1, <3>2
      <3>3. CASE /\ moduleBal >= BountyReward
                 /\ bounty' = NoBounty
                 /\ moduleBal' = moduleBal - BountyReward
        <4>1. moduleBal - BountyReward \in Nat
          BY <3>1, <3>3, BoundsAssumption
        <4>. QED
          BY <3>3, <4>1 DEF NoBounty
      <3>. QED
        BY <1>8, <3>2, <3>3 DEF ProcessExpiredBounties
    <2>2. TypeOK' /\ WorkList'
      BY <1>8, <2>1 DEF IInv, TypeOK, WorkList, ProcessExpiredBounties
    <2>. QED
      BY <1>8, <2>2 DEF ProcessExpiredBounties
  <1>. QED
    BY <1>1, <1>2, <1>3, <1>4, <1>5, <1>6, <1>7, <1>8

\* A round the queue holds is decided, and its custody is what it owes.
LEMMA DueRound ==
    ASSUME IInv, NEW r \in Rounds, r \in pending
    PROVE  /\ claim[r].admitted
           /\ round[r] \in RoundType
           /\ round[r].phase = "COMPLETE"
           /\ custody[r] = AmountDue(round[r])
           /\ HasPlan(round[r]) /\ HasRefund(round[r]) =>
                round[r].plan.paidAt = round[r].refund.paidAt
  <1>1. LedgerOf(claim[r], round[r], custody[r], r \in pending)
    BY LedgerSplit DEF IInv
  <1>2. round[r].phase = "COMPLETE"
    BY <1>1, NothingFrozen DEF LedgerOf
  <1>3. round[r] \in RoundType
    BY DEF IInv, TypeOK
  <1>. QED
    BY <1>1, <1>2, <1>3 DEF LedgerOf

\* The queue walk pays the whole round or leaves the whole round due.
LEMMA PendingInv ==
    ASSUME IInv, NEW r \in Rounds, PendingPaid(r) \/ PendingUnpaid(r)
    PROVE  IInv'
  <1>1. /\ PendingTried(r)
        /\ Pay(r, round[r], moduleBal) \/ Owe(r, round[r], moduleBal)
    BY DEF PendingPaid, PendingUnpaid
  <1>2. r \in pending
    BY <1>1 DEF IInv, WorkList, PendingTried, IsNext
  <1>3. AmountDue(round[r]) \in Nat /\ AmountDue(round[r]) <= custody[r]
    BY <1>2, DueRound, AmountDueNat
  <1>4. /\ round' \in [Rounds -> RoundType]
        /\ pending' \in SUBSET Rounds
        /\ moduleBal' \in Nat
        /\ received' \in [Accounts -> Nat]
        /\ custody' \in [Rounds -> Nat]
    BY <1>1, <1>2, <1>3, DueRound, PayType, OweType DEF IInv, TypeOK
  <1>5. TypeOK'
    <2>1. pendingFundTransferCount(round[r]) \in Nat
      BY <1>2, DueRound, TransferCountNat
    <2>2. work' \in [todo : SUBSET Rounds, budget : Nat, last : Nat, exhausted : BOOLEAN]
      <3>1. r \in Nat
        BY RoundsAssumption
      <3>2. /\ work.budget \in Nat
            /\ work.budget - pendingFundTransferCount(round[r]) \in Nat
        BY <1>1, <2>1 DEF IInv, TypeOK, PendingTried
      <3>. QED
        BY <1>1, <3>1, <3>2 DEF IInv, TypeOK, PendingTried
    <2>. QED
      BY <1>1, <1>4, <2>2 DEF IInv, TypeOK, PendingTried
  <1>6. WorkList'
    <2>1. pending \ {r} \subseteq pending'
      BY <1>1 DEF Pay, Owe, SyncPending
    <2>2. work'.todo = work.todo \ {r} /\ stage = "pending" /\ stage' = stage
      BY <1>1 DEF IInv, TypeOK, PendingTried
    <2>. QED
      BY <2>1, <2>2 DEF IInv, WorkList
  <1>7. Ledger'
    BY <1>1, <1>2, <1>5, DueRound, PayLedger, OweLedger DEF IInv, PendingTried
  <1>. QED
    BY <1>5, <1>6, <1>7 DEF IInv

\* A transition of AdvanceRoundPhases that decides nothing.
LEMMA TransitionInv ==
    ASSUME IInv, NEW r \in Rounds, OpenReveal(r) \/ CompleteFails(r)
    PROVE  IInv'
  <1>. USE DEF books
  <1>1. PICK ph \in {"COMMIT", "REVEAL", "AGGREGATION"} :
          /\ round' = [round EXCEPT ![r].phase = ph]
          /\ ph = "COMMIT" => round[r].phase = "COMMIT"
    <2>1. Active(r)
      BY DEF IInv, WorkList, OpenReveal, CompleteFails, Visited, IsNext
    <2>2. CASE OpenReveal(r)
      BY <2>2 DEF OpenReveal
    <2>3. CASE CompleteFails(r)
      BY <2>1, <2>3 DEF CompleteFails, StoredPhase, Active
    <2>. QED
      BY <2>2, <2>3
  <1>2. Visited(r) /\ UNCHANGED <<pending, books>> /\ Active(r)
    BY DEF IInv, WorkList, OpenReveal, CompleteFails, Visited, IsNext
  <1>. DEFINE rd == [round[r] EXCEPT !.phase = ph]
  <1>3. round[r] \in RoundType
    BY DEF IInv, TypeOK
  <1>4. /\ rd \in RoundType /\ rd.phase = ph /\ rd.reveals = round[r].reveals
        /\ rd.plan = round[r].plan /\ rd.refund = round[r].refund
    BY <1>3 DEF RoundType, Phases
  <1>5. round' = [round EXCEPT ![r] = rd]
    BY <1>1, <1>3 DEF IInv, TypeOK
  <1>6. ph = "COMMIT" => rd.reveals = << >>
    BY <1>1, <1>4 DEF IInv, Ledger, RoundShape
  <1>. HIDE DEF rd
  <1>7. TypeOK'
    BY <1>2, <1>4, <1>5 DEF IInv, TypeOK, Visited
  <1>8. WorkList'
    <2>1. \A q \in Rounds : q # r => round'[q] = round[q]
      BY <1>5 DEF IInv, TypeOK
    <2>2. work'.todo = work.todo \ {r} /\ stage = "advance" /\ stage' = stage
      BY <1>2 DEF IInv, TypeOK, Visited
    <2>. QED
      BY <2>1, <2>2 DEF IInv, TypeOK, WorkList, Active
  <1>9. Ledger'
    BY <1>2, <1>4, <1>5, <1>6, <1>7, EditLedger DEF IInv, Visited
  <1>. QED
    BY <1>7, <1>8, <1>9 DEF IInv

\* CompleteRound freezes exactly what admission put into custody.
LEMMA CompletionInv ==
    ASSUME IInv, NEW r \in Rounds, CompletePaid(r) \/ CompleteOwing(r)
    PROVE  IInv'
  <1>1. PICK taken \in {FALSE, BountyMatches(r)} :
          /\ bounty' = BountyAfter(taken)
          /\ \/ Pay(r, Completed(r), BalanceAfter(taken))
             \/ Owe(r, Completed(r), BalanceAfter(taken))
    BY DEF CompletePaid, CompleteOwing
  <1>2. Visited(r) /\ Active(r)
    BY DEF IInv, WorkList, CompletePaid, CompleteOwing, CompleteRound, Visited, IsNext
  <1>3. /\ claim[r].admitted /\ round[r].plan = NoPlan /\ round[r].refund = NoRefund
        /\ custody[r] = Escrowed(claim[r].kind, claim[r].paid)
    <2>1. LedgerOf(claim[r], round[r], custody[r], r \in pending)
      BY LedgerSplit DEF IInv
    <2>. QED
      BY <1>2, <2>1 DEF LedgerOf, Active
  <1>4. /\ Completed(r) \in RoundType
        /\ Completed(r).phase = "COMPLETE"
        /\ AmountDue(Completed(r)) = custody[r]
        /\ Completed(r).plan.paidAt = Completed(r).refund.paidAt
    BY <1>3, CompletedFacts DEF IInv
  <1>5. BalanceAfter(taken) \in Nat /\ bounty' \in [open : BOOLEAN, expires : Nat]
    <2>1. /\ moduleBal \in Nat /\ bounty \in [open : BOOLEAN, expires : Nat]
          /\ BountyReward \in Nat
      BY BoundsAssumption DEF IInv, TypeOK
    <2>2. CASE taken = FALSE
      BY <1>1, <2>1, <2>2 DEF BalanceAfter, BountyAfter
    <2>3. CASE taken = BountyMatches(r) /\ taken
      BY <1>1, <2>1, <2>3 DEF BalanceAfter, BountyAfter, BountyMatches, NoBounty
    <2>. QED
      BY <2>2, <2>3 DEF BountyMatches
  <1>6. AmountDue(Completed(r)) <= custody[r]
    BY <1>4 DEF IInv, TypeOK
  <1>7. /\ round' \in [Rounds -> RoundType]
        /\ pending' \in SUBSET Rounds
        /\ moduleBal' \in Nat
        /\ received' \in [Accounts -> Nat]
        /\ custody' \in [Rounds -> Nat]
    BY <1>1, <1>4, <1>5, <1>6, PayType, OweType DEF IInv
  <1>8. TypeOK'
    BY <1>2, <1>5, <1>7 DEF IInv, TypeOK, Visited
  <1>9. WorkList'
    <2>1. \A q \in Rounds : q # r => round'[q] = round[q]
      BY <1>1 DEF IInv, TypeOK, Pay, Owe
    <2>2. work'.todo = work.todo \ {r} /\ stage = "advance" /\ stage' = stage
      BY <1>2 DEF IInv, TypeOK, Visited
    <2>. QED
      BY <2>1, <2>2 DEF IInv, TypeOK, WorkList, Active
  <1>10. Ledger'
    BY <1>1, <1>2, <1>3, <1>4, <1>8, PayLedger, OweLedger DEF IInv, Visited
  <1>. QED
    BY <1>8, <1>9, <1>10 DEF IInv

\* The inductive step: one case per action of Next.
LEMMA NextInv == IInv /\ [Next]_vars => IInv'
  <1>. SUFFICES ASSUME IInv, [Next]_vars PROVE IInv'
    OBVIOUS
  <1>1. ASSUME NEW r \in Rounds, SubmitClaim(r) PROVE IInv'
    BY <1>1, AdmitInv DEF SubmitClaim, Kinds
  <1>2. ASSUME NEW r \in Rounds, SubmitDispute(r) PROVE IInv'
    BY <1>2, AdmitInv DEF SubmitDispute, Kinds
  <1>3. CASE UNCHANGED vars
    <2>1. Ledger'
      BY <1>3, LedgerFrame DEF IInv, vars
    <2>2. TypeOK' /\ WorkList'
      BY <1>3 DEF IInv, TypeOK, WorkList, Active, vars
    <2>. QED
      BY <2>1, <2>2 DEF IInv
  <1>. QED
    BY <1>1, <1>2, <1>3, CommitmentInv, RevealInv, QuietInv, PendingInv, TransitionInv,
       CompletionInv DEF Next, Tx, Block, PendingStep, AdvanceStep

-----------------------------------------------------------------------------
(* Theorems of the specification *)

\* The inductive invariant holds in every reachable state.
THEOREM Invariance == Spec => []IInv
  BY InitInv, NextInv, PTL DEF Spec

\* Every variable keeps the shape of the stored records, in particular no
\* settlement takes more than the custody of its own claim.
THEOREM TypeCorrect == Spec => []TypeOK
  BY Invariance, PTL DEF IInv

\* For any number of rounds and any payments, the money a claim still has in
\* the module account is exactly what it is still owed.
THEOREM CustodyIsExact == Spec => []CustodyCovers
  BY Invariance, PTL DEF IInv, Ledger

\* The retry queue lists exactly the rounds with an unpaid obligation.
THEOREM QueueIsExact == Spec => []PendingIndexExact
  BY Invariance, PTL DEF IInv, Ledger

\* Reviewer payments and refund of a round are marked paid in one block.
THEOREM LegsAreAtomic == Spec => []SettledTogether
  BY Invariance, PTL DEF IInv, Ledger

-----------------------------------------------------------------------------
(* Action properties *)

\* What one step may do to the record of one round.
LEMMA StepOfRound ==
    ASSUME IInv, [Next]_vars, NEW q \in Rounds
    PROVE  \/ round'[q] = round[q]
           \/ ~claim[q].admitted
           \/ /\ Active(q)
              /\ \E ph \in {"COMMIT", "REVEAL", "AGGREGATION"} :
                    /\ round'[q] = [round[q] EXCEPT !.phase = ph]
                    /\ PhaseRank[round[q].phase] <= PhaseRank[ph]
           \/ /\ round[q].phase = "COMMIT"
              /\ \E v \in Accounts, vote \in VoteOptions :
                    round'[q] = [round[q] EXCEPT !.commits[v] = vote]
           \/ /\ round[q].phase = "REVEAL"
              /\ \E v \in Accounts : round'[q] = [round[q] EXCEPT !.reveals = Append(@, v)]
           \/ Active(q) /\ round'[q] \in {Completed(q), Settled(Completed(q))}
           \/ q \in pending /\ round'[q] = Settled(round[q])
  <1>. USE DEF IInv, TypeOK
  <1>1. CASE round' = round
    BY <1>1
  <1>2. ASSUME NEW r \in Rounds, SubmitClaim(r) \/ SubmitDispute(r)
        PROVE  ~claim[q].admitted \/ round'[q] = round[q]
    BY <1>2 DEF SubmitClaim, SubmitDispute, Admit
  <1>3. ASSUME NEW r \in Rounds, NEW v \in Accounts, NEW vote \in VoteOptions,
               SubmitCommitment(r, v, vote)
        PROVE  \/ round'[q] = round[q]
               \/ round[q].phase = "COMMIT" /\ round'[q] = [round[q] EXCEPT !.commits[v] = vote]
    BY <1>3 DEF SubmitCommitment
  <1>4. ASSUME NEW r \in Rounds, NEW v \in Accounts, SubmitReveal(r, v)
        PROVE  \/ round'[q] = round[q]
               \/ round[q].phase = "REVEAL" /\ round'[q] = [round[q] EXCEPT !.reveals = Append(@, v)]
    BY <1>4 DEF SubmitReveal
  <1>5. ASSUME NEW r \in Rounds, PendingPaid(r) \/ PendingUnpaid(r)
        PROVE  round'[q] = round[q] \/ (q \in pending /\ round'[q] = Settled(round[q]))
    BY <1>5 DEF PendingPaid, PendingUnpaid, PendingTried, IsNext, WorkList, Pay, Owe
  <1>6. ASSUME NEW r \in Rounds, OpenReveal(r) \/ CompleteFails(r)
        PROVE  \/ round'[q] = round[q]
               \/ /\ Active(q)
                  /\ \E ph \in {"COMMIT", "REVEAL", "AGGREGATION"} :
                        /\ round'[q] = [round[q] EXCEPT !.phase = ph]
                        /\ PhaseRank[round[q].phase] <= PhaseRank[ph]
    <2>1. Active(r)
      BY <1>6 DEF WorkList, OpenReveal, CompleteFails, Visited, IsNext
    <2>2. CASE OpenReveal(r)
      BY <2>1, <2>2 DEF OpenReveal, PhaseRank
    <2>3. CASE CompleteFails(r)
      BY <2>1, <2>3 DEF CompleteFails, StoredPhase, Active, PhaseRank
    <2>. QED
      BY <1>6, <2>2, <2>3
  <1>7. ASSUME NEW r \in Rounds, CompletePaid(r) \/ CompleteOwing(r)
        PROVE  \/ round'[q] = round[q]
               \/ Active(q) /\ round'[q] \in {Completed(q), Settled(Completed(q))}
    <2>1. Active(r)
      BY <1>7 DEF WorkList, CompletePaid, CompleteOwing, CompleteRound, Visited, IsNext
    <2>2. CASE CompletePaid(r)
      <3>1. round' = [round EXCEPT ![r] = Settled(Completed(r))]
        BY <2>2 DEF CompletePaid, Pay
      <3>. QED
        BY <2>1, <3>1
    <2>3. CASE CompleteOwing(r)
      <3>1. round' = [round EXCEPT ![r] = Completed(r)]
        BY <2>3 DEF CompleteOwing, Owe
      <3>. QED
        BY <2>1, <3>1
    <2>. QED
      BY <1>7, <2>2, <2>3
  <1>8. ASSUME \/ UNCHANGED vars \/ NextBlock \/ PendingDone \/ AdvanceDone
               \/ ProcessDemandBounties \/ ProcessExpiredBounties
               \/ \E m \in MinVerifiersChoices : UpdateParams(m)
               \/ \E r \in Rounds : PendingStop(r) \/ KeepPhase(r)
        PROVE  round' = round
    BY <1>8 DEF vars, NextBlock, PendingDone, AdvanceDone, ProcessDemandBounties,
                ProcessExpiredBounties, UpdateParams, PendingStop, KeepPhase
  <1>. QED
    BY <1>1, <1>2, <1>3, <1>4, <1>5, <1>6, <1>7, <1>8
       DEF Next, Tx, Block, PendingStep, AdvanceStep

\* A settlement writes a marker only where none is.
LEMMA SettledOnce ==
    ASSUME height \in Nat \ {0}, NEW rd \in RoundType
    PROVE  /\ Settled(rd).plan.pool = rd.plan.pool
           /\ Settled(rd).plan.payees = rd.plan.payees
           /\ Settled(rd).refund.amount = rd.refund.amount
           /\ rd.plan.paidAt # 0 => Settled(rd).plan.paidAt = rd.plan.paidAt
           /\ rd.refund.paidAt # 0 => Settled(rd).refund.paidAt = rd.refund.paidAt
  <1>. DEFINE p == IF PlanDue(rd) THEN height ELSE rd.plan.paidAt
              f == IF RefundDue(rd) THEN height ELSE rd.refund.paidAt
              s == Settled(rd)
  <1>1. /\ s.plan = [pool |-> rd.plan.pool, payees |-> rd.plan.payees, paidAt |-> p]
        /\ s.refund = [amount |-> rd.refund.amount, paidAt |-> f]
    BY SettledFields, Zenon
  <1>2. /\ rd.plan.paidAt # 0 => p = rd.plan.paidAt
        /\ rd.refund.paidAt # 0 => f = rd.refund.paidAt
    BY DEF PlanDue, RefundDue
  <1>. HIDE DEF p, f, s
  <1>3. /\ s.plan.pool = rd.plan.pool /\ s.plan.payees = rd.plan.payees
        /\ s.refund.amount = rd.refund.amount
        /\ s.plan.paidAt = p /\ s.refund.paidAt = f
    BY <1>1
  <1>. QED
    BY <1>2, <1>3 DEF s

\* No step touches the decision of a completed round.
LEMMA StepFrozen ==
    ASSUME IInv, [Next]_vars, NEW q \in Rounds
    PROVE  Frozen(q)
  <1>. SUFFICES ASSUME round[q].phase = "COMPLETE"
                PROVE  Frozen(q)
    BY DEF Frozen
  <1>1. claim[q].admitted /\ ~Active(q)
    BY DEF IInv, Ledger, RoundShape, Active
  <1>2. round'[q] = round[q] \/ round'[q] = Settled(round[q])
    BY <1>1, StepOfRound
  <1>3. round[q] \in RoundType /\ height \in Nat \ {0}
    BY DEF IInv, TypeOK
  <1>4. CASE round'[q] = round[q]
    BY <1>4 DEF Frozen
  <1>5. CASE round'[q] = Settled(round[q])
    <2>. DEFINE s == Settled(round[q])
    <2>1. \A f \in FinalFields : s[f] = round[q][f]
      BY <1>3, SettledFields
    <2>2. /\ s.plan.pool = round[q].plan.pool
          /\ s.plan.payees = round[q].plan.payees
          /\ s.refund.amount = round[q].refund.amount
          /\ round[q].plan.paidAt # 0 => s.plan.paidAt = round[q].plan.paidAt
          /\ round[q].refund.paidAt # 0 => s.refund.paidAt = round[q].refund.paidAt
      BY <1>3, SettledOnce
    <2>. HIDE DEF s
    <2>3. round'[q] = s
      BY <1>5 DEF s
    <2>. QED
      BY <2>1, <2>2, <2>3 DEF Frozen
  <1>. QED
    BY <1>2, <1>4, <1>5

\* No step moves a round to an earlier phase.
LEMMA StepNotEarlier ==
    ASSUME IInv, [Next]_vars, NEW q \in Rounds
    PROVE  NotEarlier(q)
  <1>1. round[q] \in RoundType /\ round'[q] \in RoundType /\ height \in Nat \ {0}
    BY NextInv DEF IInv, TypeOK
  <1>2. round[q].phase \in Phases /\ round'[q].phase \in Phases
    BY <1>1 DEF RoundType
  <1>3. \A x, y \in Phases : x = y \/ x = "ABSENT" \/ y = "COMPLETE" =>
            PhaseRank[x] <= PhaseRank[y]
    BY DEF Phases, PhaseRank
  <1>4. CASE ~claim[q].admitted
    BY <1>2, <1>3, <1>4 DEF IInv, Ledger, RoundShape, NotEarlier
  <1>5. ASSUME Active(q), NEW ph \in {"COMMIT", "REVEAL", "AGGREGATION"},
               round'[q] = [round[q] EXCEPT !.phase = ph],
               PhaseRank[round[q].phase] <= PhaseRank[ph]
        PROVE  NotEarlier(q)
    BY <1>1, <1>5 DEF NotEarlier, RoundType
  <1>6. CASE \/ round'[q].phase = round[q].phase
             \/ round'[q].phase = "COMPLETE"
    BY <1>2, <1>3, <1>6 DEF NotEarlier
  <1>7. ASSUME NEW v \in Accounts, NEW vote \in VoteOptions,
               round'[q] = [round[q] EXCEPT !.commits[v] = vote]
        PROVE  round'[q].phase = round[q].phase
    BY <1>1, <1>7 DEF RoundType
  <1>8. ASSUME NEW v \in Accounts, round'[q] = [round[q] EXCEPT !.reveals = Append(@, v)]
        PROVE  round'[q].phase = round[q].phase
    BY <1>1, <1>8 DEF RoundType
  <1>9. Active(q) => /\ Completed(q).phase = "COMPLETE"
                     /\ Settled(Completed(q)).phase = "COMPLETE"
    <2>. SUFFICES ASSUME Active(q)
                  PROVE  /\ Completed(q).phase = "COMPLETE"
                         /\ Settled(Completed(q)).phase = "COMPLETE"
      OBVIOUS
    <2>1. Completed(q) \in RoundType /\ Completed(q).phase = "COMPLETE"
      BY CompletedFacts DEF IInv, Ledger, RoundShape, Active
    <2>. QED
      BY <1>1, <2>1, SettledFields
  <1>10. Settled(round[q]).phase = round[q].phase
    BY <1>1, SettledFields
  <1>. QED
    BY <1>4, <1>5, <1>6, <1>7, <1>8, <1>9, <1>10, StepOfRound

\* No step adds a commitment to a round with a public vote.
LEMMA StepCommitsFrozen ==
    ASSUME IInv, [Next]_vars, NEW q \in Rounds
    PROVE  CommitsFrozen(q)
  <1>. SUFFICES ASSUME round[q].reveals # << >>
                PROVE  round'[q].commits = round[q].commits
    BY DEF CommitsFrozen
  <1>1. round[q] \in RoundType /\ height \in Nat \ {0}
    BY DEF IInv, TypeOK
  <1>2. claim[q].admitted /\ round[q].phase # "COMMIT"
    BY <1>1 DEF IInv, Ledger, RoundShape
  <1>3. ASSUME NEW ph, round'[q] = [round[q] EXCEPT !.phase = ph]
        PROVE  round'[q].commits = round[q].commits
    BY <1>1, <1>3 DEF RoundType
  <1>4. ASSUME NEW v \in Accounts, round'[q] = [round[q] EXCEPT !.reveals = Append(@, v)]
        PROVE  round'[q].commits = round[q].commits
    BY <1>1, <1>4 DEF RoundType
  <1>5. Settled(round[q]).commits = round[q].commits
    BY <1>1, SettledFields DEF FinalFields
  <1>6. Active(q) => /\ Completed(q).commits = round[q].commits
                     /\ Settled(Completed(q)).commits = round[q].commits
    <2>. SUFFICES ASSUME Active(q)
                  PROVE  /\ Completed(q).commits = round[q].commits
                         /\ Settled(Completed(q)).commits = round[q].commits
      OBVIOUS
    <2>1. Completed(q) \in RoundType
      BY CompletedFacts DEF IInv, Ledger, RoundShape, Active
    <2>2. Completed(q).commits = round[q].commits
      BY <1>1 DEF Completed, RoundType
    <2>. QED
      BY <1>1, <2>1, <2>2, SettledFields DEF FinalFields
  <1>. QED
    BY <1>2, <1>3, <1>4, <1>5, <1>6, StepOfRound

\* A decided round only ever gains its payment markers, and each at most once.
THEOREM DecisionIsFinal == Spec => FinalIsFrozen
  <1>1. IInv /\ [Next]_vars => [\A r \in Rounds : Frozen(r)]_vars
    BY StepFrozen
  <1>. QED
    BY Invariance, <1>1, PTL DEF Spec, FinalIsFrozen

\* Rounds move forward through their phases, under any change of parameters.
THEOREM PhasesAdvance == Spec => PhaseMonotone
  <1>1. IInv /\ [Next]_vars => [\A r \in Rounds : NotEarlier(r)]_vars
    BY StepNotEarlier
  <1>. QED
    BY Invariance, <1>1, PTL DEF Spec, PhaseMonotone

\* The panel is closed before the first vote becomes public.
THEOREM PanelClosedFirst == Spec => NoCommitAfterReveal
  <1>1. IInv /\ [Next]_vars => [\A r \in Rounds : CommitsFrozen(r)]_vars
    BY StepCommitsFrozen
  <1>. QED
    BY Invariance, <1>1, PTL DEF Spec, NoCommitAfterReveal

-----------------------------------------------------------------------------
(* Refinement *)

\* The abstract state of one claim.
StateOf(c, rd) ==
    IF ~c.admitted THEN "none"
    ELSE IF rd.phase # "COMPLETE" THEN "open"
    ELSE IF roundHasPendingFunds(rd) THEN "decided"
    ELSE "settled"

\* A step that replaces one record changes the abstract state of one claim.
LEMMA StateUpdate ==
    ASSUME TypeOK, NEW r \in Rounds, NEW c, NEW rd,
           claim' = [claim EXCEPT ![r] = c], round' = [round EXCEPT ![r] = rd]
    PROVE  EscrowState' = [EscrowState EXCEPT ![r] = StateOf(c, rd)]
  <1>. DEFINE old == EscrowState
              new == EscrowState'
  <1>1. new = [q \in Rounds |-> StateOf(claim'[q], round'[q])]
    BY DEF EscrowState, StateOf
  <1>2. old = [q \in Rounds |-> StateOf(claim[q], round[q])]
    BY DEF EscrowState, StateOf
  <1>3. \A q \in Rounds : StateOf(claim'[q], round'[q]) =
            IF q = r THEN StateOf(c, rd) ELSE StateOf(claim[q], round[q])
    BY DEF TypeOK
  <1>. HIDE DEF old, new
  <1>4. new = [old EXCEPT ![r] = StateOf(c, rd)]
    BY <1>1, <1>2, <1>3
  <1>. QED
    BY <1>4 DEF old, new

\* Steps of the running review, of the queue walk and of the other tenants.
LEMMA EscrowStutter ==
    ASSUME IInv, NEW r \in Rounds, NEW rd,
           UNCHANGED <<claim, custody>>, round' = [round EXCEPT ![r] = rd],
           StateOf(claim[r], rd) = StateOf(claim[r], round[r])
    PROVE  UNCHANGED <<EscrowState, custody>>
  <1>1. claim' = [claim EXCEPT ![r] = claim[r]]
    BY DEF IInv, TypeOK
  <1>2. EscrowState' = [EscrowState EXCEPT ![r] = StateOf(claim[r], rd)]
    BY <1>1, StateUpdate, Zenon DEF IInv
  <1>3. EscrowState[r] = StateOf(claim[r], round[r])
    BY DEF EscrowState, StateOf
  <1>4. EscrowState = [EscrowState EXCEPT ![r] = EscrowState[r]]
    BY DEF EscrowState
  <1>. QED
    BY <1>2, <1>3, <1>4

\* A payment, with the verdict or from the queue, settles the escrow.
LEMMA EscrowSettles ==
    ASSUME IInv, NEW r \in Rounds, NEW rd \in RoundType, NEW bal,
           Pay(r, rd, bal), UNCHANGED claim, claim[r].admitted, rd.phase = "COMPLETE",
           custody[r] = AmountDue(rd), Active(r) \/ r \in pending
    PROVE  Escrow!Settle(r)
  <1>1. claim' = [claim EXCEPT ![r] = claim[r]] /\ round' = [round EXCEPT ![r] = Settled(rd)]
    BY DEF IInv, TypeOK, Pay
  <1>2. Settled(rd).phase = "COMPLETE" /\ ~roundHasPendingFunds(Settled(rd))
    BY SettledFields, SettledFacts DEF IInv, TypeOK
  <1>3. StateOf(claim[r], Settled(rd)) = "settled"
    BY <1>2 DEF StateOf
  <1>4. EscrowState' = [EscrowState EXCEPT ![r] = StateOf(claim[r], Settled(rd))]
    BY <1>1, StateUpdate, Zenon DEF IInv
  <1>5. custody' = [custody EXCEPT ![r] = 0]
    <2>1. custody[r] - AmountDue(rd) = 0
      BY AmountDueNat
    <2>. QED
      BY <2>1 DEF Pay
  <1>6. EscrowState[r] \in {"open", "decided"}
    BY DEF EscrowState, Active, IInv, Ledger, PendingIndexExact
  <1>. QED
    BY <1>3, <1>4, <1>5, <1>6 DEF Escrow!Settle

\* A verdict without payment: money is due, or nothing was held.
LEMMA EscrowDecides ==
    ASSUME IInv, NEW r \in Rounds, NEW rd \in RoundType, NEW bal,
           Owe(r, rd, bal), UNCHANGED claim, claim[r].admitted, rd.phase = "COMPLETE",
           custody[r] = AmountDue(rd), Active(r)
    PROVE  Escrow!Decide(r) \/ Escrow!Settle(r)
  <1>1. claim' = [claim EXCEPT ![r] = claim[r]] /\ round' = [round EXCEPT ![r] = rd]
    BY DEF IInv, TypeOK, Owe
  <1>2. EscrowState' = [EscrowState EXCEPT ![r] = StateOf(claim[r], rd)]
    BY <1>1, StateUpdate, Zenon DEF IInv
  <1>3. EscrowState[r] = "open"
    BY DEF EscrowState, Active
  <1>4. custody' = custody
    BY DEF Owe
  <1>5. CASE roundHasPendingFunds(rd)
    <2>1. StateOf(claim[r], rd) = "decided"
      BY <1>5 DEF StateOf
    <2>. QED
      BY <1>2, <1>3, <1>4, <2>1 DEF Escrow!Decide
  <1>6. CASE ~roundHasPendingFunds(rd)
    <2>1. StateOf(claim[r], rd) = "settled"
      BY <1>6 DEF StateOf
    <2>2. AmountDue(rd) = 0
      BY <1>6 DEF AmountDue, roundHasPendingFunds
    <2>3. custody' = [custody EXCEPT ![r] = 0]
      BY <1>4, <2>2 DEF IInv, TypeOK
    <2>. QED
      BY <1>2, <1>3, <2>1, <2>3 DEF Escrow!Settle
  <1>. QED
    BY <1>5, <1>6

\* Admission opens the escrow with one of its amounts.
LEMMA EscrowOpens ==
    ASSUME IInv, NEW r \in Rounds, NEW kind \in Kinds, NEW paid \in Payments,
           NEW s \in Accounts, NEW d \in Accounts \cup {None}, NEW answers \in BOOLEAN,
           Admit(r, kind, paid, s, d, answers)
    PROVE  \E amount \in EscrowAmounts : Escrow!Open(r, amount)
  <1>. DEFINE c == [admitted |-> TRUE, kind |-> kind, paid |-> paid,
                    submitter |-> s, defender |-> d, answers |-> answers]
              rd == [NoRound EXCEPT !.phase = "COMMIT", !.start = height]
              amount == Escrowed(kind, paid)
  <1>1. amount \in EscrowAmounts
    BY DEF EscrowAmounts
  <1>2. /\ claim' = [claim EXCEPT ![r] = c] /\ round' = [round EXCEPT ![r] = rd]
        /\ custody' = [custody EXCEPT ![r] = amount] /\ ~claim[r].admitted
    BY DEF Admit
  <1>3. c.admitted /\ rd.phase = "COMMIT"
    BY NoRoundType DEF RoundType
  <1>. HIDE DEF c, rd, amount
  <1>4. EscrowState' = [EscrowState EXCEPT ![r] = StateOf(c, rd)]
    BY <1>2, StateUpdate, Zenon DEF IInv
  <1>5. StateOf(c, rd) = "open"
    BY <1>3 DEF StateOf
  <1>6. EscrowState[r] = "none"
    BY <1>2 DEF EscrowState
  <1>7. Escrow!Open(r, amount)
    BY <1>2, <1>4, <1>5, <1>6 DEF Escrow!Open
  <1>. QED
    BY <1>1, <1>7

\* Every step of Next is a step of the escrow or leaves it alone.
LEMMA RefineStep ==
    ASSUME IInv, [Next]_vars
    PROVE  [Escrow!Next]_(Escrow!escrowVars)
  <1>. USE DEF books
  <1>1. ASSUME NEW r \in Rounds, SubmitClaim(r) \/ SubmitDispute(r)
        PROVE  Escrow!Next
    <2>1. \E amount \in EscrowAmounts : Escrow!Open(r, amount)
      BY <1>1, EscrowOpens DEF SubmitClaim, SubmitDispute, Kinds
    <2>. QED
      BY <2>1 DEF Escrow!Next
  <1>2. ASSUME NEW r \in Rounds, NEW v \in Accounts, NEW vote \in VoteOptions,
               SubmitCommitment(r, v, vote)
        PROVE  UNCHANGED <<EscrowState, custody>>
    <2>. DEFINE rd == [round[r] EXCEPT !.commits[v] = vote]
    <2>1. rd.phase = round[r].phase /\ rd.phase # "COMPLETE"
      BY <1>2 DEF SubmitCommitment, IInv, TypeOK, RoundType
    <2>2. round' = [round EXCEPT ![r] = rd] /\ UNCHANGED <<claim, custody>>
      BY <1>2 DEF SubmitCommitment, IInv, TypeOK
    <2>. HIDE DEF rd
    <2>3. StateOf(claim[r], rd) = StateOf(claim[r], round[r])
      BY <2>1 DEF StateOf
    <2>. QED
      BY <2>2, <2>3, EscrowStutter
  <1>3. ASSUME NEW r \in Rounds, NEW v \in Accounts, SubmitReveal(r, v)
        PROVE  UNCHANGED <<EscrowState, custody>>
    <2>. DEFINE rd == [round[r] EXCEPT !.reveals = Append(@, v)]
    <2>1. rd.phase = round[r].phase /\ rd.phase # "COMPLETE"
      BY <1>3 DEF SubmitReveal, IInv, TypeOK, RoundType
    <2>2. round' = [round EXCEPT ![r] = rd] /\ UNCHANGED <<claim, custody>>
      BY <1>3 DEF SubmitReveal, IInv, TypeOK
    <2>. HIDE DEF rd
    <2>3. StateOf(claim[r], rd) = StateOf(claim[r], round[r])
      BY <2>1 DEF StateOf
    <2>. QED
      BY <2>2, <2>3, EscrowStutter
  <1>4. ASSUME NEW r \in Rounds, PendingPaid(r) \/ PendingUnpaid(r)
        PROVE  Escrow!Next \/ UNCHANGED <<EscrowState, custody>>
    <2>1. r \in pending /\ UNCHANGED claim
      BY <1>4 DEF IInv, WorkList, PendingPaid, PendingUnpaid, PendingTried, IsNext
    <2>2. CASE Pay(r, round[r], moduleBal)
      <3>1. Escrow!Settle(r)
        BY <2>1, <2>2, DueRound, EscrowSettles
      <3>. QED
        BY <3>1 DEF Escrow!Next
    <2>3. CASE Owe(r, round[r], moduleBal)
      BY <2>1, <2>3, EscrowStutter DEF Owe
    <2>. QED
      BY <1>4, <2>2, <2>3 DEF PendingPaid, PendingUnpaid
  <1>5. ASSUME NEW r \in Rounds, OpenReveal(r) \/ CompleteFails(r)
        PROVE  UNCHANGED <<EscrowState, custody>>
    <2>1. Active(r) /\ UNCHANGED <<claim, custody>>
      BY <1>5 DEF IInv, WorkList, OpenReveal, CompleteFails, Visited, IsNext
    <2>2. PICK ph \in {"COMMIT", "REVEAL", "AGGREGATION"} : round' = [round EXCEPT ![r].phase = ph]
      BY <1>5, <2>1 DEF OpenReveal, CompleteFails, StoredPhase, Active
    <2>. DEFINE rd == [round[r] EXCEPT !.phase = ph]
    <2>3. rd.phase = ph
      BY DEF IInv, TypeOK, RoundType
    <2>4. round' = [round EXCEPT ![r] = rd]
      BY <2>2 DEF IInv, TypeOK
    <2>. HIDE DEF rd
    <2>5. StateOf(claim[r], rd) = StateOf(claim[r], round[r])
      BY <2>1, <2>3 DEF StateOf, Active
    <2>. QED
      BY <2>1, <2>4, <2>5, EscrowStutter
  <1>6. ASSUME NEW r \in Rounds, CompletePaid(r) \/ CompleteOwing(r)
        PROVE  Escrow!Next
    <2>1. Active(r) /\ UNCHANGED claim
      BY <1>6 DEF IInv, WorkList, CompletePaid, CompleteOwing, CompleteRound, Visited, IsNext
    <2>2. /\ claim[r].admitted /\ round[r].plan = NoPlan /\ round[r].refund = NoRefund
          /\ custody[r] = Escrowed(claim[r].kind, claim[r].paid)
      BY <2>1 DEF IInv, Ledger, RoundShape, CustodyCovers, Liability, Active
    <2>3. /\ Completed(r) \in RoundType /\ Completed(r).phase = "COMPLETE"
          /\ custody[r] = AmountDue(Completed(r))
      BY <2>2, CompletedFacts DEF IInv
    <2>4. \/ \E bal : Pay(r, Completed(r), bal)
          \/ \E bal : Owe(r, Completed(r), bal)
      BY <1>6 DEF CompletePaid, CompleteOwing
    <2>5. Escrow!Settle(r) \/ Escrow!Decide(r)
      BY <2>1, <2>2, <2>3, <2>4, EscrowSettles, EscrowDecides
    <2>. QED
      BY <2>5 DEF Escrow!Next
  <1>7. ASSUME \/ UNCHANGED vars \/ NextBlock \/ PendingDone \/ AdvanceDone
               \/ ProcessDemandBounties \/ ProcessExpiredBounties
               \/ \E m \in MinVerifiersChoices : UpdateParams(m)
               \/ \E r \in Rounds : PendingStop(r) \/ KeepPhase(r)
        PROVE  UNCHANGED <<EscrowState, custody>>
    <2>1. UNCHANGED <<claim, round, custody>>
      BY <1>7 DEF vars, NextBlock, PendingDone, AdvanceDone, ProcessDemandBounties,
                  ProcessExpiredBounties, UpdateParams, PendingStop, KeepPhase, Visited
    <2>. QED
      BY <2>1 DEF EscrowState
  <1>. QED
    BY <1>1, <1>2, <1>3, <1>4, <1>5, <1>6, <1>7
       DEF Next, Tx, Block, PendingStep, AdvanceStep, Escrow!escrowVars

\* The review machinery implements the escrow, for any number of claims.
THEOREM EscrowRefinement == Spec => ImplementsEscrow
  <1>1. Init => Escrow!Init
    BY DEF Init, Escrow!Init, EscrowState, NoClaim
  <1>2. IInv /\ [Next]_vars => [Escrow!Next]_(Escrow!escrowVars)
    BY RefineStep
  <1>. QED
    BY <1>1, <1>2, Invariance, PTL DEF Spec, ImplementsEscrow, Escrow!Spec

-----------------------------------------------------------------------------
(* Who decides: verdicts rest on quorums of distinct committed reviewers, and *)
(* an early verdict heard the whole panel, for panels of any size.            *)

Seats(rd) == {v \in Accounts : rd.commits[v] # None}
Heard(rd) == Range(rd.reveals)
RevealEnd(rd) == rd.start + CommitPhaseBlocks + RevealPhaseBlocks

\* Every reveal is of a seat of its own, and what a decided record says of the
\* panel that decided it.
PanelOf(rd) ==
    /\ IsFiniteSet(Seats(rd))
    /\ Heard(rd) \subseteq Seats(rd)
    /\ Cardinality(Heard(rd)) = Len(rd.reveals)
    /\ rd.phase # "COMPLETE" => rd.verdict = "UNSPECIFIED"
    /\ rd.phase = "COMPLETE" /\ rd.verdictBlock < RevealEnd(rd) => Heard(rd) = Seats(rd)
    /\ rd.verdict \in {"ACCEPT", "REJECT", "MALFORMED"} =>
          Cardinality(Heard(rd)) >= Min(MinVerifiersChoices)

Panels == \A r \in Rounds : PanelOf(round[r])

\* The panel of a record depends on the fields that settlement leaves alone.
LEMMA SamePanel ==
    ASSUME NEW rd, PanelOf(rd), NEW new, \A f \in FinalFields : new[f] = rd[f]
    PROVE  PanelOf(new)
  <1>1. /\ new.phase = rd.phase /\ new.start = rd.start /\ new.commits = rd.commits
        /\ new.reveals = rd.reveals /\ new.verdict = rd.verdict
        /\ new.verdictBlock = rd.verdictBlock
    BY DEF FinalFields
  <1>. QED
    BY <1>1 DEF PanelOf, Seats, Heard, RevealEnd

\* Settlement keeps the panel.
LEMMA SettledPanel ==
    ASSUME IInv, NEW rd \in RoundType, PanelOf(rd)
    PROVE  PanelOf(Settled(rd))
  <1>1. height \in Nat \ {0}
    BY DEF IInv, TypeOK
  <1>2. \A f \in FinalFields : Settled(rd)[f] = rd[f]
    BY <1>1, SettledFields, Zenon
  <1>. QED
    BY <1>2, SamePanel

\* A round without commitments has an empty panel.
LEMMA EmptyPanel ==
    ASSUME NEW rd, rd.reveals = << >>, rd.commits = [v \in Accounts |-> None],
           rd.phase # "COMPLETE", rd.verdict = "UNSPECIFIED"
    PROVE  PanelOf(rd)
  <1>1. Seats(rd) = {} /\ Heard(rd) = {}
    BY DEF Seats, Heard, Range
  <1>2. IsFiniteSet({}) /\ Cardinality({}) = 0
    BY FS_EmptySet
  <1>3. Len(rd.reveals) = 0
    OBVIOUS
  <1>. QED
    BY <1>1, <1>2, <1>3 DEF PanelOf

\* A commitment takes one more seat while nobody has been heard.
LEMMA CommitPanel ==
    ASSUME NEW rd \in RoundType, PanelOf(rd), rd.phase = "COMMIT",
           NEW v \in Accounts, NEW vote \in VoteOptions,
           NEW new, new.commits = [rd.commits EXCEPT ![v] = vote],
           new.reveals = rd.reveals, new.phase = rd.phase, new.verdict = rd.verdict
    PROVE  PanelOf(new)
  <1>1. rd.commits \in [Accounts -> VoteOptions \cup {None}]
    BY DEF RoundType
  <1>2. vote # None
    BY VotesAssumption DEF None
  <1>3. Seats(new) = Seats(rd) \cup {v}
    BY <1>1, <1>2 DEF Seats
  <1>4. IsFiniteSet(Seats(new))
    BY <1>3, FS_AddElement DEF PanelOf
  <1>5. Heard(new) = Heard(rd)
    BY DEF Heard
  <1>. QED
    BY <1>3, <1>4, <1>5 DEF PanelOf

\* A reveal hears one more seat, for the first time.
LEMMA RevealPanel ==
    ASSUME NEW rd \in RoundType, PanelOf(rd), rd.phase = "REVEAL",
           NEW v \in Seats(rd), v \notin Heard(rd),
           NEW new, new.reveals = Append(rd.reveals, v),
           new.commits = rd.commits, new.phase = rd.phase, new.verdict = rd.verdict
    PROVE  PanelOf(new)
  <1>1. rd.reveals \in Seq(Accounts) /\ v \in Accounts
    BY DEF RoundType, Seats
  <1>2. Heard(new) = Heard(rd) \cup {v} /\ Len(new.reveals) = Len(rd.reveals) + 1
    BY <1>1 DEF Heard, Range
  <1>3. Seats(new) = Seats(rd)
    BY DEF Seats
  <1>4. IsFiniteSet(Heard(rd))
    BY FS_Subset DEF PanelOf
  <1>5. Cardinality(Heard(new)) = Cardinality(Heard(rd)) + 1
    BY <1>2, <1>4, FS_AddElement
  <1>. QED
    BY <1>2, <1>3, <1>5 DEF PanelOf

\* A round that stays undecided keeps its panel.
LEMMA UndecidedPanel ==
    ASSUME NEW rd, PanelOf(rd), rd.phase # "COMPLETE", NEW new, new.phase # "COMPLETE",
           new.commits = rd.commits, new.reveals = rd.reveals, new.verdict = rd.verdict
    PROVE  PanelOf(new)
  BY DEF PanelOf, Seats, Heard

-----------------------------------------------------------------------------
(* Verdicts *)

Below == {p \in Nat \X Nat : p[1] < p[2]}

\* A non-empty set of natural numbers has a least element.
LEMMA LeastNatural ==
    ASSUME NEW S \in SUBSET Nat, S # {}
    PROVE  \E x \in S : \A y \in S : x <= y
  <1>1. IsWellFoundedOn(Below, Nat)
    BY NatLessThanWellFounded, SMT DEF OpToRel, Below
  <1>2. S \subseteq Nat
    OBVIOUS
  <1>3. PICK x \in S : \A y \in S : <<y, x>> \notin Below
    BY <1>1, <1>2, WFMin, Zenon
  <1>4. ASSUME NEW y \in S PROVE x <= y
    <2>1. x \in Nat /\ y \in Nat
      OBVIOUS
    <2>2. ~(y < x)
      BY <1>3, <2>1 DEF Below
    <2>. QED
      BY <2>1, <2>2
  <1>. QED
    BY <1>4

\* Min is that element.
LEMMA MinIsLeast ==
    ASSUME NEW S \in SUBSET Nat, NEW n \in S
    PROVE  Min(S) \in S /\ Min(S) <= n
  <1>1. \E x \in S : \A y \in S : x <= y
    BY LeastNatural
  <1>. QED
    BY <1>1 DEF Min

\* Only a panel of MinVerifiers reviews decides.
LEMMA DecisiveVerdict ==
    ASSUME NEW r \in Rounds, Len(round[r].reveals) \in Nat, minVerifiers \in Nat,
           Len(round[r].reveals) < minVerifiers
    PROVE  AggregateVerdict(r) = "INCONCLUSIVE"
  BY DEF AggregateVerdict

\* Completion: the condition read again from the stored round justifies the
\* verdict it writes.
LEMMA CompletedPanel ==
    ASSUME IInv, NEW r \in Rounds, PanelOf(round[r]), PanelClosed(r), Active(r)
    PROVE  PanelOf(Completed(r))
  <1>. DEFINE rd == round[r]
              new == Completed(r)
  <1>1. rd \in RoundType /\ height \in Nat /\ minVerifiers \in MinVerifiersChoices
    BY DEF IInv, TypeOK
  <1>2. /\ new.phase = "COMPLETE" /\ new.verdict = AggregateVerdict(r)
        /\ new.verdictBlock = height /\ new.start = rd.start
        /\ new.commits = rd.commits /\ new.reveals = rd.reveals
    BY <1>1 DEF Completed, RoundType
  <1>. HIDE DEF new
  <1>3. /\ Seats(new) = Seats(rd) /\ Heard(new) = Heard(rd) /\ RevealEnd(new) = RevealEnd(rd)
        /\ Len(new.reveals) = Len(rd.reveals)
    BY <1>2 DEF Seats, Heard, RevealEnd
  <1>4. ASSUME new.verdictBlock < RevealEnd(new)
        PROVE  Heard(new) = Seats(new)
    <2>1. height < RevealDeadline(r) /\ rd.start \in Nat
      BY <1>1, <1>2, <1>3, <1>4 DEF RevealEnd, RevealDeadline, CommitDeadline, RoundType
    <2>2. RevealDeadline(r) \in Nat
      BY <2>1, TimingAssumption DEF RevealDeadline, CommitDeadline
    <2>3. PanelRevealed(r)
      BY <1>1, <2>1, <2>2 DEF PanelClosed
    <2>4. Cardinality(Heard(rd)) = Cardinality(Seats(rd))
      BY <2>3 DEF PanelRevealed, Committed, Seats, PanelOf
    <2>5. Heard(rd) = Seats(rd)
      BY <2>4, FS_Subset DEF PanelOf
    <2>. QED
      BY <1>3, <2>5
  <1>5. ASSUME new.verdict \in {"ACCEPT", "REJECT", "MALFORMED"}
        PROVE  Cardinality(Heard(new)) >= Min(MinVerifiersChoices)
    <2>1. Len(rd.reveals) \in Nat /\ minVerifiers \in Nat
      BY <1>1, VerifiersAssumption DEF RoundType
    <2>2. Len(rd.reveals) >= minVerifiers
      BY <1>2, <1>5, <2>1, DecisiveVerdict
    <2>3. Min(MinVerifiersChoices) \in Nat /\ Min(MinVerifiersChoices) <= minVerifiers
      BY <1>1, VerifiersAssumption, MinIsLeast
    <2>4. Cardinality(Heard(new)) = Len(rd.reveals)
      BY <1>3 DEF PanelOf
    <2>. QED
      BY <2>1, <2>2, <2>3, <2>4
  <1>6. PanelOf(new)
    BY <1>2, <1>3, <1>4, <1>5 DEF PanelOf
  <1>. QED
    BY <1>6 DEF new

-----------------------------------------------------------------------------
(* Every step keeps every panel *)

\* A step that replaces the record of one round.
LEMMA PanelsUpdate ==
    ASSUME IInv, Panels, NEW r \in Rounds, NEW rd, round' = [round EXCEPT ![r] = rd], PanelOf(rd)
    PROVE  Panels'
  <1>. SUFFICES ASSUME NEW q \in Rounds PROVE PanelOf(round[q])'
    BY DEF Panels
  <1>1. PanelOf(round'[q])
    BY DEF Panels, IInv, TypeOK
  <1>. QED
    BY <1>1 DEF PanelOf, Seats, Heard, RevealEnd

\* One case per action that writes a round.
LEMMA NextPanels == IInv /\ Panels /\ [Next]_vars => Panels'
  <1>. SUFFICES ASSUME IInv, Panels, [Next]_vars PROVE Panels'
    OBVIOUS
  <1>. USE DEF books
  <1>1. ASSUME NEW r \in Rounds, SubmitClaim(r) \/ SubmitDispute(r)
        PROVE  Panels'
    <2>. DEFINE rd == [NoRound EXCEPT !.phase = "COMMIT", !.start = height]
    <2>1. round' = [round EXCEPT ![r] = rd]
      BY <1>1 DEF SubmitClaim, SubmitDispute, Admit
    <2>2. /\ rd.phase = "COMMIT" /\ rd.reveals = << >> /\ rd.verdict = "UNSPECIFIED"
          /\ rd.commits = [v \in Accounts |-> None]
      BY DEF NoRound
    <2>. HIDE DEF rd
    <2>3. PanelOf(rd)
      BY <2>2, EmptyPanel
    <2>. QED
      BY <2>1, <2>3, PanelsUpdate
  <1>2. ASSUME NEW r \in Rounds, NEW v \in Accounts, NEW vote \in VoteOptions,
               SubmitCommitment(r, v, vote)
        PROVE  Panels'
    <2>. DEFINE rd == [round[r] EXCEPT !.commits[v] = vote]
    <2>1. round[r] \in RoundType /\ round[r].phase = "COMMIT" /\ PanelOf(round[r])
      BY <1>2 DEF SubmitCommitment, Panels, IInv, TypeOK
    <2>2. round' = [round EXCEPT ![r] = rd]
      BY <1>2 DEF SubmitCommitment, IInv, TypeOK
    <2>3. /\ rd.commits = [round[r].commits EXCEPT ![v] = vote]
          /\ rd.reveals = round[r].reveals /\ rd.phase = round[r].phase
          /\ rd.verdict = round[r].verdict
      BY <2>1 DEF RoundType
    <2>. HIDE DEF rd
    <2>4. PanelOf(rd)
      BY <2>1, <2>3, CommitPanel
    <2>. QED
      BY <2>2, <2>4, PanelsUpdate
  <1>3. ASSUME NEW r \in Rounds, NEW v \in Accounts, SubmitReveal(r, v)
        PROVE  Panels'
    <2>. DEFINE rd == [round[r] EXCEPT !.reveals = Append(@, v)]
    <2>1. /\ round[r] \in RoundType /\ round[r].phase = "REVEAL" /\ PanelOf(round[r])
          /\ v \in Seats(round[r]) /\ v \notin Heard(round[r])
      BY <1>3 DEF SubmitReveal, Panels, IInv, TypeOK, Seats, Heard, Committed, Revealed
    <2>2. round' = [round EXCEPT ![r] = rd]
      BY <1>3 DEF SubmitReveal, IInv, TypeOK
    <2>3. /\ rd.reveals = Append(round[r].reveals, v)
          /\ rd.commits = round[r].commits /\ rd.phase = round[r].phase
          /\ rd.verdict = round[r].verdict
      BY <2>1 DEF RoundType
    <2>. HIDE DEF rd
    <2>4. PanelOf(rd)
      BY <2>1, <2>3, RevealPanel
    <2>. QED
      BY <2>2, <2>4, PanelsUpdate
  <1>4. ASSUME NEW r \in Rounds, OpenReveal(r) \/ CompleteFails(r)
        PROVE  Panels'
    <2>1. Active(r)
      BY <1>4 DEF IInv, WorkList, OpenReveal, CompleteFails, Visited, IsNext
    <2>2. PICK ph \in {"COMMIT", "REVEAL", "AGGREGATION"} : round' = [round EXCEPT ![r].phase = ph]
      BY <1>4, <2>1 DEF OpenReveal, CompleteFails, StoredPhase, Active
    <2>. DEFINE rd == [round[r] EXCEPT !.phase = ph]
    <2>3. /\ rd.phase # "COMPLETE" /\ round[r].phase # "COMPLETE" /\ PanelOf(round[r])
          /\ rd.commits = round[r].commits /\ rd.reveals = round[r].reveals
          /\ rd.verdict = round[r].verdict
      BY <2>1 DEF IInv, TypeOK, RoundType, Active, Panels
    <2>4. round' = [round EXCEPT ![r] = rd]
      BY <2>2 DEF IInv, TypeOK
    <2>. HIDE DEF rd
    <2>5. PanelOf(rd)
      BY <2>3, UndecidedPanel
    <2>. QED
      BY <2>4, <2>5, PanelsUpdate
  <1>5. ASSUME NEW r \in Rounds, CompletePaid(r) \/ CompleteOwing(r)
        PROVE  Panels'
    <2>1. Active(r) /\ PanelClosed(r)
      BY <1>5 DEF IInv, WorkList, CompletePaid, CompleteOwing, CompleteRound, Visited, IsNext
    <2>2. PanelOf(Completed(r)) /\ Completed(r) \in RoundType
      BY <2>1, CompletedPanel, CompletedFacts DEF Panels, IInv, Ledger, RoundShape, Active
    <2>3. PanelOf(Settled(Completed(r)))
      BY <2>2, SettledPanel
    <2>4. \/ round' = [round EXCEPT ![r] = Settled(Completed(r))]
          \/ round' = [round EXCEPT ![r] = Completed(r)]
      BY <1>5 DEF CompletePaid, CompleteOwing, Pay, Owe
    <2>. QED
      BY <2>2, <2>3, <2>4, PanelsUpdate
  <1>6. ASSUME NEW r \in Rounds, PendingPaid(r) \/ PendingUnpaid(r)
        PROVE  Panels'
    <2>1. PanelOf(round[r]) /\ round[r] \in RoundType
      BY DEF Panels, IInv, TypeOK
    <2>2. PanelOf(Settled(round[r]))
      BY <2>1, SettledPanel
    <2>3. \/ round' = [round EXCEPT ![r] = Settled(round[r])]
          \/ round' = [round EXCEPT ![r] = round[r]]
      BY <1>6 DEF PendingPaid, PendingUnpaid, Pay, Owe
    <2>. QED
      BY <2>1, <2>2, <2>3, PanelsUpdate
  <1>7. ASSUME \/ UNCHANGED vars \/ NextBlock \/ PendingDone \/ AdvanceDone
               \/ ProcessDemandBounties \/ ProcessExpiredBounties
               \/ \E m \in MinVerifiersChoices : UpdateParams(m)
               \/ \E r \in Rounds : PendingStop(r) \/ KeepPhase(r)
        PROVE  Panels'
    <2>1. round' = round
      BY <1>7 DEF vars, NextBlock, PendingDone, AdvanceDone, ProcessDemandBounties,
                  ProcessExpiredBounties, UpdateParams, PendingStop, KeepPhase
    <2>. QED
      BY <2>1 DEF Panels, PanelOf, Seats, Heard, RevealEnd
  <1>. QED
    BY <1>1, <1>2, <1>3, <1>4, <1>5, <1>6, <1>7
       DEF Next, Tx, Block, PendingStep, AdvanceStep

\* An early verdict heard every committed reviewer, and a decisive one rests
\* on a quorum of distinct committed reviewers, for panels of any size and any
\* changes of MinVerifiers.
THEOREM VerdictsJustified == Spec => []VerdictJustified
  <1>1. Init => Panels
    <2>. SUFFICES ASSUME Init, NEW r \in Rounds PROVE PanelOf(round[r])
      BY DEF Panels
    <2>1. /\ round[r].phase = "ABSENT" /\ round[r].reveals = << >>
          /\ round[r].verdict = "UNSPECIFIED" /\ round[r].commits = [v \in Accounts |-> None]
      BY DEF Init, NoRound
    <2>. QED
      BY <2>1, EmptyPanel
  <1>2. Panels => VerdictJustified
    BY DEF Panels, PanelOf, Seats, Heard, RevealEnd, VerdictJustified, EarlyVerdictHeardAll,
           DecisiveHasQuorum, Revealed, Committed, RevealDeadline, CommitDeadline
  <1>. QED
    BY <1>1, <1>2, NextPanels, Invariance, PTL DEF Spec

-----------------------------------------------------------------------------
(* The sums over all claims: the shared module account is solvent, and every *)
(* account has received exactly the legs marked paid, for any number of      *)
(* rounds.                                                                   *)

\* A change of the amount of one round changes the sum over all rounds by it.
LEMMA RoundTotals ==
    ASSUME NEW f \in [Rounds -> Nat], NEW g \in [Rounds -> Nat], NEW r \in Rounds,
           \A q \in Rounds : q # r => g[q] = f[q]
    PROVE  /\ Total(f) \in Nat /\ Total(g) \in Nat
           /\ Total(g) = Total(f) - f[r] + g[r]
  <1>1. IsFiniteSet(Rounds)
    BY RoundsAssumption
  <1>. QED
    BY <1>1, TotalUpdate, ZenonT(30)

-----------------------------------------------------------------------------
(* Solvency *)

BountyHeld == IF bounty.open THEN BountyReward ELSE 0

\* Solvent, with the custody of each claim for what it is owed.
Balanced == moduleBal = Total(custody) + BountyHeld

\* Custody and balance of a step that changes the custody of one claim.
LEMMA BalanceMoves ==
    ASSUME IInv, IInv', Balanced, NEW r \in Rounds,
           \A q \in Rounds : q # r => custody'[q] = custody[q],
           moduleBal' = moduleBal + (custody'[r] - custody[r]) + (BountyHeld' - BountyHeld)
    PROVE  Balanced'
  <1>1. custody \in [Rounds -> Nat] /\ custody' \in [Rounds -> Nat]
    BY DEF IInv, TypeOK
  <1>2. /\ Total(custody) \in Nat /\ Total(custody)' \in Nat
        /\ Total(custody)' = Total(custody) - custody[r] + custody'[r]
    <2>1. Total(custody)' = Total(custody')
      BY DEF Total, Coins
    <2>2. /\ Total(custody) \in Nat /\ Total(custody') \in Nat
          /\ Total(custody') = Total(custody) - custody[r] + custody'[r]
      BY <1>1, RoundTotals
    <2>. QED
      BY <2>1, <2>2
  <1>3. BountyHeld \in Nat /\ BountyHeld' \in Nat
    BY BoundsAssumption DEF BountyHeld
  <1>4. custody[r] \in Nat /\ custody'[r] \in Nat /\ moduleBal \in Nat
    BY <1>1 DEF IInv, TypeOK
  <1>5. moduleBal' = Total(custody)' + BountyHeld'
    BY <1>2, <1>3, <1>4 DEF Balanced
  <1>. QED
    BY <1>5 DEF Balanced

\* A step that moves no money.
LEMMA MoneyUntouched ==
    ASSUME Balanced, UNCHANGED <<moduleBal, custody, bounty>>
    PROVE  Balanced'
  BY DEF Balanced, BountyHeld, Total, Coins

\* A settlement takes its payment from the custody of its own claim.
LEMMA SettlementBalance ==
    ASSUME IInv, IInv', Balanced, NEW r \in Rounds, NEW rd \in RoundType, NEW bal \in Int,
           Pay(r, rd, bal) \/ Owe(r, rd, bal),
           bal = moduleBal + (BountyHeld' - BountyHeld)
    PROVE  Balanced'
  <1>1. custody \in [Rounds -> Nat] /\ moduleBal \in Nat /\ AmountDue(rd) \in Nat
    BY AmountDueNat DEF IInv, TypeOK
  <1>2. BountyHeld \in Nat /\ BountyHeld' \in Nat
    BY BoundsAssumption DEF BountyHeld
  <1>3. CASE Pay(r, rd, bal)
    <2>1. /\ moduleBal' = bal - AmountDue(rd)
          /\ custody'[r] = custody[r] - AmountDue(rd)
          /\ \A q \in Rounds : q # r => custody'[q] = custody[q]
      BY <1>1, <1>3 DEF Pay
    <2>2. custody[r] \in Nat
      BY <1>1
    <2>3. moduleBal' = moduleBal + (custody'[r] - custody[r]) + (BountyHeld' - BountyHeld)
      BY <1>1, <1>2, <2>1, <2>2
    <2>. QED
      BY <2>1, <2>3, BalanceMoves
  <1>4. CASE Owe(r, rd, bal)
    <2>1. moduleBal' = bal /\ custody' = custody
      BY <1>4 DEF Owe
    <2>2. custody[r] \in Nat
      BY <1>1
    <2>3. moduleBal' = moduleBal + (custody'[r] - custody[r]) + (BountyHeld' - BountyHeld)
      BY <1>1, <1>2, <2>1, <2>2
    <2>. QED
      BY <2>1, <2>3, BalanceMoves
  <1>. QED
    BY <1>3, <1>4

\* What the answered bounty takes with it.
LEMMA BountyMoves ==
    ASSUME IInv, NEW r \in Rounds, NEW taken \in {FALSE, BountyMatches(r)},
           bounty' = BountyAfter(taken)
    PROVE  /\ BalanceAfter(taken) \in Int
           /\ BalanceAfter(taken) = moduleBal + (BountyHeld' - BountyHeld)
  <1>1. moduleBal \in Nat /\ BountyReward \in Nat
    BY BoundsAssumption DEF IInv, TypeOK
  <1>2. CASE ~taken
    BY <1>1, <1>2 DEF BountyAfter, BalanceAfter, BountyHeld
  <1>3. CASE taken
    <2>1. bounty.open
      BY <1>3 DEF BountyMatches
    <2>2. bounty' = NoBounty /\ BalanceAfter(taken) = moduleBal - BountyReward
      BY <1>3 DEF BountyAfter, BalanceAfter
    <2>3. BountyHeld = BountyReward /\ BountyHeld' = 0
      BY <2>1, <2>2 DEF BountyHeld, NoBounty
    <2>. QED
      BY <1>1, <2>2, <2>3
  <1>. QED
    BY <1>2, <1>3

\* Every step moves the balance by what it moves in custody and bounty.
LEMMA NextBalanced == IInv /\ IInv' /\ Balanced /\ [Next]_vars => Balanced'
  <1>. SUFFICES ASSUME IInv, IInv', Balanced, [Next]_vars PROVE Balanced'
    OBVIOUS
  <1>. USE DEF books
  <1>1. ASSUME NEW r \in Rounds, SubmitClaim(r) \/ SubmitDispute(r)
        PROVE  Balanced'
    <2>1. PICK kind \in Kinds, paid \in Payments :
             /\ ~claim[r].admitted
             /\ moduleBal' = moduleBal + Escrowed(kind, paid)
             /\ custody' = [custody EXCEPT ![r] = Escrowed(kind, paid)]
             /\ bounty' = bounty
      BY <1>1 DEF SubmitClaim, SubmitDispute, Admit, Kinds
    <2>2. /\ custody[r] = 0 /\ custody'[r] = Escrowed(kind, paid)
          /\ \A q \in Rounds : q # r => custody'[q] = custody[q]
          /\ custody'[r] \in Nat /\ moduleBal \in Nat
      BY <2>1 DEF IInv, TypeOK, Ledger, CustodyCovers, Liability
    <2>3. BountyHeld' = BountyHeld /\ BountyHeld \in Nat
      BY <2>1, BoundsAssumption DEF BountyHeld
    <2>4. moduleBal' = moduleBal + (custody'[r] - custody[r]) + (BountyHeld' - BountyHeld)
      BY <2>1, <2>2, <2>3
    <2>. QED
      BY <2>2, <2>4, BalanceMoves
  <1>2. ASSUME NEW r \in Rounds, PendingPaid(r) \/ PendingUnpaid(r)
        PROVE  Balanced'
    <2>1. /\ Pay(r, round[r], moduleBal) \/ Owe(r, round[r], moduleBal)
          /\ bounty' = bounty
      BY <1>2 DEF PendingPaid, PendingUnpaid, PendingTried
    <2>2. round[r] \in RoundType /\ moduleBal \in Int
      BY DEF IInv, TypeOK
    <2>3. moduleBal = moduleBal + (BountyHeld' - BountyHeld)
      BY <2>1, <2>2, BoundsAssumption DEF BountyHeld
    <2>. QED
      BY <2>1, <2>2, <2>3, SettlementBalance
  <1>3. ASSUME NEW r \in Rounds, CompletePaid(r) \/ CompleteOwing(r)
        PROVE  Balanced'
    <2>1. PICK taken \in {FALSE, BountyMatches(r)} :
             /\ bounty' = BountyAfter(taken)
             /\ \/ Pay(r, Completed(r), BalanceAfter(taken))
                \/ Owe(r, Completed(r), BalanceAfter(taken))
      BY <1>3 DEF CompletePaid, CompleteOwing
    <2>2. Completed(r) \in RoundType
      <3>1. Active(r)
        BY <1>3 DEF IInv, WorkList, CompletePaid, CompleteOwing, CompleteRound, Visited, IsNext
      <3>2. round[r].plan = NoPlan /\ round[r].refund = NoRefund
        BY <3>1 DEF IInv, Ledger, RoundShape, Active
      <3>. QED
        BY <3>2, CompletedFacts DEF IInv
    <2>. QED
      BY <2>1, <2>2, BountyMoves, SettlementBalance
  <1>4. CASE ProcessDemandBounties \/ ProcessExpiredBounties
    <2>1. /\ custody' = custody
          /\ \/ UNCHANGED <<moduleBal, bounty>>
             \/ ~bounty.open /\ bounty'.open /\ moduleBal' = moduleBal + BountyReward
             \/ bounty.open /\ ~bounty'.open /\ moduleBal' = moduleBal - BountyReward
      BY <1>4 DEF ProcessDemandBounties, ProcessExpiredBounties, NoBounty
    <2>2. Total(custody) \in Nat /\ BountyReward \in Nat
      BY RoundsAssumption, BoundsAssumption, TotalNat DEF IInv, TypeOK
    <2>. QED
      BY <2>1, <2>2 DEF Balanced, BountyHeld, Total, Coins
  <1>5. ASSUME \/ UNCHANGED vars \/ NextBlock \/ PendingDone \/ AdvanceDone
               \/ \E m \in MinVerifiersChoices : UpdateParams(m)
               \/ \E r \in Rounds : PendingStop(r)
               \/ \E r \in Rounds, v \in Accounts :
                     SubmitReveal(r, v) \/ \E vote \in VoteOptions : SubmitCommitment(r, v, vote)
        PROVE  Balanced'
    BY <1>5, MoneyUntouched DEF vars, NextBlock, PendingDone, AdvanceDone, UpdateParams,
                             PendingStop, SubmitReveal, SubmitCommitment
  <1>6. ASSUME NEW r \in Rounds, KeepPhase(r) \/ OpenReveal(r) \/ CompleteFails(r)
        PROVE  Balanced'
    BY <1>6, MoneyUntouched DEF KeepPhase, OpenReveal, CompleteFails
  <1>. QED
    BY <1>1, <1>2, <1>3, <1>4, <1>5, <1>6 DEF Next, Tx, Block, PendingStep, AdvanceStep

\* Custody is what is owed, claim by claim, so the two sums are the same.
LEMMA BalancedIsSolvent == IInv => (Balanced <=> Solvent)
  <1>. SUFFICES ASSUME IInv PROVE Balanced <=> Solvent
    OBVIOUS
  <1>1. custody = [r \in Rounds |-> Liability(r)]
    BY DEF IInv, TypeOK, Ledger, CustodyCovers
  <1>. QED
    BY <1>1 DEF Balanced, Solvent, BountyHeld

\* For any number of rounds and payments, the shared module account holds
\* exactly what all claims and the open bounty together are owed.
THEOREM ModuleIsSolvent == Spec => []Solvent
  <1>1. Init => Balanced
    <2>. SUFFICES ASSUME Init PROVE Balanced
      OBVIOUS
    <2>1. Total(custody) = 0
      BY TotalZero DEF Init
    <2>. QED
      BY <2>1 DEF Init, Balanced, BountyHeld, NoBounty
  <1>2. IInv /\ Balanced => Solvent
    BY BalancedIsSolvent
  <1>. QED
    BY <1>1, <1>2, NextBalanced, Invariance, PTL DEF Spec

-----------------------------------------------------------------------------
(* Payments *)

\* What the markers of record rd, of claim c, say account a has received.
PaidOf(c, rd, a) ==
    (IF HasPlan(rd) /\ rd.plan.paidAt # 0 THEN ShareOf(rd.plan, a) ELSE 0) +
    (IF HasRefund(rd) /\ rd.refund.paidAt # 0 /\ c.submitter = a THEN rd.refund.amount ELSE 0)

\* The share of an account in a plan with payees is an amount.
LEMMA ShareNat ==
    ASSUME NEW rd \in RoundType, HasPlan(rd), NEW a \in Accounts
    PROVE  ShareOf(rd.plan, a) \in Nat
  <1>1. Len(rd.plan.payees) \in Nat \ {0} /\ rd.plan.pool \in Nat
    BY DEF RoundType, PlanType, HasPlan
  <1>2. \A i : Share(rd.plan, i) \in Nat
    BY <1>1, DivNat DEF Share
  <1>. QED
    BY <1>2 DEF ShareOf

\* What the markers say is an amount.
LEMMA PaidOfNat ==
    ASSUME NEW rd \in RoundType, NEW c, NEW a \in Accounts
    PROVE  PaidOf(c, rd, a) \in Nat
  <1>1. HasPlan(rd) => ShareOf(rd.plan, a) \in Nat
    BY ShareNat
  <1>2. rd.refund.amount \in Nat
    BY DEF RoundType, RefundType
  <1>. QED
    BY <1>1, <1>2 DEF PaidOf

\* Without markers nothing is paid.
LEMMA NothingPaid ==
    ASSUME NEW rd, NEW c, NEW a, rd.plan.paidAt = 0, rd.refund.paidAt = 0
    PROVE  PaidOf(c, rd, a) = 0
  BY DEF PaidOf

\* A settlement marks exactly the legs it sends.
LEMMA SettlementMarks ==
    ASSUME height \in Nat \ {0}, NEW rd \in RoundType, NEW c, NEW a \in Accounts
    PROVE  PaidOf(c, Settled(rd), a) = PaidOf(c, rd, a) + LegsTo(c, rd, a)
  <1>. DEFINE s == Settled(rd)
              p == IF PlanDue(rd) THEN height ELSE rd.plan.paidAt
              f == IF RefundDue(rd) THEN height ELSE rd.refund.paidAt
              share == ShareOf(rd.plan, a)
  <1>1. /\ s.plan = [pool |-> rd.plan.pool, payees |-> rd.plan.payees, paidAt |-> p]
        /\ s.refund = [amount |-> rd.refund.amount, paidAt |-> f]
    BY SettledFields, Zenon
  <1>. HIDE DEF s, p, f
  <1>2. /\ s.plan.pool = rd.plan.pool /\ s.plan.payees = rd.plan.payees /\ s.plan.paidAt = p
        /\ s.refund.amount = rd.refund.amount /\ s.refund.paidAt = f
    BY <1>1
  <1>3. ShareOf(s.plan, a) = share
    BY <1>2 DEF ShareOf, Share
  <1>4. HasPlan(rd) => share \in Nat
    BY ShareNat
  <1>5. rd.refund.amount \in Nat
    BY DEF RoundType, RefundType
  <1>. HIDE DEF share
  <1>6. PaidOf(c, s, a) =
           (IF HasPlan(rd) /\ p # 0 THEN share ELSE 0) +
           (IF HasRefund(rd) /\ f # 0 /\ c.submitter = a THEN rd.refund.amount ELSE 0)
    BY <1>2, <1>3 DEF PaidOf, HasPlan, HasRefund
  <1>7. (IF HasPlan(rd) /\ p # 0 THEN share ELSE 0) =
           (IF HasPlan(rd) /\ rd.plan.paidAt # 0 THEN share ELSE 0) +
           (IF PlanDue(rd) THEN share ELSE 0)
    BY <1>4 DEF p, PlanDue
  <1>8. (IF HasRefund(rd) /\ f # 0 /\ c.submitter = a THEN rd.refund.amount ELSE 0) =
           (IF HasRefund(rd) /\ rd.refund.paidAt # 0 /\ c.submitter = a
            THEN rd.refund.amount ELSE 0) +
           (IF RefundDue(rd) /\ c.submitter = a THEN rd.refund.amount ELSE 0)
    BY <1>5 DEF f, RefundDue
  <1>9. ASSUME NEW x \in Nat, NEW y \in Nat, NEW u \in Nat, NEW w \in Nat
        PROVE  (x + y) + (u + w) = (x + u) + (y + w)
    OBVIOUS
  <1>10. /\ (IF HasPlan(rd) /\ rd.plan.paidAt # 0 THEN share ELSE 0) \in Nat
         /\ (IF PlanDue(rd) THEN share ELSE 0) \in Nat
         /\ (IF HasRefund(rd) /\ rd.refund.paidAt # 0 /\ c.submitter = a
             THEN rd.refund.amount ELSE 0) \in Nat
         /\ (IF RefundDue(rd) /\ c.submitter = a THEN rd.refund.amount ELSE 0) \in Nat
    BY <1>4, <1>5 DEF PlanDue
  <1>. QED
    BY <1>6, <1>7, <1>8, <1>9, <1>10 DEF PaidOf, LegsTo, share, s

\* A step that changes the record of one claim and sends what its markers gain.
LEMMA PaymentMoves ==
    ASSUME IInv, IInv', PaidExactlyOnce, NEW r \in Rounds,
           \A q \in Rounds : q # r => claim'[q] = claim[q] /\ round'[q] = round[q],
           \A a \in Accounts :
              received'[a] = received[a] + (PaidOf(claim'[r], round'[r], a)
                                              - PaidOf(claim[r], round[r], a))
    PROVE  PaidExactlyOnce'
  <1>. SUFFICES ASSUME NEW a \in Accounts
                PROVE  received'[a] = Total([q \in Rounds |-> PaidOf(claim'[q], round'[q], a)])
    BY DEF PaidExactlyOnce, PaidShare, PaidOf, Total, Coins
  <1>. DEFINE f == [q \in Rounds |-> PaidOf(claim[q], round[q], a)]
              g == [q \in Rounds |-> PaidOf(claim'[q], round'[q], a)]
  <1>1. received[a] = Total(f) /\ received[a] \in Nat
    BY DEF PaidExactlyOnce, PaidShare, PaidOf, IInv, TypeOK
  <1>2. f \in [Rounds -> Nat] /\ g \in [Rounds -> Nat]
    <2>1. \A q \in Rounds : round[q] \in RoundType /\ round'[q] \in RoundType
      BY DEF IInv, TypeOK
    <2>. QED
      BY <2>1, PaidOfNat
  <1>3. /\ \A q \in Rounds : q # r => g[q] = f[q]
        /\ received'[a] = received[a] + (g[r] - f[r])
    OBVIOUS
  <1>. HIDE DEF f, g
  <1>4. Total(f) \in Nat /\ Total(g) \in Nat /\ Total(g) = Total(f) - f[r] + g[r]
    BY <1>2, <1>3, RoundTotals
  <1>5. f[r] \in Nat /\ g[r] \in Nat
    BY <1>2
  <1>6. received'[a] = Total(g)
    BY <1>1, <1>3, <1>4, <1>5
  <1>. QED
    BY <1>6 DEF g

\* A step that pays nobody and keeps every record and payer.
LEMMA PaymentsUntouched ==
    ASSUME PaidExactlyOnce, UNCHANGED <<claim, round, received>>
    PROVE  PaidExactlyOnce'
  BY DEF PaidExactlyOnce, PaidShare, Total, Coins

\* A round that is undecided before and after the step has paid nothing.
LEMMA UndecidedPaysNothing ==
    ASSUME IInv, IInv', PaidExactlyOnce, NEW r \in Rounds,
           \A q \in Rounds : q # r => claim'[q] = claim[q] /\ round'[q] = round[q],
           round[r].phase # "COMPLETE", round'[r].phase # "COMPLETE", received' = received
    PROVE  PaidExactlyOnce'
  <1>1. /\ round[r].plan = NoPlan /\ round[r].refund = NoRefund
        /\ round'[r].plan = NoPlan /\ round'[r].refund = NoRefund
    BY DEF IInv, Ledger, RoundShape
  <1>2. /\ round[r].plan.paidAt = 0 /\ round[r].refund.paidAt = 0
        /\ round'[r].plan.paidAt = 0 /\ round'[r].refund.paidAt = 0
    BY <1>1 DEF NoPlan, NoRefund
  <1>3. ASSUME NEW a \in Accounts
        PROVE  received'[a] = received[a] + (PaidOf(claim'[r], round'[r], a)
                                               - PaidOf(claim[r], round[r], a))
    <2>1. PaidOf(claim'[r], round'[r], a) = 0 /\ PaidOf(claim[r], round[r], a) = 0
      BY <1>2, NothingPaid
    <2>2. received[a] \in Nat
      BY DEF IInv, TypeOK
    <2>. QED
      BY <2>1, <2>2
  <1>. QED
    BY <1>3, PaymentMoves

\* A settlement attempt sends what it marks: all unpaid legs, or nothing.
LEMMA AttemptPaysOnce ==
    ASSUME IInv, IInv', PaidExactlyOnce, NEW r \in Rounds, NEW rd \in RoundType, NEW bal,
           Pay(r, rd, bal) \/ Owe(r, rd, bal), UNCHANGED claim,
           \A a \in Accounts : PaidOf(claim[r], rd, a) = PaidOf(claim[r], round[r], a)
    PROVE  PaidExactlyOnce'
  <1>1. height \in Nat \ {0} /\ round \in [Rounds -> RoundType] /\ received \in [Accounts -> Nat]
    BY DEF IInv, TypeOK
  <1>2. \A a \in Accounts : PaidOf(claim[r], round[r], a) \in Nat /\ LegsTo(claim[r], rd, a) \in Nat
    BY <1>1, PaidOfNat, LegsToNat
  <1>3. CASE Pay(r, rd, bal)
    <2>1. /\ round'[r] = Settled(rd)
          /\ \A q \in Rounds : q # r => claim'[q] = claim[q] /\ round'[q] = round[q]
          /\ \A a \in Accounts : received'[a] = received[a] + LegsTo(claim[r], rd, a)
      BY <1>1, <1>3 DEF Pay
    <2>2. ASSUME NEW a \in Accounts
          PROVE  received'[a] = received[a] + (PaidOf(claim'[r], round'[r], a)
                                                 - PaidOf(claim[r], round[r], a))
      <3>1. PaidOf(claim'[r], round'[r], a) =
              PaidOf(claim[r], round[r], a) + LegsTo(claim[r], rd, a)
        BY <1>1, <2>1, SettlementMarks
      <3>2. received[a] \in Nat
        BY <1>1
      <3>. QED
        BY <1>2, <2>1, <3>1, <3>2
    <2>. QED
      BY <2>1, <2>2, PaymentMoves
  <1>4. CASE Owe(r, rd, bal)
    <2>1. /\ round'[r] = rd /\ received' = received
          /\ \A q \in Rounds : q # r => claim'[q] = claim[q] /\ round'[q] = round[q]
      BY <1>1, <1>4 DEF Owe
    <2>2. ASSUME NEW a \in Accounts
          PROVE  received'[a] = received[a] + (PaidOf(claim'[r], round'[r], a)
                                                 - PaidOf(claim[r], round[r], a))
      <3>1. PaidOf(claim'[r], round'[r], a) = PaidOf(claim[r], round[r], a)
        BY <2>1
      <3>2. received[a] \in Nat
        BY <1>1
      <3>. QED
        BY <1>2, <2>1, <3>1, <3>2
    <2>. QED
      BY <2>1, <2>2, PaymentMoves
  <1>. QED
    BY <1>3, <1>4

\* Every step sends what it marks.
LEMMA NextPaysOnce == IInv /\ IInv' /\ PaidExactlyOnce /\ [Next]_vars => PaidExactlyOnce'
  <1>. SUFFICES ASSUME IInv, IInv', PaidExactlyOnce, [Next]_vars PROVE PaidExactlyOnce'
    OBVIOUS
  <1>. USE DEF books
  <1>1. ASSUME NEW r \in Rounds, SubmitClaim(r) \/ SubmitDispute(r)
        PROVE  PaidExactlyOnce'
    <2>1. /\ ~claim[r].admitted /\ received' = received
          /\ \A q \in Rounds : q # r => claim'[q] = claim[q] /\ round'[q] = round[q]
          /\ round'[r] = [NoRound EXCEPT !.phase = "COMMIT", !.start = height]
      BY <1>1 DEF SubmitClaim, SubmitDispute, Admit, IInv, TypeOK
    <2>2. round[r].phase # "COMPLETE" /\ round'[r].phase # "COMPLETE"
      BY <2>1, NoRoundType DEF IInv, Ledger, RoundShape, RoundType
    <2>. QED
      BY <2>1, <2>2, UndecidedPaysNothing
  <1>2. ASSUME NEW r \in Rounds,
               \/ \E v \in Accounts : SubmitReveal(r, v)
               \/ \E v \in Accounts, vote \in VoteOptions : SubmitCommitment(r, v, vote)
        PROVE  PaidExactlyOnce'
    <2>0. round \in [Rounds -> RoundType]
      BY DEF IInv, TypeOK
    <2>1. CASE \E v \in Accounts : SubmitReveal(r, v)
      <3>1. /\ round[r].phase # "COMPLETE" /\ received' = received /\ claim' = claim
            /\ round'[r].phase = round[r].phase
            /\ \A q \in Rounds : q # r => round'[q] = round[q]
        BY <2>0, <2>1 DEF SubmitReveal, RoundType
      <3>. QED
        BY <3>1, UndecidedPaysNothing
    <2>2. CASE \E v \in Accounts, vote \in VoteOptions : SubmitCommitment(r, v, vote)
      <3>1. /\ round[r].phase # "COMPLETE" /\ received' = received /\ claim' = claim
            /\ round'[r].phase = round[r].phase
            /\ \A q \in Rounds : q # r => round'[q] = round[q]
        BY <2>0, <2>2 DEF SubmitCommitment, RoundType
      <3>. QED
        BY <3>1, UndecidedPaysNothing
    <2>. QED
      BY <1>2, <2>1, <2>2
  <1>3. ASSUME NEW r \in Rounds, OpenReveal(r) \/ CompleteFails(r)
        PROVE  PaidExactlyOnce'
    <2>1. Active(r) /\ UNCHANGED <<claim, received>>
      BY <1>3 DEF IInv, WorkList, OpenReveal, CompleteFails, Visited, IsNext
    <2>2. PICK ph \in {"COMMIT", "REVEAL", "AGGREGATION"} : round' = [round EXCEPT ![r].phase = ph]
      BY <1>3, <2>1 DEF OpenReveal, CompleteFails, StoredPhase, Active
    <2>3. round \in [Rounds -> RoundType]
      BY DEF IInv, TypeOK
    <2>4. round[r].phase # "COMPLETE"
      BY <2>1 DEF Active
    <2>5. \A q \in Rounds : q # r => round'[q] = round[q]
      BY <2>2, <2>3
    <2>6. round'[r].phase = ph
      <3>1. round'[r] = [round[r] EXCEPT !.phase = ph] /\ round[r] \in RoundType
        BY <2>2, <2>3
      <3>. QED
        BY <3>1 DEF RoundType
    <2>7. round'[r].phase # "COMPLETE"
      BY <2>2, <2>6
    <2>. QED
      BY <2>1, <2>4, <2>5, <2>7, UndecidedPaysNothing
  <1>4. ASSUME NEW r \in Rounds, PendingPaid(r) \/ PendingUnpaid(r)
        PROVE  PaidExactlyOnce'
    <2>1. /\ Pay(r, round[r], moduleBal) \/ Owe(r, round[r], moduleBal)
          /\ UNCHANGED claim /\ round[r] \in RoundType
      BY <1>4 DEF PendingPaid, PendingUnpaid, PendingTried, IInv, TypeOK
    <2>. QED
      BY <2>1, AttemptPaysOnce
  <1>5. ASSUME NEW r \in Rounds, CompletePaid(r) \/ CompleteOwing(r)
        PROVE  PaidExactlyOnce'
    <2>1. Active(r) /\ UNCHANGED claim
      BY <1>5 DEF IInv, WorkList, CompletePaid, CompleteOwing, CompleteRound, Visited, IsNext
    <2>2. round[r].plan = NoPlan /\ round[r].refund = NoRefund
      BY <2>1 DEF IInv, Ledger, RoundShape, Active
    <2>3. /\ Completed(r) \in RoundType
          /\ Completed(r).plan.paidAt = 0 /\ Completed(r).refund.paidAt = 0
      BY <2>2, CompletedFacts DEF IInv
    <2>4. round[r].plan.paidAt = 0 /\ round[r].refund.paidAt = 0
      BY <2>2 DEF NoPlan, NoRefund
    <2>5. \A a \in Accounts : PaidOf(claim[r], Completed(r), a) = PaidOf(claim[r], round[r], a)
      BY <2>3, <2>4, NothingPaid
    <2>6. \E bal : Pay(r, Completed(r), bal) \/ Owe(r, Completed(r), bal)
      BY <1>5 DEF CompletePaid, CompleteOwing
    <2>. QED
      BY <2>1, <2>3, <2>5, <2>6, AttemptPaysOnce
  <1>6. ASSUME \/ UNCHANGED vars \/ NextBlock \/ PendingDone \/ AdvanceDone
               \/ ProcessDemandBounties \/ ProcessExpiredBounties
               \/ \E m \in MinVerifiersChoices : UpdateParams(m)
               \/ \E r \in Rounds : PendingStop(r) \/ KeepPhase(r)
        PROVE  PaidExactlyOnce'
    BY <1>6, PaymentsUntouched
       DEF vars, NextBlock, PendingDone, AdvanceDone, ProcessDemandBounties,
           ProcessExpiredBounties, UpdateParams, PendingStop, KeepPhase, Visited
  <1>. QED
    BY <1>1, <1>2, <1>3, <1>4, <1>5, <1>6 DEF Next, Tx, Block, PendingStep, AdvanceStep

\* For any number of rounds, reviewers and retries, every account has received
\* the legs marked paid, each once, and nothing else.
THEOREM EveryLegPaidOnce == Spec => []PaidExactlyOnce
  <1>1. Init => PaidExactlyOnce
    <2>. SUFFICES ASSUME Init, NEW a \in Accounts
                  PROVE  received[a] = Total([r \in Rounds |-> PaidShare(r, a)])
      BY DEF PaidExactlyOnce
    <2>1. ASSUME NEW r \in Rounds PROVE PaidShare(r, a) = 0
      <3>1. round[r].plan = NoPlan /\ round[r].refund = NoRefund
        BY NoRoundType DEF Init
      <3>2. round[r].plan.paidAt = 0 /\ round[r].refund.paidAt = 0
        BY <3>1 DEF NoPlan, NoRefund
      <3>. QED
        BY <3>2 DEF PaidShare
    <2>. DEFINE f == [r \in Rounds |-> PaidShare(r, a)]
    <2>2. f \in [Rounds -> Nat] /\ \A r \in Rounds : f[r] = 0
      BY <2>1
    <2>3. received[a] = 0
      BY DEF Init
    <2>. HIDE DEF f
    <2>4. Total(f) = 0
      BY <2>2, TotalZero
    <2>. QED
      BY <2>3, <2>4 DEF f
  <1>. QED
    BY <1>1, NextPaysOnce, Invariance, PTL DEF Spec

=============================================================================
