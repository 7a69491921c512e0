------------------------------ MODULE Vesting ------------------------------
(***************************************************************************)
(* Truth-linked vesting of x/vesting_rewards: schedules handed over by     *)
(* x/knowledge or created by the authority, the release curve in integer   *)
(* arithmetic, claims paid from the module account, pauses, evidence that  *)
(* accelerates, completion, and falsification with its clawback record.    *)
(*                                                                         *)
(* The claimable amount is always recomputed before it is used and is not  *)
(* state here.  One category; its fixed-point constants are parameters, so *)
(* that TLC's integers can hold the products.                              *)
(***************************************************************************)
EXTENDS Integers, FiniteSetsExt, Totals

CONSTANTS
    Claims,          \* claim ids under which knowledge hands rewards over
    Facts,           \* fact ids; the authority uses one as claim id and fact id
    FactOf,          \* FactOf[c]: the fact of claim c
    Recipients,
    Totals,          \* amounts of schedules
    CliffBlocks, HalfLifeBlocks, MaxRelease,   \* the CategoryConfig, MaxRelease of 1000000
    Precision, FractionalScale, Ln2Scaled,     \* 10^18, 10^6 and 693147 in the code
    ReleasedClawbackRate,                      \* of 10000
    Evidence,        \* kinds of evidence recorded
    MaxEvidence,     \* bound on each counter
    Funds,           \* initial balances of the module account
    LastCreation,    \* last height with a new schedule
    MaxHeight

Whole == 1000000 \* parts per million

\* Powers of two are positive: the prover has no arithmetic of exponents.
ConfigAssumption ==
    /\ IsFiniteSet(Claims) /\ IsFiniteSet(Facts) /\ IsFiniteSet(Recipients)
    /\ \A n \in 0..MaxHeight : 2^n \in Nat \ {0}
    /\ CliffBlocks \in Nat /\ HalfLifeBlocks \in Nat \ {0}
    /\ MaxRelease \in 0..Whole /\ ReleasedClawbackRate \in 0..10000
    /\ Precision \in Nat \ {0} /\ FractionalScale \in Nat \ {0} /\ Ln2Scaled \in Nat
    /\ Evidence \subseteq {"defense", "replication", "corroboration", "citation"}
    /\ Totals \subseteq Nat \ {0} /\ Funds \subseteq Nat
    /\ MaxEvidence \in Nat /\ LastCreation \in Nat /\ MaxHeight \in Nat \ {0}
FactOfAssumption == Claims \cap Facts = {} /\ FactOf \in [Claims -> Facts]

VARIABLES
    height,
    schedule,    \* schedule[id]
    claimIndex,  \* claimIndex[k]: the schedule last written under claim id k
    disproven,   \* facts that are DISPROVEN
    clawbacks,   \* clawback records
    balance,     \* the module account
    paid         \* paid[r]: sent to account r

vars == <<height, schedule, claimIndex, disproven, clawbacks, balance, paid>>

Keys == Claims \cup Facts
None == <<>>
\* The id is a hash of claim id, recipient and height.
Ids == Keys \X Recipients \X (1..LastCreation)

NoSchedule == [status |-> "none", total |-> 0, released |-> 0, pausedAt |-> 0, totalPaused |-> 0,
               evidence |-> [e \in Evidence |-> 0], age |-> 0]

Exists(id) == schedule[id].status # "none"
LinkedFact(id) == IF id[1] \in Facts THEN id[1] ELSE FactOf[id[1]]
AcceptedAt(id) == id[3]

-----------------------------------------------------------------------------
(* The release curve *)

\* calculateAccelerationBonusBps
BonusBps(s) ==
    LET bonus(kind, each, cap) == IF kind \in Evidence THEN Min({cap, s.evidence[kind] * each}) ELSE 0
    IN  Min({7700, bonus("defense", 1100, 5500) + bonus("replication", 1100, 3300)
                   + bonus("corroboration", 500, 2200) + bonus("citation", 200, 2200)})

EffectiveHalfLife(s) ==
    IF BonusBps(s) = 0 THEN HalfLifeBlocks
    ELSE Max({1, (HalfLifeBlocks * 10000) \div (10000 + BonusBps(s))})

\* Slip: the series is cut after its first term and the sign of x is lost.
FractionalHalvingShort(remainder, halfLife) ==
    LET x  == ((remainder * Ln2Scaled) \div halfLife) * (Precision \div FractionalScale)
    IN  Max({0, Min({Precision, x})})

\* 2^(-remainder/halfLife) by the fourth-order series of e^(-x).
FractionalHalving(remainder, halfLife) ==
    LET x  == ((remainder * Ln2Scaled) \div halfLife) * (Precision \div FractionalScale)
        x2 == (x * x) \div Precision
        x3 == (x2 * x) \div Precision
        x4 == (x3 * x) \div Precision
    IN  Max({0, Min({Precision, Precision - x + x2 \div 2 - x3 \div 6 + x4 \div 24})})

\* calculateHalvingFactor
HalvingFactor(elapsed, halfLife) ==
    LET full == elapsed \div halfLife
        remainder == elapsed % halfLife
        remaining == Precision \div 2^full
    IN  IF full >= 60 THEN 0
        ELSE IF remainder = 0 THEN remaining
        ELSE (remaining * FractionalHalving(remainder, halfLife)) \div Precision

\* Blocks since acceptance that were not paused.
Elapsed(id) ==
    LET s == schedule[id]
    IN  height - AcceptedAt(id) - s.totalPaused - (IF s.status = "paused" THEN height - s.pausedAt ELSE 0)

ReleaseFraction(id) ==
    Min({(MaxRelease * Precision) \div Whole,
         Max({0, Precision - HalvingFactor(Elapsed(id) - CliffBlocks, EffectiveHalfLife(schedule[id]))})})

\* CalculateReleasedAmount
Vested(id) ==
    IF height < AcceptedAt(id) + CliffBlocks \/ Elapsed(id) <= CliffBlocks THEN 0
    ELSE (schedule[id].total * ReleaseFraction(id)) \div Precision

ReserveOf(total) == (total * (Whole - MaxRelease)) \div Whole
MaxReleased(total) == (total * MaxRelease) \div Whole

\* UpdateClaimableAmount, for a schedule that ClaimRewards does not skip.
Claimable(id) ==
    IF schedule[id].status = "active" THEN Max({0, Vested(id) - schedule[id].released}) ELSE 0

-----------------------------------------------------------------------------
(* Creation *)

\* Every write of a schedule points its claim id at it.
Written(id) == claimIndex' = [claimIndex EXCEPT ![id[1]] = id]

\* createVestingScheduleWithConfig refuses an id that exists.
Created(id, total) ==
    /\ ~Exists(id)
    /\ schedule' = [schedule EXCEPT ![id] = [NoSchedule EXCEPT !.status = "active", !.total = total]]
    /\ Written(id)
    /\ UNCHANGED <<height, disproven, clawbacks, balance, paid>>

CreateVesting(f, r, total) == height <= LastCreation /\ Created(<<f, r, height>>, total)

\* createKnowledgeVestingSchedule: a claim that has a schedule gets no other;
\* an equal one counts as done, a different one is an error.
CreateVestingScheduleFromKnowledge(c, r, total) ==
    /\ height <= LastCreation
    /\ claimIndex[c] = None
    /\ Created(<<c, r, height>>, total)

-----------------------------------------------------------------------------
(* Claims *)

PaidOut(id) ==
    [schedule[id] EXCEPT
        !.released = @ + Claimable(id),
        !.status = IF Claimable(id) > 0 /\ schedule[id].released + Claimable(id) >= MaxReleased(schedule[id].total)
                   THEN "completed" ELSE @]

Due(S) == Total([id \in S |-> Claimable(id)])

\* ClaimRewards for the schedules S of r: all of them are written, or the
\* transaction fails because nothing is due or the account cannot pay.  Active
\* schedules of one claim id are written one after the other.
ClaimRewards(r, S) ==
    /\ Due(S) > 0
    /\ Due(S) <= balance
    /\ schedule' = [id \in Ids |-> IF id \in S THEN PaidOut(id) ELSE schedule[id]]
    /\ claimIndex' \in [Keys -> Ids \cup {None}]
    /\ \A k \in Keys :
          LET touched == {id \in S : id[1] = k /\ schedule[id].status = "active"}
          IN  IF touched = {} THEN claimIndex'[k] = claimIndex[k] ELSE claimIndex'[k] \in touched
    /\ balance' = balance - Due(S)
    /\ paid' = [paid EXCEPT ![r] = @ + Due(S)]
    /\ UNCHANGED <<height, disproven, clawbacks>>

SchedulesOf(r) == {id \in Ids : Exists(id) /\ id[2] = r}

\* One schedule, or all of the claimer's.
ClaimVesting(r) ==
    \/ \E id \in SchedulesOf(r) : ClaimRewards(r, {id})
    \/ ClaimRewards(r, SchedulesOf(r))

-----------------------------------------------------------------------------
(* Pauses, evidence, completion *)

Rewritten(id, s) ==
    /\ schedule' = [schedule EXCEPT ![id] = s]
    /\ Written(id)
    /\ UNCHANGED <<height, disproven, clawbacks, balance, paid>>

PauseVesting(id) ==
    /\ schedule[id].status = "active"
    /\ Rewritten(id, [schedule[id] EXCEPT !.status = "paused", !.pausedAt = height])

ResumeVesting(id) ==
    /\ schedule[id].status = "paused"
    /\ Rewritten(id, [schedule[id] EXCEPT !.status = "active", !.pausedAt = 0,
                                          !.totalPaused = @ + (height - schedule[id].pausedAt)])

\* AccelerateVesting, for a schedule in any status.
AccelerateVesting(id, e) ==
    /\ Exists(id)
    /\ schedule[id].evidence[e] < MaxEvidence
    /\ Rewritten(id, [schedule[id] EXCEPT !.evidence[e] = @ + 1])

\* By the recipient or the authority; what is claimable stays unpaid.
CompleteVesting(id) ==
    /\ schedule[id].status \in {"active", "paused"}
    /\ Rewritten(id, [schedule[id] EXCEPT !.status = "completed"])

-----------------------------------------------------------------------------
(* Falsification *)

Disprove(f) ==
    /\ f \notin disproven
    /\ disproven' = disproven \cup {f}
    /\ UNCHANGED <<height, schedule, claimIndex, clawbacks, balance, paid>>

\* The amounts of FalsifyClaim.
ClawbackOf(id) ==
    LET s == schedule[id]
        released == (s.released * ReleasedClawbackRate) \div 10000
        unvested == Max({0, s.total - s.released - ReserveOf(s.total)})
    IN  [schedule |-> id, at |-> height, released |-> released, unvested |-> unvested,
         reserve |-> ReserveOf(s.total), reward |-> released + unvested + ReserveOf(s.total)]

\* IsFactDisproven for the schedule's fact.
Adjudicated(id) == LinkedFact(id) \in disproven

\* The record id is a hash of claim id and height.
SameRecord(c, id) == c.schedule[1] = id[1] /\ c.at = height

\* MsgFalsifyVesting names schedule id, FalsifyClaim takes the one the
\* claim index names.  A second one of that claim id and height
\* replaces the first one's record.  Nothing is transferred.
FalsifyVesting(id) ==
    /\ Exists(id)
    /\ LET target == claimIndex[id[1]]
       IN  /\ schedule[target].status # "falsified"
           /\ Adjudicated(target)
           /\ schedule' = [schedule EXCEPT ![target].status = "falsified"]
           /\ Written(target)
           /\ clawbacks' = {c \in clawbacks : ~SameRecord(c, target)} \cup {ClawbackOf(target)}
    /\ UNCHANGED <<height, disproven, balance, paid>>

\* age counts the blocks a schedule was not paused: history.
NextBlock ==
    /\ height < MaxHeight
    /\ height' = height + 1
    /\ schedule' = [id \in Ids |-> IF schedule[id].status = "active"
                                   THEN [schedule[id] EXCEPT !.age = @ + 1] ELSE schedule[id]]
    /\ UNCHANGED <<claimIndex, disproven, clawbacks, balance, paid>>

-----------------------------------------------------------------------------

Init ==
    /\ height = 1
    /\ schedule = [id \in Ids |-> NoSchedule]
    /\ claimIndex = [k \in Keys |-> None]
    /\ disproven = {} /\ clawbacks = {}
    /\ balance \in Funds
    /\ paid = [r \in Recipients |-> 0]

Next ==
    \/ \E r \in Recipients :
          \/ \E total \in Totals :
                \/ \E f \in Facts : CreateVesting(f, r, total)
                \/ \E c \in Claims : CreateVestingScheduleFromKnowledge(c, r, total)
          \/ ClaimVesting(r)
    \/ \E id \in Ids :
          \/ PauseVesting(id) \/ ResumeVesting(id) \/ CompleteVesting(id) \/ FalsifyVesting(id)
          \/ \E e \in Evidence : AccelerateVesting(id, e)
    \/ \E f \in Facts : Disprove(f)
    \/ NextBlock

Spec == Init /\ [][Next]_vars

-----------------------------------------------------------------------------
(* Properties *)

TypeOK ==
    /\ height \in 1..MaxHeight
    /\ schedule \in [Ids -> [status : {"none", "active", "paused", "completed", "falsified"},
                             total : Totals \cup {0}, released : Nat, pausedAt : 0..MaxHeight,
                             totalPaused : 0..MaxHeight, evidence : [Evidence -> 0..MaxEvidence],
                             age : 0..MaxHeight]]
    /\ claimIndex \in [Keys -> Ids \cup {None}]
    /\ disproven \subseteq Facts
    /\ balance \in Nat /\ paid \in [Recipients -> Nat]

\* What was released, the reserve and what is still to vest never exceed the
\* schedule: releases stop at the category's cap however evidence speeds the
\* curve up, in integer arithmetic too.
WithinCap ==
    \A id \in Ids : Exists(id) =>
        /\ schedule[id].released <= MaxReleased(schedule[id].total)
        /\ schedule[id].released + ReserveOf(schedule[id].total) <= schedule[id].total

\* The amounts the schedules show as released are exactly what their
\* recipients were sent, whether they claim one schedule or all.
PaidIsReleased ==
    \A r \in Recipients : paid[r] = Total([id \in SchedulesOf(r) |-> schedule[id].released])

\* Paused time earns nothing and is counted once: the curve is read at the
\* number of blocks the schedule really ran.
PausedTimeExcluded ==
    \A id \in Ids : schedule[id].status \in {"active", "paused"} => Elapsed(id) = schedule[id].age

\* What a recipient may have in total never falls, through pauses, evidence
\* and the passing of time.
VestedNeverFalls ==
    \A id \in Ids : schedule[id].status \in {"active", "paused"} /\ schedule'[id].status \in {"active", "paused"} =>
       Vested(id)' >= Vested(id)

\* A falsified schedule never pays and never leaves that status; a completed
\* one never pays.
EndedStaysEnded ==
    \A id \in Ids :
       /\ schedule[id].status = "falsified" => schedule'[id].status = "falsified"
       /\ schedule[id].status \in {"falsified", "completed"} => schedule'[id].released = schedule[id].released

\* A clawback splits the schedule without loss: what the record forfeits and
\* what the recipient keeps make up the total.
ClawbackConserves ==
    \A c \in clawbacks :
        c.reward + (schedule[c.schedule].released - c.released) = schedule[c.schedule].total

\* A schedule is falsified only if the fact it pays for is DISPROVEN, and
\* once: it never has two clawback records, whatever was written in between.
FalsifiedIsDisproven ==
    \A id \in Ids : schedule[id].status = "falsified" =>
        LinkedFact(id) \in disproven /\ Cardinality({c \in clawbacks : c.schedule = id}) <= 1

\* The claim index names a schedule of its claim once there is one, and a
\* claim handed over by knowledge has no second schedule.
OneSchedulePerClaim ==
    /\ \A id \in Ids : Exists(id) => claimIndex[id[1]] # None /\ claimIndex[id[1]][1] = id[1]
    /\ \A c \in Claims : Cardinality({id \in Ids : Exists(id) /\ id[1] = c}) <= 1

\* The handler's comment: "FalsifyVesting triggers clawback for a falsified
\* vesting schedule", the one the message names.
FalsifiesNamed == \A id \in Ids : FalsifyVesting(id) => schedule'[id].status = "falsified"

\* VESTING.md: "Challenger receives: 63 ZRN": after a clawback the module
\* account has paid the challenger's reward.
ChallengerRewarded ==
    \A c \in clawbacks' \ clawbacks : balance' = balance - c.reward

=============================================================================
