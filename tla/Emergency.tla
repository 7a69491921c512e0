----------------------------- MODULE Emergency -----------------------------
(***************************************************************************)
(* x/emergency and the way the application runs governance beside it.      *)
(* Guardians (and, for a while, the genesis council) open a ceremony, vote *)
(* in two rounds against an electorate frozen when it opens, and so halt   *)
(* transaction admission, resume it, or authorise one exact action of the  *)
(* SDK's governance while it is halted. Ceremonies are numbered in the     *)
(* order they open; with a cooldown of at least one block there is at most *)
(* one per block, so the number stands for the id of the code.             *)
(***************************************************************************)
EXTENDS Integers, FiniteSetsExt

CONSTANTS Guardians,     \* validators of the guardian tier
          StakeViews,    \* effective stakes the guardians move between; 0 is an inactive guardian
          ParamSets,     \* parameters governance chooses from
          Starts,        \* statuses a chain of an older release may hand over
          Manifests,     \* evidence a resume proposal commits to
          PlanHeights,   \* heights an upgrade may be planned for
          Actions,       \* actions recovery proposals may ask for
          EpochBlocks,
          MaxCeremonies, \* bound: ceremonies
          MaxProposals,  \* bound: proposals of the SDK's governance
          MaxHeight      \* bound: blocks

ParamsAssumption == \A p \in ParamSets : p.cooldown >= 1 /\ p.distinct >= 1 /\ p.maxHalt >= 1

Scale == 1000000
Ids == 1..MaxCeremonies
Legacy == MaxCeremonies + 1   \* legacyGenesisQuarantineID
Proposals == 1..MaxProposals
Quarantine == {"halted", "revert_voting", "reverting", "resume_voting"}
NoCeremony == [kind |-> "none", phase |-> "none"]
NoProposal == [st |-> "NONE"]

VARIABLES q,        \* status, incident, start, release latch, escalation mark, authorisation, active ceremony
          cer,      \* ceremonies
          attempt,  \* latest resume attempt of each incident and proposer
          budget,   \* proposals of this epoch, by guardian and in total, and the block of the last
          params,
          stake,    \* x/staking: effective stakes
          gov,      \* the SDK's governance: next number, proposals, scheduled plan
          hold,     \* x/gov: post-incident review hold
          height
vars == <<q, cer, attempt, budget, params, stake, gov, hold, height>>

Voters == Guardians \cup UNION {p.council : p \in ParamSets}
PowerOf(f, S) == MapThenSumSet(LAMBDA v : f[v], S)
Made == {i \in Ids : cer[i].kind # "none"}
Voting(c) == c.phase \in {"prevote", "precommit"}
Ratio(x, total) == (x * Scale) \div total

IsHalted(s, h) == s.status \in Quarantine \/ (s.release # 0 /\ h <= s.release)

-----------------------------------------------------------------------------
(* Slip: the latch of the release is skipped.                             *)
ResumedAtOnce(s, h) ==
    [s EXCEPT !.status = "normal", !.haltId = 0, !.haltStart = 0, !.escalated = 0, !.auth = {}]

-----------------------------------------------------------------------------
(* Electorate and ceremony.                                                *)
CouncilActive(h) == params.council # {} /\ h < params.expiry
IsGuardian(v, h) == (v \in Guardians /\ stake[v] > 0) \/ (CouncilActive(h) /\ v \in params.council)

(* buildCeremonyElectorateSnapshot: guardians with their stake, the rest of the council with its virtual stake. *)
Electorate(h) ==
    LET active == {g \in Guardians : stake[g] > 0}
        members == IF CouncilActive(h) THEN active \cup params.council ELSE active
    IN [v \in members |-> IF v \in active THEN stake[v] ELSE params.virtual]

(* The snapshot can be taken: enough power, enough addresses. *)
ElectorateReady(h) ==
    LET e == Electorate(h) total == PowerOf(e, DOMAIN e) IN
    /\ total > 0
    /\ CouncilActive(h) \/ total >= params.minStake
    /\ Cardinality(DOMAIN e) >= params.distinct

Lane(kind) == IF kind = "halt" THEN "halt" ELSE "resume"

NewCeremony(kind, prop, h) ==
    LET t == params.timing[Lane(kind)] IN
    [kind |-> kind, phase |-> "prevote", start |-> h, prevoteEnd |-> h + t.prevote,
     precommitEnd |-> h + t.prevote + t.precommit, timeout |-> h + t.timeout,
     power |-> Electorate(h), quorum |-> params.quorum[Lane(kind)], distinct |-> params.distinct,
     yes |-> {}, no |-> {}, pre |-> {}, yesPower |-> 0, noPower |-> 0, prePower |-> 0,
     reason |-> "", prop |-> prop]

CheckPrevotePhase(c, h) ==
    LET total == PowerOf(c.power, DOMAIN c.power) IN
    CASE Ratio(c.yesPower, total) >= c.quorum -> [c EXCEPT !.phase = "precommit"]
      [] Ratio(c.noPower, total) > Scale - c.quorum -> [c EXCEPT !.phase = "failed", !.reason = "impossible"]
      [] h > c.prevoteEnd -> [c EXCEPT !.phase = "failed", !.reason = "prevote"]
      [] OTHER -> c

CheckPrecommitPhase(c, h) ==
    LET total == PowerOf(c.power, DOMAIN c.power) IN
    CASE Ratio(c.prePower, total) >= c.quorum /\ Cardinality(c.pre) >= c.distinct -> [c EXCEPT !.phase = "finalized"]
      [] h > c.precommitEnd -> [c EXCEPT !.phase = "failed", !.reason = "precommit"]
      [] OTHER -> c

(* The stored sums are those of the votes of the frozen electorate. *)
TalliesValid(c) ==
    /\ c.yes \cup c.no \subseteq DOMAIN c.power /\ c.yes \cap c.no = {} /\ c.pre \subseteq c.yes
    /\ c.yesPower = PowerOf(c.power, c.yes)
    /\ c.noPower = PowerOf(c.power, c.no)
    /\ c.prePower = PowerOf(c.power, c.pre)

CheckCeremonyProgress(c, h) ==
    CASE ~Voting(c) -> c
      [] h > c.timeout -> [c EXCEPT !.phase = "failed", !.reason = "timeout"]
      [] ~TalliesValid(c) -> [c EXCEPT !.phase = "failed", !.reason = "tally"]
      [] c.phase = "prevote" -> CheckPrevotePhase(c, h)
      [] c.phase = "precommit" -> CheckPrecommitPhase(c, h)

-----------------------------------------------------------------------------
(* What a ceremony does when it ends.                                      *)
LiveAuth(s, h) == {a \in s.auth : a.outcome = "" /\ a.halt = s.haltId /\ IsHalted(s, h)}

(* VerifyRecoveryAuthorizationTarget *)
TargetVerified(p, s, g, h) ==
    CASE p.action = "revoke" -> \E a \in LiveAuth(s, h) : a.target = p.target /\ a.plan = p.plan /\ a.until = p.until
      [] p.action = "cancel" -> g.plan # 0 /\ g.plan = p.plan /\ p.target = g.next
      [] p.action = "upgrade" -> p.target = g.next

HaltedNow(s, i, h) ==
    [s EXCEPT !.status = "halted", !.haltId = i, !.haltStart = h, !.escalated = 0, !.auth = {}]

(* The latch keeps admission closed for the rest of the block. *)
ResumedNow(s, h) ==
    [s EXCEPT !.status = "normal", !.release = h, !.haltId = 0, !.haltStart = 0, !.escalated = 0, !.auth = {}]

Authorised(s, i, p) ==
    IF p.action = "revoke" THEN [s EXCEPT !.auth = {[a EXCEPT !.outcome = "revoked"] : a \in @}]
    ELSE [s EXCEPT !.auth = {[halt |-> p.halt, by |-> i, target |-> p.target, action |-> p.action, plan |-> p.plan,
                              until |-> p.until, gen |-> p.gen, outcome |-> ""]}]

(* A finalized authorisation that no longer fits its incident or target fails instead. *)
FinalPhase(c, s, g, h) ==
    IF /\ c.phase = "finalized" /\ c.kind = "recovery" /\ s.status = "halted"
       /\ ~(c.prop.halt = s.haltId /\ TargetVerified(c.prop, s, g, h))
    THEN [c EXCEPT !.phase = "failed", !.reason = "target"] ELSE c

(* HandleCeremonyFinalization and HandleCeremonyFailure, on ceremony i as it now stands. *)
AfterCeremony(s, i, c, h) ==
    LET t == [s EXCEPT !.active = IF Voting(c) THEN s.active ELSE 0] IN
    CASE c.phase = "finalized" /\ c.kind = "halt" /\ s.status = "halt_voting" -> HaltedNow(t, i, h)
      [] c.phase = "finalized" /\ c.kind = "resume" /\ s.status = "resume_voting" ->
           IF c.prop.halt = s.haltId THEN ResumedNow(t, h) ELSE [t EXCEPT !.status = "halted"]
      [] c.phase = "finalized" /\ c.kind = "recovery" /\ s.status = "halted" -> Authorised(t, i, c.prop)
      [] c.phase = "failed" /\ c.kind = "halt" /\ s.status = "halt_voting" -> [t EXCEPT !.status = "normal"]
      [] c.phase = "failed" /\ c.kind = "resume" /\ s.status = "resume_voting" -> [t EXCEPT !.status = "halted"]
      [] OTHER -> t

-----------------------------------------------------------------------------
(* Opening a ceremony.                                                     *)
MayPropose(v) ==
    /\ budget.by[v] < params.perGuardian
    /\ budget.total < params.perEpoch
    /\ budget.last = 0 \/ (budget.last <= height /\ height - budget.last >= params.cooldown)

Open(kind, v, prop, status) ==
    LET i == Cardinality(Made) + 1 IN
    /\ i \in Ids
    /\ height + params.timing[Lane(kind)].timeout < MaxHeight \* bound: the ceremony can end
    /\ ElectorateReady(height)
    /\ cer' = [cer EXCEPT ![i] = NewCeremony(kind, prop, height)]
    /\ q' = [q EXCEPT !.active = i, !.status = status]
    /\ budget' = [by |-> [budget.by EXCEPT ![v] = @ + 1], total |-> budget.total + 1, last |-> height]
    /\ UNCHANGED <<params, stake, gov, hold, height>>

ProposeHalt(v) ==
    /\ height > 0
    /\ IsGuardian(v, height)
    /\ q.status = "normal" /\ ~IsHalted(q, height)
    /\ q.active = 0
    /\ MayPropose(v)
    /\ Open("halt", v, [by |-> v], "halt_voting")
    /\ UNCHANGED attempt

(* The halt was finalized in an earlier block. *)
HaltCommitted(h) == q.haltStart # 0 /\ h > q.haltStart

(* A guardian's next attempt at the same incident needs a later block, a failed predecessor and new evidence. *)
EligibleResume(v, m, h) ==
    \A a \in attempt : (a.halt = q.haltId /\ a.by = v)
        => cer[a.cer].phase = "failed" /\ a.manifest # m /\ h > cer[a.cer].start

ProposeResume(v, m) ==
    LET old == {a \in attempt : a.halt = q.haltId /\ a.by = v} IN
    /\ IsGuardian(v, height)
    /\ q.status = "halted" /\ q.active = 0 /\ q.haltId # 0
    /\ HaltCommitted(height)
    /\ MayPropose(v)
    /\ EligibleResume(v, m, height)
    /\ Open("resume", v, [by |-> v, halt |-> q.haltId, manifest |-> m], "resume_voting")
    /\ attempt' = (attempt \ old) \cup {[halt |-> q.haltId, by |-> v, manifest |-> m, cer |-> Cardinality(Made) + 1,
                                         gen |-> 1 + MapThenSumSet(LAMBDA a : a.gen, old)]}

ProposeRecoveryAuthorization(v, action, until) ==
    LET live == {a \in q.auth : a.halt = q.haltId /\ a.outcome = ""}
        old == {a \in q.auth : a.halt = q.haltId}
        revoked == CHOOSE a \in live : TRUE
        p == IF action = "revoke"
             THEN [by |-> v, halt |-> q.haltId, action |-> action, target |-> revoked.target, plan |-> revoked.plan,
                   until |-> revoked.until, gen |-> revoked.gen]
             ELSE [by |-> v, halt |-> q.haltId, action |-> action, target |-> gov.next, plan |-> gov.plan,
                   until |-> until, gen |-> 1 + MapThenSumSet(LAMBDA a : a.gen, old)]
    IN
    /\ IsGuardian(v, height)
    /\ q.status = "halted" /\ q.haltId # 0 /\ q.active = 0
    /\ IF action = "revoke" THEN live # {} ELSE live = {}
    /\ MayPropose(v)
    /\ TargetVerified(p, q, gov, height)
    /\ Open("recovery", v, p, "halted")
    /\ UNCHANGED attempt

-----------------------------------------------------------------------------
(* VoteHalt, VoteResume, VoteRecoveryAuthorization: the ceremony's phase decides what a vote is. *)
WithPrevote(c, v, approve) ==
    IF approve THEN [c EXCEPT !.yes = @ \cup {v}, !.yesPower = @ + c.power[v]]
    ELSE [c EXCEPT !.no = @ \cup {v}, !.noPower = @ + c.power[v]]

WithPrecommit(c, v) == [c EXCEPT !.pre = @ \cup {v}, !.prePower = @ + c.power[v]]

Vote(i, v, approve) ==
    LET c == cer[i] IN
    /\ Voting(c) /\ v \in DOMAIN c.power
    /\ c.kind = "recovery" => q.status = "halted"
    /\ c.phase = "precommit" => approve /\ height <= c.precommitEnd /\ v \in c.yes \ c.pre
    /\ c.phase = "prevote" => height <= c.prevoteEnd /\ v \notin c.yes \cup c.no
    /\ LET voted == IF c.phase = "precommit" THEN WithPrecommit(c, v) ELSE WithPrevote(c, v, approve)
           d == FinalPhase(CheckCeremonyProgress(voted, height), q, gov, height)
       IN cer' = [cer EXCEPT ![i] = d] /\ q' = AfterCeremony(q, i, d, height)
    /\ UNCHANGED <<attempt, budget, params, stake, gov, hold, height>>

-----------------------------------------------------------------------------
(* Governance beside it.                                                   *)
MatchesAction(p, a, g, h) ==
    /\ p.action = a.action /\ p.plan = a.plan /\ p.until = a.until
    /\ p.action = "upgrade" => p.until > h
    /\ p.action = "cancel" => g.plan # 0 /\ g.plan = a.plan

AuthorizedProposal(n, g, h) ==
    \E a \in LiveAuth(q, h) : n = a.target /\ g.prop[n].expedited /\ MatchesAction(g.prop[n], a, g, h)

(* Governance of the SDK is restricted while admission is closed and, after it, under the review hold. *)
HeldForReview(s, hd, h) == IsHalted(s, h) \/ hd

Submitted(p) ==
    /\ gov.next \in Proposals
    /\ gov' = [gov EXCEPT !.next = @ + 1, !.prop[gov.next] = p]
    /\ UNCHANGED <<q, cer, attempt, budget, params, stake, hold, height>>

(* The halt decorator: an ordinary proposal before any incident, the authorised one while admission is closed. *)
SubmitOrdinary ==
    /\ height > 0
    /\ ~IsHalted(q, height) /\ ~hold
    /\ Submitted([st |-> "OPEN", action |-> "upgrade", expedited |-> FALSE, plan |-> gov.plan, until |-> Max(PlanHeights),
                  incident |-> 0])

SubmitRecovery ==
    \E a \in LiveAuth(q, height) :
        LET p == [st |-> "OPEN", action |-> a.action, expedited |-> TRUE, plan |-> a.plan, until |-> a.until,
                  incident |-> q.haltId]
        IN gov.next = a.target /\ MatchesAction(p, a, gov, height) /\ Submitted(p)

(* validateMonotonicCouncilRetirement: an active council may only end sooner, a retired one stays so. *)
RetiresCouncil(p, h) ==
    \/ p.council = {} /\ p.expiry = 0
    \/ /\ CouncilActive(h)
       /\ p.council = params.council /\ p.virtual = params.virtual
       /\ p.expiry <= params.expiry /\ p.expiry > h

(* An ordinary proposal changes the parameters: not under quarantine or hold, not past what is already used. *)
UpdateParams(p) ==
    /\ height > 0
    /\ ~HeldForReview(q, hold, height)
    /\ RetiresCouncil(p, height)
    /\ budget.total <= p.perEpoch
    /\ \A v \in Voters : budget.by[v] <= p.perGuardian
    /\ q.escalated # 0 => q.haltStart + p.maxHalt <= q.escalated
    /\ params' = p
    /\ UNCHANGED <<q, cer, attempt, budget, stake, gov, hold, height>>

(* What reconcileAuthorizedRecoveryProposal records for a proposal that has ended. *)
OutcomeOf(p) == IF p.st \in {"PASSED", "FAILED", "REJECTED"} THEN p.st ELSE ""

(* SDK EndBlock: each due proposal gets a result; outside its lane it fails. *)
Tallied(due, res, h) ==
    LET allowed == {n \in due : HeldForReview(q, hold, h) => AuthorizedProposal(n, gov, h)}
        result(n) == IF n \notin allowed THEN "FAILED" ELSE res[n]
        passed == {n \in due : result(n) = "PASSED"}
        after(n) ==
            CASE n \notin due -> gov.prop[n]
              [] result(n) = "DELETED" -> NoProposal
              [] result(n) = "CONVERTED" -> [gov.prop[n] EXCEPT !.expedited = FALSE]
              [] OTHER -> [gov.prop[n] EXCEPT !.st = result(n)]
    IN [next |-> gov.next, prop |-> [n \in Proposals |-> after(n)],
        plan |-> IF passed = {} THEN gov.plan
                 ELSE LET n == Max(passed) IN IF gov.prop[n].action = "upgrade" THEN n ELSE 0]

(* The authorisation follows its proposal; a proposal that left its terms, or was revoked, is failed. *)
Reconciled(g, h) ==
    LET close(n) == [g EXCEPT !.prop[n].st = "FAILED"]
        closing == {a \in q.auth : /\ a.target \in Proposals /\ g.prop[a.target].st = "OPEN"
                                   /\ a.outcome = "revoked" \/ (a.outcome = "" /\ ~AuthorizedProposal(a.target, g, h))}
        outcome(a) ==
            CASE a.outcome # "" \/ a.target \notin Proposals -> a.outcome
              [] a \in closing -> "FAILED"
              [] g.prop[a.target].st = "NONE" -> IF g.next > a.target THEN "FAILED" ELSE ""
              [] OTHER -> OutcomeOf(g.prop[a.target])
    IN IF ~HeldForReview(q, hold, h) THEN [gov |-> g, auth |-> q.auth]
       ELSE [gov |-> IF closing = {} THEN g ELSE close((CHOOSE a \in closing : TRUE).target),
             auth |-> {[a EXCEPT !.outcome = outcome(a)] : a \in q.auth}]

-----------------------------------------------------------------------------
(* Blocks.                                                                 *)
(* inferQuarantineLink: the last finalized halt, or the marker of an older release. *)
InferredLink ==
    LET done == {i \in Made : cer[i].kind = "halt" /\ cer[i].phase = "finalized"}
    IN IF done = {} THEN Legacy ELSE Max(done)

(* NormalizeLegacyQuarantineState on an active ceremony: it must fit the status and its target. *)
Misfit(s, g, h) ==
    /\ s.active # 0
    /\ LET c == cer[s.active] IN
       CASE s.status = "resume_voting" -> c.kind # "resume" \/ c.prop.halt # s.haltId
         [] s.status = "halted" -> c.kind # "recovery" \/ c.prop.halt # s.haltId \/ ~TargetVerified(c.prop, s, g, h)
         [] OTHER -> FALSE

Normalized(s, g, h) ==
    LET status == IF s.status \in {"revert_voting", "reverting"} \/ (s.status = "resume_voting" /\ (s.active = 0 \/ Misfit(s, g, h)))
                  THEN "halted" ELSE s.status
        active == IF Misfit(s, g, h) THEN 0 ELSE s.active
        linked == [s EXCEPT !.status = status, !.active = active]
    IN IF status \notin {"halted", "resume_voting"} THEN linked
       ELSE [linked EXCEPT !.haltId = IF @ = 0 THEN InferredLink ELSE @,
                           !.haltStart = IF @ = 0 THEN h ELSE @,
                           !.escalated = IF s.haltStart = 0 THEN 0 ELSE @]

(* CheckHaltExpiry marks the last missed deadline and never reopens. *)
Escalated(s, h) ==
    LET periods == IF s.haltStart = 0 \/ h < s.haltStart THEN 0 ELSE (h - s.haltStart) \div params.maxHalt
        boundary == s.haltStart + periods * params.maxHalt
    IN IF ~IsHalted(s, h) \/ periods = 0 \/ s.escalated >= boundary THEN s ELSE [s EXCEPT !.escalated = boundary]

(* BeginBlock of x/emergency from state s and governance g, then of x/gov, which raises the hold. *)
BeginBlock(s, g, h) ==
    LET n == Normalized(s, g, h)
        i == n.active
        c == FinalPhase(CheckCeremonyProgress(cer[i], h), n, g, h)
        after == Escalated(IF i = 0 THEN n ELSE AfterCeremony(n, i, c, h), h)
    IN
    /\ cer' = CASE Misfit(s, g, h) -> [cer EXCEPT ![s.active].phase = "failed", ![s.active].reason = "misfit"]
                [] ~Misfit(s, g, h) /\ i # 0 -> [cer EXCEPT ![i] = c]
                [] OTHER -> cer
    /\ q' = after
    /\ hold' = (hold \/ IsHalted(after, h))

(* EndBlock of this block, with the proposals that fall due, then BeginBlock of the next. *)
NextBlock(due, res) ==
    LET h == height + 1
        end == Reconciled(Tallied(due, res, height), height)
        ended == [q EXCEPT !.auth = end.auth]
    IN
    /\ height < MaxHeight
    /\ gov' = end.gov
    /\ height' = h
    /\ budget' = IF height > 0 /\ height % EpochBlocks = 0
                 THEN [budget EXCEPT !.by = [v \in Voters |-> 0], !.total = 0] ELSE budget
    /\ BeginBlock([ended EXCEPT !.release = IF @ # 0 /\ h > @ THEN 0 ELSE @], end.gov, h)
    /\ UNCHANGED <<attempt, params, stake>>

(* x/staking moves the guardians' stakes at any time. *)
ChangeStake(f) ==
    /\ stake' = f
    /\ UNCHANGED <<q, cer, attempt, budget, params, gov, hold, height>>

-----------------------------------------------------------------------------
(* Export and import.                                                      *)
(* deriveResumeAttempts: the last resume of each incident and proposer, counted from the history. *)
Resumes(x, v) == {i \in Made : cer[i].kind = "resume" /\ cer[i].prop.halt = x /\ cer[i].prop.by = v}
DerivedAttempts ==
    {[halt |-> cer[i].prop.halt, by |-> cer[i].prop.by, manifest |-> cer[i].prop.manifest, cer |-> i,
      gen |-> Cardinality(Resumes(cer[i].prop.halt, cer[i].prop.by))] :
       i \in {j \in Made : cer[j].kind = "resume" /\ j = Max(Resumes(cer[j].prop.halt, cer[j].prop.by))}}

(* Consecutive attempts differ in block and evidence, or the import panics. *)
AttemptsDerivable ==
    \A i, j \in Made :
        (/\ i < j /\ cer[i].kind = "resume" /\ cer[j].kind = "resume"
         /\ cer[i].prop.halt = cer[j].prop.halt /\ cer[i].prop.by = cer[j].prop.by
         /\ ~\E k \in Resumes(cer[i].prop.halt, cer[i].prop.by) : i < k /\ k < j)
        => cer[i].start < cer[j].start /\ cer[i].prop.manifest # cer[j].prop.manifest

(* GenesisState.Validate *)
GenesisValid ==
    LET open == {i \in Made : Voting(cer[i])} IN
    /\ q.status = "normal" => q.haltId = 0 /\ q.haltStart = 0 /\ q.escalated = 0 /\ open = {}
    /\ q.release # 0 => q.status = "normal"
    /\ q.haltId = 0 <=> q.haltStart = 0
    /\ budget.total <= params.perEpoch
    /\ \A v \in Voters : budget.by[v] <= params.perGuardian
    /\ PowerOf(budget.by, Voters) = budget.total
    /\ q.escalated # 0 => q.status \in Quarantine /\ q.escalated >= q.haltStart + params.maxHalt
    /\ \A i \in Made : TalliesValid(cer[i])
    /\ Cardinality(open) <= 1
    /\ q.status = "halt_voting" => q.haltId = 0 /\ \E i \in open : cer[i].kind = "halt"
    /\ q.status = "halted" => \A i \in open : cer[i].kind = "recovery"
    /\ q.status = "resume_voting" => \E i \in open : cer[i].kind = "resume" /\ cer[i].prop.halt = q.haltId
    /\ q.haltId \in Ids => cer[q.haltId].kind = "halt" /\ cer[q.haltId].phase = "finalized"
    /\ \A a \in q.auth : /\ q.status \in {"halted", "resume_voting"} /\ a.halt = q.haltId
                          /\ cer[a.by].kind = "recovery" /\ cer[a.by].phase = "finalized"
                          /\ cer[a.by].prop.target = a.target /\ cer[a.by].prop.gen = a.gen

(* The chain is exported and restarted: an expired council is dropped, the indexes are rebuilt. *)
ExportImport ==
    /\ height > 0
    /\ params' = IF params.expiry # 0 /\ height >= params.expiry THEN [params EXCEPT !.council = {}, !.expiry = 0] ELSE params
    /\ attempt' = DerivedAttempts
    /\ q' = [q EXCEPT !.active = LET open == {i \in Made : Voting(cer[i])} IN IF open = {} THEN 0 ELSE Min(open)]
    /\ UNCHANGED <<cer, budget, stake, gov, hold, height>>

-----------------------------------------------------------------------------
Init ==
    /\ q \in {[status |-> st, haltId |-> 0, haltStart |-> 0, release |-> 0, escalated |-> 0, auth |-> {}, active |-> 0] :
               st \in Starts}
    /\ cer = [i \in Ids |-> NoCeremony]
    /\ attempt = {}
    /\ budget = [by |-> [v \in Voters |-> 0], total |-> 0, last |-> 0]
    /\ params \in ParamSets
    /\ stake \in StakeViews
    /\ gov = [next |-> 1, prop |-> [n \in Proposals |-> NoProposal], plan |-> 0]
    /\ hold = FALSE
    /\ height = 0

OpenProposals == {n \in Proposals : gov.prop[n].st = "OPEN"}
AdvanceBlock ==
    \E due \in SUBSET OpenProposals :
        \E res \in [due -> {"PASSED", "FAILED", "REJECTED", "CONVERTED", "DELETED"}] :
            /\ \A n \in due : res[n] = "CONVERTED" => gov.prop[n].expedited
            /\ NextBlock(due, res)

Next ==
    \/ AdvanceBlock
    \/ \E v \in Voters : ProposeHalt(v)
    \/ \E v \in Voters, m \in Manifests : ProposeResume(v, m)
    \/ \E v \in Voters, a \in Actions, t \in PlanHeights : ProposeRecoveryAuthorization(v, a, t)
    \/ \E i \in Ids, v \in Voters, approve \in BOOLEAN : Vote(i, v, approve)
    \/ SubmitOrdinary
    \/ SubmitRecovery
    \/ \E p \in ParamSets : UpdateParams(p)
    \/ \E f \in StakeViews : ChangeStake(f)
    \/ ExportImport

Spec == Init /\ [][Next]_vars
(* Consensus goes on while admission is closed: blocks keep coming. *)
BlockPasses == height < MaxHeight /\ height' = height + 1

-----------------------------------------------------------------------------
Kinds == {"none", "halt", "resume", "recovery"}
TypeOK ==
    /\ q.status \in Quarantine \cup {"normal", "halt_voting"}
    /\ q.haltId \in 0..Legacy /\ q.active \in 0..MaxCeremonies
    /\ {q.haltStart, q.release, q.escalated} \subseteq 0..MaxHeight
    /\ q.active # 0 => Voting(cer[q.active])
    /\ \A i \in Ids : cer[i].kind \in Kinds
    /\ \A a \in q.auth : a.outcome \in {"", "revoked", "PASSED", "FAILED", "REJECTED"}
    /\ Cardinality(q.auth) <= 1
    /\ params.perEpoch > 0 /\ hold \in BOOLEAN /\ height \in 0..MaxHeight

(* Every state between transactions can be exported and imported again: it passes GenesisState.Validate,
   the resume attempts can be derived from the ceremonies, and what is derived is what the store held. *)
ExportValidates ==
    height > 0 => GenesisValid /\ AttemptsDerivable /\ DerivedAttempts = attempt

(* A ceremony took effect only with the quorum of the power frozen when it opened, committed by at least
   the frozen number of distinct voters, each of whom had first voted for it; and no ceremony fails
   because its stored sums do not match its votes. *)
QuorumStands ==
    \A i \in Made :
        /\ cer[i].phase = "finalized" =>
            /\ cer[i].pre \subseteq cer[i].yes
            /\ PowerOf(cer[i].power, cer[i].pre) * Scale >= cer[i].quorum * PowerOf(cer[i].power, DOMAIN cer[i].power)
            /\ Cardinality(cer[i].pre) >= cer[i].distinct
        /\ cer[i].reason # "tally"

(* A ceremony is given up as impossible only when all voters who have not refused could no longer carry it. *)
ImpossibleIsImpossible ==
    \A i \in Made : cer[i].reason = "impossible" =>
        (PowerOf(cer[i].power, DOMAIN cer[i].power \ cer[i].no) * Scale) < cer[i].quorum * PowerOf(cer[i].power, DOMAIN cer[i].power)

(* Once an incident has ended, governance stays under review: no finalized resume without the hold. *)
ClosedIncidentHeld ==
    \A i \in Made : cer[i].kind = "resume" /\ cer[i].phase = "finalized" => hold

(* The authorisation tells the truth about its proposal: a live one has not been decided, a revoked one did
   not pass, and any other outcome is the proposal's own. *)
AuthTracksProposal ==
    \A a \in q.auth : a.target \in Proposals =>
        LET st == gov.prop[a.target].st IN
        CASE a.outcome = "" -> st \in {"NONE", "OPEN"}
          [] a.outcome = "revoked" -> st # "PASSED"
          [] a.outcome = "FAILED" -> st \in {"FAILED", "NONE"}
          [] OTHER -> st = a.outcome

(* Admission closes at a finalized halt and reopens only at the start of a block, one block after a resume
   of the incident that was open was finalized. *)
ReopensByResume ==
    IsHalted(q, height) /\ ~IsHalted(q', height') =>
     /\ height' = height + 1 /\ q.release = height
     /\ \E i \in Made : /\ cer[i].kind = "resume" /\ cer[i].phase = "finalized"
                        /\ cer[i].prop.halt = InferredLink

(* A council that has expired or was cleared never votes again, whatever governance, export and import do. *)
CouncilStaysRetired ==
    height > 0 /\ ~CouncilActive(height) => ~CouncilActive(height)'

(* A proposal submitted under an authorisation executes only while that authorisation is live and its
   incident open: not after a revocation, and not after the incident was closed with the proposal pending. *)
OrphanNeverExecutes ==
    \A n \in Proposals :
     (gov.prop[n].st = "OPEN" /\ gov.prop[n].incident # 0 /\ gov'.prop[n].st = "PASSED")
     => \E a \in q.auth : a.target = n /\ a.outcome = "" /\ a.halt = gov.prop[n].incident /\ a.halt = q.haltId

(* What fairness brings about: every ceremony that opens comes to an end. *)
CeremoniesEnd == \A i \in Ids : ~Voting(cer[i])

(* "MinDistinctVoters of 4 ensures at least four different addresses participate in any quorum tally": the
   tally that closes the first round is carried by the same number of addresses. *)
AnyTallyIsPlural ==
    \A i \in Made : cer[i].phase = "precommit" => Cardinality(cer[i].yes \cup cer[i].no) >= cer[i].distinct
=============================================================================
