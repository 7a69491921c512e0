------------------------------ MODULE GovLIP ------------------------------
(***************************************************************************)
(* x/gov: improvement proposals (LIPs) from draft to decision, what an     *)
(* approved one does, and the delayed change of the research fund's phase. *)
(* The research fund itself (seats, elections, spends) is ResearchFund.    *)
(* A block begins with the automatic pass of the module, unless a review   *)
(* hold of the emergency module stands.                                    *)
(***************************************************************************)
EXTENDS Integers, Sequences, FiniteSetsExt

CONSTANTS Proposers, Voters,
          Categories,      \* categories proposals are made in
          Weights,         \* bonded stakes voters move between: functions on Voters
          Amounts,         \* stakes a message may add
          Bodies,          \* creed texts
          ParamSets,       \* parameters governance chooses from
          ActivationDelay, \* TransitionActivationDelay
          Cooldown,        \* RollbackCooldownBlocks
          LastPhase,       \* RESEARCH_FUND_PHASE_FULL_GOVERNANCE
          FirstPhases,     \* phases the chain may start from
          Surroundings,    \* what a block may meet: see NextBlock
          MaxLips,         \* bound: proposals
          MaxStake,        \* bound: stake behind one proposal
          SubmitUntil,     \* bound: last block with a submission
          MaxHeight        \* bound: blocks

Scale == 1000000
Supermajority == 667000    \* TransitionSupermajorityBps
Changes == 1..2            \* a parameter LIP carries a bundle of two changes
PhaseCategory(c) == c \in {"phase_transition", "phase_rollback"}
Terminal(stage) == stage \in {"passed", "failed", "withdrawn"}

VARIABLES lip,     \* proposals in the order of their numbers
          vote,    \* recorded votes
          meta,    \* phase transition metadata, by LIP
          fund,    \* phase of the research fund and end of the rollback cooldown
          pin,     \* creed texts attached to LIPs
          applied, \* parameter changes in force
          creed,   \* creed texts anchored, with the LIP each came from
          params,
          bonded,  \* x/staking: bonded stake of each voter
          hold,    \* emergency review hold
          height
vars == <<lip, vote, meta, fund, pin, applied, creed, params, bonded, hold, height>>

Ids == 1..Len(lip)
Total == MapThenSumSet(LAMBDA v : bonded[v], Voters)
Config(c) == params.category[c]
HasConfig(c) == c \in DOMAIN params.category
ReviewBlocks(c) == IF HasConfig(c) THEN Config(c).review ELSE 0
WeightOf(i, o) == MapThenSumSet(LAMBDA x : x.weight, {x \in vote : x.lip = i /\ x.option = o})

-----------------------------------------------------------------------------
(* Slips: the text is locked at the end of the vote only; a vote has no end. *)
PinLockedAtEnd(i) == Terminal(lip[i].stage)
ToVotingOpenEnded(l, h, degraded) == [l EXCEPT !.stage = "voting"]

-----------------------------------------------------------------------------
(* Decisions.                                                              *)
Quorate(l) == Total > 0 /\ ((l.yes + l.no + l.abstain) * Scale) \div Total >= params.quorum
Supported(l, bps) == l.yes + l.no > 0 /\ (l.yes * Scale) \div (l.yes + l.no) >= bps
Approved(l) ==
    Quorate(l) /\ Supported(l, IF PhaseCategory(l.cat) THEN Supermajority ELSE params.support)

HasActivePhaseTransitionLIP == \E m \in meta : m.stage = "pending"

(* The exit conditions of a phase and the grounds of a rollback are read from other modules: the caller says
   whether they are met. *)
ValidatePhaseTransition(target, met) ==
    /\ target = fund.phase + 1
    /\ fund.cooldown = 0 \/ height >= fund.cooldown
    /\ ~HasActivePhaseTransitionLIP
    /\ met /\ fund.phase < LastPhase
ValidatePhaseRollback(grounds) == fund.phase > 1 /\ ~HasActivePhaseTransitionLIP /\ grounds

(* A bundle of changes is applied in a cached context: k is the first that fails, 0 if none does. *)
ExecuteParamChanges(i, k) ==
    IF k \in Changes THEN applied ELSE applied \cup {<<i, c>> : c \in Changes}

-----------------------------------------------------------------------------
(* Messages. Every one but the withdrawal is refused under a hold.         *)
SubmitLIP(p, c, amt, e) ==
    /\ ~hold /\ Len(lip) < MaxLips /\ height <= SubmitUntil
    /\ c # "upgrade" /\ amt >= params.minStake
    /\ c = "phase_transition" => ValidatePhaseTransition(fund.phase + 1, e)
    /\ c = "phase_rollback" => ValidatePhaseRollback(e)
    /\ ~PhaseCategory(c) => e
    /\ lip' = Append(lip, [cat |-> c, by |-> p, stage |-> "draft", staked |-> amt, yes |-> 0, no |-> 0, abstain |-> 0,
                           reviewAt |-> 0, lastCallAt |-> 0, end |-> 0])
    /\ meta' = IF PhaseCategory(c)
               THEN meta \cup {[lip |-> Len(lip) + 1, stage |-> "pending", activate |-> 0, rollback |-> c = "phase_rollback",
                                target |-> IF c = "phase_rollback" THEN fund.phase - 1 ELSE fund.phase + 1]}
               ELSE meta
    /\ UNCHANGED <<vote, fund, pin, applied, creed, params, bonded, hold, height>>

StakeLIP(i, amt) ==
    LET l == [lip[i] EXCEPT !.staked = @ + amt] IN
    /\ ~hold /\ ~Terminal(l.stage) /\ l.cat # "upgrade" /\ l.staked <= MaxStake
    /\ lip' = [lip EXCEPT ![i] = IF l.stage = "draft" /\ HasConfig(l.cat) /\ l.staked >= Config(l.cat).stake
                                 THEN [l EXCEPT !.stage = "review", !.reviewAt = height] ELSE l]
    /\ UNCHANGED <<vote, meta, fund, pin, applied, creed, params, bonded, hold, height>>

ReviewOver(l, h) == l.stage = "review" /\ h >= l.reviewAt + ReviewBlocks(l.cat)
DiscussionOver(l, h) == l.stage = "last_call" /\ h >= l.lastCallAt + params.discussion

(* A parameter LIP on knowledge is voted on in half the time while alignment is degraded. *)
EffectiveVotingPeriod(l, degraded) ==
    IF l.cat = "parameter" /\ degraded THEN IF params.voting \div 2 = 0 THEN 1 ELSE params.voting \div 2
    ELSE params.voting
ToLastCall(l, h) == [l EXCEPT !.stage = "last_call", !.lastCallAt = h]
ToVoting(l, h, degraded) == [l EXCEPT !.stage = "voting", !.end = h + EffectiveVotingPeriod(l, degraded)]

AdvanceLIPStage(p, i, degraded) ==
    /\ ~hold /\ lip[i].by = p
    /\ \/ ReviewOver(lip[i], height) /\ ~degraded /\ lip' = [lip EXCEPT ![i] = ToLastCall(@, height)]
       \/ DiscussionOver(lip[i], height) /\ lip' = [lip EXCEPT ![i] = ToVoting(@, height, degraded)]
    /\ UNCHANGED <<vote, meta, fund, pin, applied, creed, params, bonded, hold, height>>

HasVoted(i, v) == {x \in vote : x.lip = i /\ x.voter = v}
CastVote(v, i, o) ==
    /\ ~hold /\ lip[i].stage = "voting"
    /\ lip[i].end > 0 => height <= lip[i].end
    /\ HasVoted(i, v) = {}
    /\ bonded[v] >= params.minVote
    /\ vote' = vote \cup {[lip |-> i, voter |-> v, option |-> o, weight |-> bonded[v]]}
    /\ lip' = [lip EXCEPT ![i] = [@ EXCEPT !.yes = IF o = "yes" THEN @ + bonded[v] ELSE @,
                                           !.no = IF o = "no" THEN @ + bonded[v] ELSE @,
                                           !.abstain = IF o = "abstain" THEN @ + bonded[v] ELSE @]]
    /\ UNCHANGED <<meta, fund, pin, applied, creed, params, bonded, hold, height>>

WithdrawLIP(p, i) ==
    /\ lip[i].by = p /\ ~Terminal(lip[i].stage) /\ lip[i].stage # "voting"
    /\ lip' = [lip EXCEPT ![i].stage = "withdrawn"]
    /\ UNCHANGED <<vote, meta, fund, pin, applied, creed, params, bonded, hold, height>>

(* The text is locked once the vote has started. *)
PinLocked(i) == Terminal(lip[i].stage) \/ lip[i].stage = "voting"
AttachCreedAmendmentPin(p, i, b) ==
    /\ ~hold /\ lip[i].by = p /\ lip[i].cat = "creed_amendment" /\ ~PinLocked(i)
    /\ ~\E x \in pin : x.lip = i
    /\ pin' = pin \cup {[lip |-> i, body |-> b]}
    /\ UNCHANGED <<lip, vote, meta, fund, applied, creed, params, bonded, hold, height>>

UpdateParams(p) ==
    /\ ~hold /\ p # params /\ params' = p
    /\ UNCHANGED <<lip, vote, meta, fund, pin, applied, creed, bonded, hold, height>>

-----------------------------------------------------------------------------
(* The beginning of a block.                                               *)
Pending(S, i) == {m \in S : m.lip = i /\ m.stage = "pending" /\ m.activate = 0}

(* executeApprovedLIP: k is the first change that fails, anchored whether the creed keeper takes the text.
   Adapter registrations, research spends and seat elections have no dispatch and fail. *)
ExecutesApproved(i, k, anchored) ==
    CASE lip[i].cat = "text" -> TRUE
      [] lip[i].cat = "parameter" -> k \notin Changes
      [] lip[i].cat = "creed_amendment" -> anchored /\ \E x \in pin : x.lip = i
      [] PhaseCategory(lip[i].cat) -> Pending(meta, i) # {}
      [] OTHER -> FALSE

(* One transition whose delay is over, against the phase and the exit conditions of this block. *)
ExecuteRollback(f, h) == [phase |-> f.phase - 1, cooldown |-> h + Cooldown]
Activated(m, f, h, met) ==
    IF m.rollback THEN ExecuteRollback(f, h)
    ELSE IF met /\ f.phase < LastPhase THEN [f EXCEPT !.phase = m.target] ELSE f

BeginBlockPhaseTransition(metas, h, met) ==
    LET due == {m \in metas : m.stage = "pending" /\ m.activate # 0 /\ h >= m.activate}
        after[n \in 0..MaxLips] ==
            IF n = 0 THEN fund
            ELSE LET mine == {m \in due : m.lip = n} IN
                 IF mine = {} THEN after[n - 1] ELSE Activated(CHOOSE m \in mine : TRUE, after[n - 1], h, met)
        ends(m) == IF m.rollback \/ (met /\ after[m.lip - 1].phase < LastPhase) THEN "activated" ELSE "cancelled"
    IN /\ fund' = after[MaxLips]
       /\ meta' = (metas \ due) \cup {[m EXCEPT !.stage = ends(m)] : m \in due}

BeginBlocker(h, k, anchored, met, degraded) ==
    LET called == [i \in Ids |-> IF ReviewOver(lip[i], h) THEN ToLastCall(lip[i], h) ELSE lip[i]]
        opened == [i \in Ids |-> IF DiscussionOver(called[i], h) THEN ToVoting(called[i], h, degraded) ELSE called[i]]
        due == {i \in Ids : opened[i].stage = "voting" /\ opened[i].end > 0 /\ h >= opened[i].end}
        approved == {i \in due : Approved(opened[i])}
        passed == {i \in approved : ExecutesApproved(i, k, anchored)}
        decided(m) == CASE m.lip \in passed -> [m EXCEPT !.activate = h + ActivationDelay]
                        [] m.lip \in due \ passed /\ m \in Pending(meta, m.lip) -> [m EXCEPT !.stage = "failed"]
                        [] OTHER -> m
    IN /\ lip' = [i \in Ids |-> IF i \notin due THEN opened[i]
                                ELSE [opened[i] EXCEPT !.stage = IF i \in passed THEN "passed" ELSE "failed"]]
       /\ applied' = UNION ({applied} \cup {ExecuteParamChanges(i, k) : i \in {j \in approved : lip[j].cat = "parameter"}})
       /\ creed' = creed \cup {x \in pin : x.lip \in passed}
       /\ BeginBlockPhaseTransition({decided(m) : m \in meta}, h, met)

(* emergencyAwareCustomGovAppModule: a quarantine raises the hold, and the pass runs only without one. A block
   meets, besides: the first change of a bundle to fail, whether the creed keeper takes the text, whether the
   exit conditions are met, whether alignment is degraded. *)
NextBlock(s) ==
    /\ height < MaxHeight /\ height' = height + 1
    /\ hold' = (hold \/ s.quarantine)
    /\ IF hold' THEN UNCHANGED <<lip, applied, creed, meta, fund>>
       ELSE BeginBlocker(height', s.failing, s.anchored, s.met, s.degraded)
    /\ UNCHANGED <<vote, pin, params, bonded>>

ChangeBonded(w) ==
    /\ w # bonded /\ bonded' = w
    /\ UNCHANGED <<lip, vote, meta, fund, pin, applied, creed, params, hold, height>>

Init ==
    /\ lip = <<>> /\ vote = {} /\ meta = {} /\ pin = {} /\ applied = {} /\ creed = {}
    /\ fund \in [phase : FirstPhases, cooldown : {0}]
    /\ params \in ParamSets /\ bonded \in Weights
    /\ hold = FALSE /\ height = 1

Next ==
    \/ \E p \in Proposers :
        \/ \E c \in Categories, amt \in Amounts, e \in BOOLEAN : SubmitLIP(p, c, amt, e)
        \/ \E i \in Ids, degraded \in BOOLEAN : AdvanceLIPStage(p, i, degraded)
        \/ \E i \in Ids : WithdrawLIP(p, i)
        \/ \E i \in Ids, b \in Bodies : AttachCreedAmendmentPin(p, i, b)
    \/ \E i \in Ids, amt \in Amounts : StakeLIP(i, amt)
    \/ \E v \in Voters, i \in Ids, o \in {"yes", "no", "abstain"} : CastVote(v, i, o)
    \/ \E p \in ParamSets : UpdateParams(p)
    \/ \E w \in Weights : ChangeBonded(w)
    \/ \E s \in Surroundings : NextBlock(s)

Spec == Init /\ [][Next]_vars
(* Blocks keep coming. *)
BlockPasses == height < MaxHeight /\ height' = height + 1

-----------------------------------------------------------------------------
(* Properties.                                                             *)

(* Shapes of the state; the fund is never below its first phase (ValidatePhaseRollback). *)
TypeOK ==
    /\ \A i \in Ids : lip[i].stage \in {"draft", "review", "last_call", "voting", "passed", "failed", "withdrawn"}
    /\ \A m \in meta : m.lip \in Ids /\ m.stage \in {"pending", "failed", "activated", "cancelled"}
    /\ fund.phase \in 1..LastPhase /\ params \in ParamSets /\ bonded \in Weights
    /\ applied \subseteq Ids \X Changes /\ creed \subseteq pin /\ hold \in BOOLEAN /\ height \in 1..MaxHeight

(* "Passage is recorded only after the complete immediate action commits": a passed LIP has all of its effect
   and any other LIP none, even when one change of a bundle fails in the middle. *)
PassedMeansDone ==
    \A i \in Ids :
        LET l == lip[i] done == l.stage = "passed" IN
        /\ {c \in Changes : <<i, c>> \in applied} = IF done /\ l.cat = "parameter" THEN Changes ELSE {}
        /\ (\E x \in creed : x.lip = i) <=> done /\ l.cat = "creed_amendment"
        /\ (\E m \in meta : m.lip = i /\ m.activate # 0) <=> done /\ PhaseCategory(l.cat)

(* The running tally is the sum of the recorded votes at the weight each had when cast, one vote a voter,
   whatever happens to their stake meanwhile. *)
TallyIsVotes ==
    \A i \in Ids :
        /\ lip[i].yes = WeightOf(i, "yes") /\ lip[i].no = WeightOf(i, "no") /\ lip[i].abstain = WeightOf(i, "abstain")
        /\ \A v \in Voters : Cardinality({x \in vote : x.lip = i /\ x.voter = v}) <= 1

(* At most one change of phase is under way, from proposal to activation, and it is to a neighbour of the
   phase the fund is in, so that no phase is skipped. *)
OneTransition ==
    /\ Cardinality({m \in meta : m.stage = "pending"}) <= 1
    /\ \A m \in meta : m.stage = "pending" => m.target = fund.phase + (IF m.rollback THEN -1 ELSE 1)

(* The phase moves by one, forward only outside the cooldown of the last rollback. *)
NoEarlyReturn ==
    fund'.phase # fund.phase => \/ fund'.phase = fund.phase - 1
                                \/ fund'.phase = fund.phase + 1 /\ height' >= fund.cooldown

(* "Voters voted on the payload as it was when the vote opened": the text of an amendment in voting stays, and
   what is anchored is what was attached. *)
CreedAsVoted ==
    \A i \in Ids : lip[i].stage = "voting" => {x \in pin : x.lip = i} = {x \in pin' : x.lip = i}

(* What fairness brings about: a LIP that leaves the draft stage (early enough for the blocks of the model)
   is decided or withdrawn, unless a review hold freezes governance. *)
UnderWay(i) == lip[i].stage \in {"review", "last_call", "voting"} /\ lip[i].reviewAt <= SubmitUntil
LipsEnd == hold \/ \A i \in Ids : ~UnderWay(i)

(* "HasActivePhaseTransitionLIP returns true if there's a non-terminal phase transition LIP in progress": while
   it does, such a LIP is open or its approved change waits for activation. *)
ActiveMeansOpen ==
    HasActivePhaseTransitionLIP =>
        \E m \in meta : m.stage = "pending" /\ (~Terminal(lip[m.lip].stage) \/ m.activate # 0)

(* "The category carries ... higher pass thresholds than parameter LIPs": an amendment does not pass on the
   support that is just enough for a parameter change. *)
CreedPassesHigher ==
    \A i \in Ids : (lip[i].cat = "creed_amendment" /\ lip[i].stage = "passed")
        => lip[i].yes * Scale > params.support * (lip[i].yes + lip[i].no)
=============================================================================
