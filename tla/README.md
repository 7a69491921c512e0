# Verification of zerone-core

TLA+ models, TLC runs and TLAPS proofs for the core of ZERONE, a Cosmos SDK
chain whose subject is *knowledge*: accounts submit claims with money attached,
a commit–reveal panel reviews them, accepted claims become facts, and facts can
be contradicted, challenged, refuted, decay and be pruned.

The project has one module per component, six runs that ask one question each of
the knowledge core, and six runs that put the other components through a portfolio
of small instances (§5).

| module | what it is |
|---|---|
| `ReviewRound` | claims, review rounds, verdicts, settlement and the retry queue of `x/knowledge` |
| `ReviewEscrow` | what all of that promises about the money of one claim (the abstract specification) |
| `Totals` | sums without recursion, which the provers can reason about |
| `FactContest` | the standing of facts: verdicts, disputes, contest reasons, metabolism, text index |
| `SurvivalEscrow`, `FactInjection` | rewards that wait for a fact to survive; facts by governance and the guardians' veto |
| `Sponsorship`, `Qualification`, `CaptureChallenge` | sponsored bounties; the right to sit on panels; detection and challenge of captured domains |
| `SupplyCap`, `Vesting`, `SubstrateBridge`, `ClaimingPot`, `Tokens` | minting under the cap and the four modules that release coins |
| `PoolMath`, `LiquidityPool`, `Staking` | coins held for others |
| `TrainingFund`, `TrainingManifest` | bounties for variants of a fact, panels, vetoes and challenge bonds in one account; what a training run commits to |
| `Emergency`, `GovLIP`, `ResearchFund` | ceremonies and the recovery lane; improvement proposals; the research fund's committee |
| `IBCRateLimit`, `Accounts`, `AgentHome`, `AttestRelay` | IBC flow caps; accounts and keys; homes and sessions; the relay daemon of `tools/agenttool-relay` |
| `ReviewRoundProofs`, `FactContestProofs`, `StandingProofs`, `IssuanceProofs`, `CustodyProofs`, `IBCRateLimitProofs`, `BoundaryProofs`, `TotalsProofs` | theorems about these components and the lemmas they rest on (§6), among them that `ReviewRound` implements `ReviewEscrow` |
| `MCReviewRound`, `MCFactContest` | instances of the core for TLC |
| `MCStanding`, `MCIssuance`, `MCCustody`, `MCGovernance`, `MCBoundary`, `MCProgress` | portfolios: instances of the other components and what they promise |

`PROJECT.json` maps every definition to the lines it translates and lists runs,
mutants, hazards, findings and theorems.

## 1. Inventory

### The chain

Nothing in the state machine is concurrent in the sense of threads: a block is
executed sequentially and identically on every node. What interleaves are the
*actors*: submitters, reviewers, challengers, patrons and governance, whose
transactions arrive in any order between the `BeginBlocker`s, and the loops of
`BeginBlocker` itself, which work through records that other actors have left
behind, some of which fail and are tried again blocks later.

`x/knowledge`'s `BeginBlocker` runs, in this order: the retry queue
(`ProcessPendingVerifierRewards`), the rounds (`AdvanceRoundPhases`, which
completes them and writes verdicts, facts and settlements), other sweeps, and at
multiples of the epoch length demand bounties, niche competition and metabolism.

### Components

**Claims, review rounds and settlement** (`x/knowledge/keeper`: `msg_server.go`,
`phases.go`, `rounds.go`, `confidence.go`, `fund_settlement.go`,
`verifier_settlement.go`) — *modelled in `ReviewRound`*.
State: claims with their frozen funding terms; a round per funded claim with
commitments, reveals, phase, verdict, frozen reward settlement and refund
settlement; the pending index (0x82) and its cursor (0x83); money in the module
account. Operations: the four messages that open a funded claim, commitments,
reveals, parameter updates, phase transitions, early aggregation, completion,
settlement at once or later.
Hard: a quorum that governance changes under an open round; a completion that
fails after its transition was stored; a bank that refuses one of several
transfers; one obligation attempted from two places; a transfer budget and a
cursor that could starve a round; rounding.
Right when: the money of a claim goes out once and completely, no verdict comes
before the whole committed panel was heard or its time is over, no vote is cast
after another one is public, everything admitted is decided and paid.

**Demand bounties** (`demand.go`) — *in `ReviewRound`*, as the other
tenant of the module account: funded at an epoch, taken by an accepted claim in
the middle of its completion, returned after expiry. Right when it never uses
the money of a claim.

**Standing of facts** (`claim_integrity_contest.go`, `claim_integrity_dedup.go`,
`challenge_reachability.go`, `conjecture.go`, the verdict handlers of
`rounds.go`, `vindication.go`, `metabolism.go`, `competition.go`) — *modelled in
`FactContest`*. State: claim records, fact status with the part of the
history that contest checks read, the content index. Operations: submissions of
each kind, verdicts of each kind, cascade, release, patronage, the epoch.
Hard: verdicts arrive in any order long after the dispute was opened and write
their target without looking at it; a friendly challenge can shield a fact while
its support falls; a fact that decays can be revived while its text has been
given to another one.
Right when: a fact under adjudication is left alone by everybody else, evidence
against a fact cannot be laundered by ordering, a question never becomes a truth
by a side door, refutation needs a challenge, final is final, no two live
records have one text.

**Survival reward escrow** (`survival_escrow.go`) — *`SurvivalEscrow`*. State: a
pending record per claim with a deadline, an index by deadline, the vesting
schedules made. Hard: the sweep races an open challenge; a hand-off that vesting
refuses must stay reachable; the upgrade rebuilds the index. Right when a reward is
handed off once, only after survival, and never forgotten.

**Guardian veto and injected facts** (`guardian_veto.go`) — *`FactInjection`*. State:
a queue by identifier and an index by height. Hard: veto and materialisation race,
and window and guardians change between two messages. Right when a veto that was
accepted wins.

**History integrity** (`history_integrity.go`, `status_transitions.go`):
append-only status history. Only what the contest check reads of it (the last
fall, the last survival) is state of `FactContest`.

**Sponsorship** (`x/sponsorship`) — *`Sponsorship`*: orders with escrowed coins, one
record per order and fact, expiry, cancellation, export and import. **Qualification**
(`x/qualification`) — *`Qualification`*: records gained by stake or derived, kept by
accuracy, endorsed by others, with expiry, probation and suspension in one begin
blocker. **Capture defence and challenge** — *`CaptureChallenge`*: detection by
concentration, challenges with stakes and bounty pools in one module account,
penalties in two other modules.

**Supply** — *`SupplyCap`*: `MintWithCap`, the one door to new coins. **Vesting
rewards** — *`Vesting`*: schedules, an integer release curve, pauses, acceleration,
falsification. **Substrate bridge** — *`SubstrateBridge`*: bonded attestations, a
source index seeded on a chain with history, verdicts, timeouts, witness rewards held
back. **Claiming pots** — *`ClaimingPot`*: seeds and general pots under one lifetime
budget. **Tokens** — *`Tokens`*: balances, allowances, delegated power, wrapping,
emission. Hard in all of them: several minters of one block, a clipped or refused
transfer in the middle, rounding, and records of before an upgrade.

**Liquidity pools** — *`PoolMath`, `LiquidityPool`*: constant-product swaps, shares,
pool lifecycle, indexes, price history with bounded clean-up. **Staking** —
*`Staking`*: validators with tiers, delegations, unbondings, slashes, in a legacy and an
accounting profile with an upgrade between them. Hard: rounding direction; the same
stake described by a claim, an aggregate and coins.

**Training** (`training_economics.go`, `training_manifest.go`, `msg_server_training_v*.go`,
`route_b_heartbeat.go`) — *`TrainingFund`, `TrainingManifest`*: escrowed bounties with a
weighted panel, the sponsor's veto, expiry and the bonds of contribution challenges in one
account; manifests that are drawn up, finalized, attested and superseded. Hard: one account
for several sponsors, paid as long as it holds enough; supersession by rank and block.

**Emergency** — *`Emergency`*: two-round ceremonies over a frozen electorate, halt,
resume and one authorised recovery proposal in the SDK's governance. **Gov** —
*`GovLIP`, `ResearchFund`*: staged proposals, their effects and delayed phase changes;
elections, seats, terms and spends. Hard: everything that is read when a vote opens and
used when it ends.

**IBC rate limit** — *`IBCRateLimit`*: quotas per channel and denom in windows of blocks,
with refunds that arrive late. **Auth** — *`Accounts`*: keys rotated by authorizations
that may be delivered late or twice. **Home** — *`AgentHome`*: keys, sessions, alerts and
the dead man's switch. **Agenttool relay** — *`AttestRelay`*: the one component outside
consensus, a daemon with a ledger on disk, crashes, lost answers and a mempool that
forgets.

**Not modelled**: see §9.

### Interactions

Messages create claims and rounds; `AdvanceRoundPhases` turns rounds into
verdicts; a verdict writes facts (`FactContest`) and freezes a settlement
(`ReviewRound`) in the same cached transaction; epoch work reads and writes
facts only. `ReviewRound` and `FactContest` share the verdict: `ReviewRound` says which verdicts
can occur and when, `FactContest` lets any verdict occur in any later block and
shows what follows for the facts. That is an over-approximation of the first,
so its safety properties hold for the composed system.

The other components meet the core and each other through few calls, and each module
takes the other side of the call as free as the caller may be: `SurvivalEscrow` lets a
fact's status move by every move `FactContest` makes; `Vesting` may refuse a hand-off of
`SurvivalEscrow` and learns of DISPROVEN facts from `Disprove`; `SubstrateBridge` takes
any verdict of a claim in any block; every minter shares `SupplyCap`, and
`MintElsewhere` stands for the other minters; `ResearchFund` lets a phase change of
`GovLIP` activate in any block; the review hold of `Emergency` is an input of `GovLIP` and
`ResearchFund`; `Sponsorship` lets facts change standing on their own; `AttestRelay`
assumes of the chain what `SubstrateBridge` does with a submission. What such a module
promises therefore does not depend on the other component's promises, with the two
exceptions named under fairness.

## 2. `ReviewRound`

### State

| variable | code |
|---|---|
| `height`, `stage`, `work` | block height; which loop of `BeginBlocker` (or the transactions) runs; its loop variables |
| `minVerifiers` | `params.MinVerifiers`, which governance changes |
| `claim[r]` | the claim: kind of payment, amount paid, submitter, defender of the disputed fact, whether it answers the bounty's domain |
| `round[r]` | `VerificationRound`: phase, start, commitments, reveals in order, verdict and its block, frozen reward plan, frozen refund |
| `pending`, `cursor` | the 0x82 index and 0x83 cursor |
| `moduleBal`, `received` | the module account; what settlements have sent to each account |
| `bounty` | one demand bounty |
| `custody` | history: how much of the account came from claim `r` |

### Actions

| action | code |
|---|---|
| `SubmitClaim`, `SubmitDispute` | the four funded messages: fee split or deposit, frozen funding terms, round opened |
| `SubmitCommitment`, `SubmitReveal` | the two messages with their guards (phase, deadline, seat cap, conflict of interest, duplicate, matching commitment) |
| `UpdateParams` | governance |
| `NextBlock`, `PendingStop`, `PendingPaid`, `PendingUnpaid`, `PendingDone` | `ProcessPendingVerifierRewards` |
| `KeepPhase`, `OpenReveal`, `CompletePaid`, `CompleteOwing`, `CompleteFails`, `AdvanceDone` | `AdvanceRoundPhases` and `CompleteRound` with its inner cache |
| `ProcessDemandBounties`, `ProcessExpiredBounties` | the bounty part of the epoch |

A vote and its salt are abstracted to the commitment function: `commits[v]` is
the vote the hash binds, so a reveal that does not match is the refused
transaction and is no action. `ExpectedPhase` is `GetExpectedPhase` with the
early-aggregation test and the floor at the stored phase.

A refusal of the bank is a nondeterministic choice (`PendingUnpaid`,
`CompleteOwing`), and so is an error anywhere in a completion (`CompleteFails`),
because the code treats every error the same way: the cache is dropped, the
phase transition stays.

### Abstractions

* All five activation markers are on, so every round has review policy 1: each
  review weighs 1 and all revealed reviewers share the pool equally. Rounds of
  policy 0 cannot be opened any more then.
* Sponsored claims are refused under policy 1.
* Reputation, quality and calibration records written by a completion decide no
  payment or verdict and are left out. So are `CascadeDisproven` and
  `DistributeLineageRoyalties`, which nothing calls.
* The module account also holds domain-proposal stakes and patronage. They
  bring their own money; the bounty stands for such a tenant.

## 3. `FactContest`

`claim[c]` is a record of one of four kinds (claim, conjecture, contradiction,
challenge) with its target, the facts it depends on, its text and the block it
was opened in; `fact[f]` holds status, whether it is at risk, when it fell and
the cutoff of the last survived challenge; `taken[t]` is the content index. A
claim and its fact share an identifier.

| action | code |
|---|---|
| `SubmitClaim`, `PostConjecture`, `SubmitContradiction`, `ChallengeFact`, `ChallengeProvisionalFact`, `PatronizeFact` | the messages |
| `AcceptClaim`, `AcceptContradiction`, `AcceptChallenge`, `RejectChallenge`, `AbandonChallenge`, `EndContradiction`, `EndClaim` | the verdict handlers called by completion, each with its cascade and releases |
| `EpochWork` | competition in niches, then metabolism, in that order |
| `BeginDone`, `NextBlock` | the rest of the block |

`complete` in the release actions is the outcome of a bounded check: the scan
limit was not reached and every record could be read. When it is `FALSE` the
check must keep the fact contested. Energy is abstracted to what metabolism
tells apart (enough, low, low for as long as expiry or pruning takes); all
facts are in one niche, and any nonempty set of survivors is possible.

Two histories limit `Unopposed`, because the code limits it: a fact is not
contested by a dependency that had fallen before it was born (`bornAt`), and
metabolic recovery restores a fact without asking the contest check (`decayed`).

Not modelled: the canonical-form index beside the text index, doctrine facts
(exempt from metabolism) and their rescue, facts injected by governance.

## 4. The other components

Each module keeps the source's names for actions and helpers; its variables carry a
comment that names what they stand for. What follows is what a reader needs besides.

**`SurvivalEscrow`.** A block runs verdicts, sweep, epoch work and transactions in the
order of `BeginBlocker` (`stage`). `SweepSurvivedRewards(refused)` is the whole sweep, with
the set of hand-offs that vesting refuses as its input; `Migrate6to7` is the index rebuild
of the upgrade, over a history whose index may have lost entries; `EnableReviewNeutrality`
ends the recording of new rewards. The status moves are those of `FactContest`, one fact
at a time.

**`FactInjection`.** An identifier is a content and the height it was proposed at, as the
code hashes both. `UpdateParams` changes window and guardians between any two messages;
`MaterializeMaturedFactInjections` follows the index, as the code does, and not the record.

**`Sponsorship`.** `CreateBountyOrder`, `FulfillBounty`, `CancelBountyOrder`, expiry in
`BeginBlock`, and `ExportImport` with the counter that is exported one ahead. Facts change
standing on their own.

**`Qualification`.** The pathways by stake, cross reference and inheritance, endorsement,
renewal, withdrawal, outcomes, and one begin blocker that decays, promotes, demotes and
expires in the order of the code. The track-record pathway needs metrics of a record and
refuses a validator that has one, so it never succeeds and is left out. `Nested` says which
domain names continue another one after a slash, because endorsements are looked up by a
key prefix.

**`CaptureChallenge`.** `RecordVerification` and `AnalyzeDomain` are detection
(`x/capture_defense`); the rest is adjudication. `ResolveChallenge` is the verdict with its
transfers, pools, pause and penalties; `NextBlock` runs detection and then the phases of
challenges, as the application orders them (`app.go:1260`).

**`Vesting`.** The release curve is the code's integer series with its constants as
parameters, so that TLC's 32-bit integers hold the products. `ClaimVesting` writes every
schedule and then makes the one transfer; a refusal undoes both.

**`SubstrateBridge`.** Begin-block scans collect first and handle one by one (`stage`,
`todo`), as the code does, so that a failure leaves the rest. The upgrade may happen at
any time (`UpgradeSeed`), over a history of attestations in any status. `SupplyCap`'s
`MintWithCap` clips; `MintElsewhere` and `BurnElsewhere` are other modules of the same block.

**`ClaimingPot`, `Tokens`.** Every message; pots of before the migration that were not all
charged; an emission whose recipient the bank refuses.

**`PoolMath`, `LiquidityPool`.** `PoolMath` has the rounding of `amm.go`; the module the
pools, indexes, shares as bank coins (sent between holders too), migration, price
accumulators and the bounded clean-up. A message is one transaction, so the lock that is
taken and released inside one is not state.

**`Staking`.** Both profiles and the upgrade between them at any point of a legacy ledger's
life. The verification hooks exist and are not wired in the application; the action
`RecordVerification` stands for what they would do. The gaps of the legacy profile are
acknowledged by `docs/AUTHORITATIVE-STATE.md:83–91`, so the exact promises are stated for
the accounting profile.

**`TrainingFund`.** A vote and the verdict it completes are one transaction. `locked` is the
escrow entry of a bounty, which ends at zero however much is taken; `over` and `kept` are
histories of what that leaves unaccounted. A vote's weight is frozen when it is cast, so it
is an input. **`TrainingManifest`.** A selector is what it finds; roots are injective.

**`Emergency`.** Messages, both blockers, export and import, and the recovery lane: the
SDK's governance as `app/emergency_recovery_gov.go` drives it (`gov` is external). A
zero-height export is disabled (`app/export.go:24`), so an import continues at the
exported height.

**`GovLIP`, `ResearchFund`.** One action for the begin blocker of each, with what it reads
of other modules as an input (`Surroundings`): quarantine, failing effects, a body that is
not anchored, readiness of the next phase. `TallySeatElections` takes the order in which the
code ranges over a map as a choice.

**`IBCRateLimit`.** The middleware's callbacks, the windows, and `Restart`, an export and
import that drops the packet flows. Core IBC delivers each packet's end once, in any order.

**`Accounts`.** `Sign` makes an authorization off chain; `RotateKey` may be delivered at
any later time, again, and under `x/authz`, whose message runs in its grantee's transaction
so that the decorator saw another signer.

**`AgentHome`.** One home. `Wrap` is the width of the heights (2^64 in the code), so that a
threshold or a session that overflows can be told apart. Three things of the code are easy to
overlook and are in the model. `StartSession` and `EndSession` ask for no owner and no holder of
the key: any account may start a session of a registered key, which refreshes the last active
block and so holds the dead man's switch off, and may end any session; `DeadmanFires` is about
a home that everyone left alone. The expiry of a key is checked when a session starts
(`msg_server.go:247`) and never again, while the session gets a full timeout (`:267`), so a
session may outlive an expired key, though not a revoked one; no text of the repository says
otherwise, and `SessionsEnd` bounds by how much. And `UpdateParams` may lower a limit below what a
home stores: what is stored stays, so the limits are no invariant but bound what a step may
add (`GrowsWithinLimits`).

**`AttestRelay`.** Memory and disk are apart; a pass reconciles, submits, waits and
persists in the order of the code, and may crash between any two writes. The node is the
environment. CometBFT 0.38 keeps a transaction as long as its mempool is configured to and
the repository configures nothing, so the retention is a constant, in blocks or in time.
The chain refuses duplicates of a source once the index is armed; the relay must not rely on
that before.

## 5. Runs

### The knowledge core

| run | instance | shows |
|---|---|---|
| `review_panel` | 1 round, 4 accounts, 3 vote options, quorum 2 or 3 and moving, payments of 1 and 7 uzrn; 143,648 states | type, exact custody, legs paid together, verdicts justified (an early one heard everyone, a decisive one has a quorum), no commitment after a reveal, decided rounds frozen |
| `review_two_rounds` | 2 rounds, 3 accounts, batch of one, bounty; 2.7 million states | the shared account is solvent, everybody is paid exactly once, the queue is exact, `ReviewEscrow` is implemented |
| `review_liveness` | 2 rounds, panel of one seat with refund | every claim is decided, every obligation is paid |
| `fact_disputes` | 2 genesis facts, one depending on the other, 3 records, 2 texts, no epochs | no order of disputes launders a fact; only challenges refute |
| `fact_decay` | 1 genesis fact, 3 records, 1 text, epochs at heights 2 and 4; 834,000 states | facts under adjudication are left alone, questions stay questions, no twins, fallen stays fallen, no laundering with decay in between |
| `expired_challenge` | 1 genesis fact, 2 records, an epoch in every block | a violation, see §8 |

### Portfolios

The other components are checked in portfolios. A portfolio module instantiates several
components, some of them twice with different constants. Its initial state picks a
*scenario*; from then on that instance runs alone and the variables of the others are off.
The state space is the sum of the scenarios', not their product: the components of one
portfolio are *not* composed, they share a run. What a component promises is one property
of the portfolio, a conjunction of the component's named invariants (`[](At(s) => I)`) and
step predicates (`[][At(s) => A]_vars`, `A` a formula with primes in the component's module).
The assumptions of a component about its constants are plain definitions there
(`…Assumption`), and the portfolio assumes them of every instance, so TLC evaluates them.

| run | scenarios | promises |
|---|---|---|
| `standing` | `survival`, `injection`, `bounties`, `records`, `endorsements`, `funds`, `verdicts`, `detection` | `RewardsFollowSurvival`, `VetoesHold`, `BountiesPaidOnce`, `StandingIsEarned`, `CaptureIsHeard` |
| `issuance` | `curve`, `schedules`, `bridge`, `resubmitted`, `pots`, `balances`, `emission` | `VestingPaysTheCurve`, `BridgeMintsOnce`, `PotsKeepTheirBudget`, `TokenSupplyAccounted` |
| `custody` | `shares`, `prices`, `profiled`, `upgraded`, `tiered`, `fund`, `bonded`, `panel`, `composed`, `succession` | `SharesKeepTheirValue`, `StakeNeverLost`, `TrainingStaysAccounted` |
| `governance` | `quorums`, `incidents`, `council`, `recovery`, `votes`, `effects`, `phases`, `spends`, `seats` | `EmergencyStaysLawful`, `LipsDoAsVoted`, `FundPaysAsDecided` |
| `boundary` | `denoms`, `windows`, `accounts`, `rotations`, `sessions`, `switch`, `blocks`, `time`, `pairs`, `anycase` | `FlowsStayCapped`, `KeysRotateOnce`, `HomesStayGuarded`, `InvocationBondsOnce` |
| `progress` | one of each of eight components | `EverythingEnds` (liveness) |

Every property of a passing run has a mutant in `PROJECT.json`: an operator,
marked *Slip* in the modules, that changes one definition the way a plausible
mistake in the code would, and under which TLC violates the property.

### Bounds and why they are enough

* *Panel.* Three seats and a quorum of 2 or 3 give panels below, at and above
  the quorum, unanimous and split, committed and not revealed. At a threshold of
  77% three reviewers separate "2 of 3" from "3 of 3". Four accounts leave room
  for a submitter or defender who may not review.
* *Payments.* 7 uzrn makes the 55% budget round (3), divides unevenly between two
  reviewers and leaves a refund; 1 uzrn has a budget of 0.
* *Two rounds* with a batch of one make cursor, batch and budget interact and
  put two claims and the bounty into one account. `CommitSeatHardCap` = 1 in the
  liveness run makes a full panel with its refund need the whole budget of a
  block.
* *Heights.* In `ReviewRound` the clock saturates at `MaxHeight`. A claim is
  admitted only while all its deadlines still lie within that bound (a conjunct of
  `Admit`), so every round reaches all of them; blocks
  go on at the last height, so nothing deadlocks and retries continue for ever.
  In `FactContest` `MaxHeight` ends the behaviour, hence
  `CHECK_DEADLOCK FALSE`; four or five blocks hold every order of three disputes
  and, in `fact_decay`, two epochs, which is what decay to EXPIRED or PRUNED
  needs.
* *Relations.* One dependency per claim: contest reasons are existential over
  edges, and two edges never interact except through the release check, which
  genesis edges and a contradiction exercise together.
* *Symmetry* on accounts, on non-genesis identifiers and on texts; the
  specifications treat them alike. In a portfolio only on values no scenario tells
  apart. None in the liveness runs.
* *Portfolios.* Heights end the behaviour at `MaxHeight` of the scenario, hence
  `CHECK_DEADLOCK FALSE`. Each bound is chosen so that what the scenario is about happens:
  windows, deadlines and cool-downs of one to three blocks inside four to eight blocks, so
  that each runs out, is renewed and runs out again; amounts of 1 to 5 that round (a fee of
  10% of 3, half of 3, 85% of 10); two of what competes (packets, orders, guardians,
  candidates, proposals) and one of what does not; a cap that two minters of one block
  cross; a mempool that forgets after one or two blocks; a quorum where the heavy voter
  alone is not enough and the light ones together are not either.

### Fairness

`WF(Block)`: consensus keeps producing blocks and `BeginBlocker` runs to its
end; transactions have no fairness, nobody has to act.
`SF` of completing a round and of paying a queued round: an error of a completion
or a refusal by the bank is not permanent. It must be strong, because the
attempt is enabled only when its round's turn comes and is disabled in between.
The code does its part by attempting again in every block
(`AdvanceRoundPhases`, and the queue whose cursor returns to the front); that
the cause goes away is an assumption about the environment. What the run shows is
that the walk, the cursor and the budget give each round its turn for ever.

`progress` assumes that blocks keep coming and that a begin blocker runs to its end
(weak fairness of block steps, for each component under its own scenario) and, for survival
rewards only, that each open challenge gets its verdict (which `review_liveness` shows as
`EveryClaimDecided`) and that vesting does not refuse one hand-off for ever; both strong,
since a verdict or a sweep is disabled between blocks. Nobody who sends transactions is
fair. `EverythingEnds` has the form `<>[]`: work that could not end within the heights of
the model is not admitted, so what must end does so for good. In `survival` blocks and
challenges go on for ever at the last height.

## 6. Proofs

TLC checks small instances; the theorems hold for every set of rounds, accounts, facts,
keys, attestations, packets and transactions and for all parameters that satisfy the
assumptions named. A theorem that states a property of a run is named with it; the
portfolio's property of that name puts the same formula to TLC for its instances.

| module | theorem | statement |
|---|---|---|
| `ReviewRoundProofs` | `BudgetsAgree` | the review budget fixed at admission equals the one the validator recomputes by another formula |
| | `FeeSharesConserve` | the shares of a fee are natural numbers and add up to it |
| | `Invariance`, `TypeCorrect` | `[]IInv`, `[]TypeOK`; in particular no payment takes more than the custody of its claim |
| | `CustodyIsExact`, `QueueIsExact`, `LegsAreAtomic` | `[]CustodyCovers`, `[]PendingIndexExact`, `[]SettledTogether` |
| | `DecisionIsFinal`, `PhasesAdvance`, `PanelClosedFirst` | `FinalIsFrozen`, `PhaseMonotone`, `NoCommitAfterReveal` |
| | `EscrowRefinement` | `ImplementsEscrow` |
| | `VerdictsJustified` | `[]VerdictJustified` |
| | `ModuleIsSolvent`, `EveryLegPaidOnce` | `[]Solvent`, `[]PaidExactlyOnce` |
| `FactContestProofs` | `TypeCorrect`, `AdjudicationExclusive`, `StandingUnopposed`, `ConjecturesStayQuestions`, `RefutationsAdjudicated`, `TextsDistinct` | `[]TypeOK`, `[]ChallengedIffOpen`, `[]Unopposed`, `[]QuestionStaysOpen`, `[]RefutedByChallenge`, `[]NoTwin` |
| | `FallsAreFinal` | `FallenForGood` |
| `StandingProofs` | `Invariant`, `BountiesPaidOnceHolds` | `[]IInv` of `Sponsorship`; `BountiesPaidOnce`, all that `standing` checks of the component |
| | `SurvivalTypeCorrect`, `SweepMissesNothing`, `OneSchedulePerClaim` | `[]TypeOK`, `[]IndexExact`, `[]RewardedOnce` of `SurvivalEscrow` |
| | `RewardsKeepPromise` | `RewardsFollowSurvival`, all that `standing` checks of the component |
| | `VetoesHoldAlways` | `TypeOK`, `Reviewable`, `[][VetoHolds /\ LeavesByVetoOrFact /\ NotBeforeAnnounced]_vars` of `FactInjection` |
| | `StandingStaysEarned` | `TypeOK`, `StandingIsCurrent`, `ProbationBounded`, `NoWeightGained`, `[][SuspensionHolds]_vars` of `Qualification` |
| | `EndorsementsCounted` | `[]EndorsementCountExact`, if no domain's name continues another's |
| | `ChallengesAreHeard` | `TypeOK`, `ConsequenceLands`, `OneAutoChallenge`, `Spaced`, `[][FlaggedIsHeard]_vars` of `CaptureChallenge`; `Backed` and `RefundedOnExpiry`, if no challenge is rejected and the pause is not zero |
| `IssuanceProofs` | `TypeCorrect`, `SupplyCapped`, `BondsAreBacked`, `OneMinter`, `RewardRecorded`, `HeldRewardsUnpaid` | `[]TypeOK`, `[]CapHolds`, `[]BondsBacked`, `[]OneMinterPerSource`, `[]RewardIsCoined`, `[]HeldBackUnpaid` |
| | `WitnessRewardsSurvive` | `[][WitnessSurvived]_vars` |
| | `WorkMintsOnlyOnce` | `[]WorkMintsOnce`, if no witness reward was held back at the upgrade |
| | `BridgeKeepsPromise` | `BridgeMintsOnce`, all that `issuance` checks of the component |
| | `SchedulesPayTheirShare` | `TypeOK`, `WithinCap`, `PaidIsReleased`, `PausedTimeExcluded`, `ClawbackConserves`, `FalsifiedIsDisproven`, `OneSchedulePerClaim`, `[][EndedStaysEnded]_vars` of `Vesting` |
| | `PotsStayInBudget` | `TypeOK`, `LifetimeBudget`, `ExportValidates`, `RegistrarRate`, `SeedWaits`, `[][TerminalKept]_vars` of `ClaimingPot` |
| | `TokensStayAccounted` | `TypeOK`, `SupplyAccounted`, `PowerBacked`, `NothingStranded`, `WithinSchedule`, `[][PauseHolds]_vars` of `Tokens` |
| `CustodyProofs` | `FundStaysAccounted` | `TypeOK`, `FundAccounted`, `ShortfallExplained`, `PlacesPaidOnce`, `VerdictAtFirstConsensus` of `TrainingFund` |
| | `ManifestsStayCommitted` | `TypeOK`, `RootsCommitToAncestors`, `BundleCoversSelection`, `OneCurrentManifest`, `LaterAttestationAtOnce` of `TrainingManifest` |
| `IBCRateLimitProofs` | `TypeCorrect`, `RecordsMatchPackets`, `OutflowCapped`, `InflowCounted`, `ChargedForUseOnly` | `[]TypeOK`, `[]FlowsTrackPackets`, `[]NetFlowBounded`, `[]InflowExact`, `[]NoOvercharge` |
| | `LimitsKept` | `[]FlowsStayCapped`, all of it |
| `BoundaryProofs` | `DirectoryTypeCorrect`, `ExportNeverPanics`, `NoReplay` | `[]TypeOK`, `[]ExportAccepted`, `[]AuthorizationUsedOnce` of `Accounts` |
| | `AccountsKeepPromise` | `KeysRotateOnce`, all that `boundary` checks of the component |
| | `TypeCorrect`, `AttestedWasAttested`, `OneBond`, `SubmittedRarely` | `[]TypeOK`, `[]AttestedIsTrue`, `[]NoDoubleBond`, `[]SubmissionsBounded` of `AttestRelay` |
| | `RelayKeepsItsPromise` | `[]InvocationBondsOnce`, all of it |
| | `HomesStaySafe`, `GuardedNotEarly` | `TypeOK`, `SessionsUnderTheirKey`, `SessionsEnd`, `DeadmanFires`, `[][ArchivedIsTerminal /\ GrowsWithinLimits]_vars`, `[][DeadmanNotEarly]_vars` of `AgentHome` |

Four proof modules hold those of several components: each extends one of them and takes the
others as instances, so that `Survival!TypeOK` in `StandingProofs` is the `TypeOK` of
`SurvivalEscrow`, `Veto` is `FactInjection`, `Quals` is `Qualification`, `Capture` is
`CaptureChallenge`, `Registry` and `Homes` in `BoundaryProofs` are
`Accounts` and `AgentHome`, `Manifests` in `CustodyProofs` is `TrainingManifest`, and `Vest`,
`Claiming` and `Tok` in `IssuanceProofs` are `Vesting`, `ClaimingPot` and `Tokens`.
`TotalsProofs` holds the lemmas about sums that `ReviewRoundProofs`, `StandingProofs`,
`IssuanceProofs`, `CustodyProofs` and `IBCRateLimitProofs` rest on.

**Assumptions.** Those of `ReviewRound` and `FactContest` are ASSUMEs of the modules; those of
the other components are definitions, hypotheses of the theorems and assumed by the portfolios
of every instance. TLC evaluates all of them.

* `ReviewRound`: round identifiers are positive numbers and finitely many, votes are among the
  three options, payments, quorum, seat cap, batch, epoch and bounty are positive, the
  confidence threshold is positive and at most a million, phases have any natural length.
* `FactContest`: genesis facts are among the identifiers, none of which is `None`; epochs are
  not empty.
* `SurvivalEscrow`: legacy facts are facts, the window is positive and ends below the bound.
* `Sponsorship`: sponsors and facts are finitely many; prices, quotas and durations are positive.
* `FactInjection`: windows are finitely many natural numbers and all end below the bound; `None`
  is no guardian.
* `Qualification`: validators and domains are finitely many, periods and intervals are positive,
  the weight of the stake pathway is at most 100. `EndorsementsCounted` also needs `Nested = {}`,
  without which it is false (§8).
* `CaptureChallenge`: domains are finitely many, only validators are accused, stakes and gifts are
  natural numbers, the periods are positive, the reward is at most the whole pool, the module
  account is no challenger. `Backed` and `RefundedOnExpiry` need two more hypotheses. A rejection
  credits a stake that is sent away (§8). And the code accepts a pause of zero blocks, with which
  two challenges of one challenger, domain and block share an identifier: the second
  overwrites the first, whose stake stays in the account.
* `TrainingFund`: rewards and bonds are natural numbers, a bounty has at least one place, bonuses
  are positive (the code reads zero as its default), the expiry fee is at most the whole,
  verdicts are the four of the code.
* `TrainingManifest`: a manifest may have at least depth one.
* `SubstrateBridge`: types, a positive bond and window, thresholds in basis points, a supply
  within the cap at the upgrade. `WorkMintsOnlyOnce` also needs `~HeldRewards`, without
  which it is false (§8).
* `Vesting`: claims, facts and recipients are finitely many, the half-life and the fixed-point
  constants are positive, the cap is at most the whole. One assumption is arithmetic: powers of
  two are positive, which the provers, having no exponents, cannot derive.
* `ClaimingPot`: agents are finitely many and none is a pot number, the seed amount and the window
  are positive, pots are created with a positive total, nothing claimed and natural heights.
* `Tokens`: accounts and ranges are finitely many, amounts, rates and heights are natural numbers,
  the supply starts within the cap, `Void` is no token.
* `IBCRateLimit`: amounts and windows are positive.
* `Accounts`: types, positive lifetimes; `None` is neither an address nor an account.
* `AgentHome`: finitely many keys, parameters are natural numbers, `None` is no home and heights
  do not wrap. `GuardedNotEarly` also needs `ThresholdsFit`: no threshold a
  home is created with wraps when added to a height. The code checks only thresholds configured
  later, and without the hypothesis the statement is false (§8).
* `AttestRelay`: types, and `PatienceAssumption`: a transaction is gone from the mempool by the
  time `decideReconcile` gives it up, in blocks or on the clock. The code cannot see to that,
  since the node's operator configures the mempool; with less patience a resubmission
  races its predecessor (the mutant of `InvocationBondsOnce` gives up that early). `OneBond`
  and `SubmittedRarely` also assume `~Lossy` and `~Ambiguous`; §8 says what happens otherwise.

**Arguments.** Each module has one inductive invariant `IInv`; the properties follow from it.

*`ReviewRound`.* `IInv` is `TypeOK`, `WorkList` and `Ledger`.
`Ledger` says per round that the shape of the record fits its phase (before
completion there is no settlement, and an absent round belongs to no admitted
claim), that its custody is its liability, that it is queued exactly when
something is due, and that its two legs share their marker. None of these is
inductive alone: exact custody needs the shape to know that nothing was frozen
before completion, and needs the queue to know that what the retry pays is due;
the queue needs both legs to be paid together; and the type of `custody`, from
which a payment subtracts, needs its exactness. `WorkList` says that the list a running
loop holds contains only rounds the loop may touch: between collecting the
list and visiting a round nothing has changed that round. The step is proved
action by action; `LedgerUpdate` reduces every action to the one round it
changes. The action properties and the refinement follow from `IInv` and a lemma
that says what any step may do to one round (`StepOfRound`).
On top of `IInv` come three invariants of their own. `Panels` (every reveal is of a seat of
its own, an early decision heard every seat, a decisive one a quorum) gives
`VerdictJustified`; that the reveals of a round are as many as the seats heard rests on
nobody revealing twice. `Balanced` (the account holds the sum of the custodies and the open
bounty) gives `Solvent`, since `Ledger` makes custody the liability; that an account has
received the sum of its paid legs is inductive by itself once `Ledger` says which legs
a step pays. The sums are `Totals`: `Total(f)` is the number of
coins when `f[x]` numbered coins lie on each `x`. So written a sum is the cardinality of a
set and needs no recursion, and that it changes by what one summand changes follows from
the cardinality of disjoint unions; TLC compares it with the recursive sum.

*`FactContest`.* `Unopposed` is not inductive: to see that a fact cleared of its contest has no
reason left one must know that the claims which oppose it are about facts that exist
(`Shape`), that decay leaves its mark (`DecayMarked`), that a later fall is told from an earlier
one by height (`FellBefore`). `OneOpen` is `ChallengedIffOpen` with quantifiers for cardinalities.
`Indexed` says that the text index names the record which holds the text now, which is more
than `NoTwin` and is what a takeover of a text needs. Every verdict is reduced to what it may do to
any other fact (`Ruled`), epochs and patronage to what aging may do (`Aged`).

*`SurvivalEscrow`.* `IInv` adds to the promise that a claim which is not accepted has no record
(`Unborn`): an acceptance never writes over a record whose index entry would stay. Every
hand-off, cancellation and refutation is one lemma about dropping a set of records
(`DropStep`).

*`Sponsorship`.* `IInv` is the types (`Books`), fresh numbers, `Taken` and `Sums`. That an order's
rest is its price times the artifacts it still wants is inductive per order; the money is
`Sums`: all coins are what sponsors hold, the escrow and what facts earned; the escrow is the
total of the rests; what a fact earned is the total of the prices of the orders that took it.
`EscrowExact` alone is not inductive, since a payout must be known to be covered by the rest of
its own order. A quota is the cardinality of the facts taken, which grows by one only because
`Taken` forbids a second record for the same pair.

*`FactInjection`.* `QueueIndexed` adds what `Reviewable` does not say: each proposal in the queue
has the index entry of its own height, every entry is of a height that was announced, and
nothing that was vetoed is queued. Without the second a stale entry, which a changed window
leaves behind, could mature a proposal early.

*`Qualification`.* `QualInv` adds to the promise that only the stake pathway has a stake, so that
withdrawing a derived record takes nothing, and that what is stored is finite. The begin
blocker is judged record by record (`Passed`): decay, promotion and expiry keep the grant of a
record, and whoever is in standing afterwards was before and has not run out. That no derived weight
exceeds its source is integer arithmetic (`PartOfWhole`). An endorsement count is the
cardinality of a set that grows by a fresh number and shrinks by what expires, so the
subtraction in the code, which stops at zero, never has to.

*`CaptureChallenge`.* `CaptureInv` adds that penalties end within a period of now, so that a later
verdict never shortens an earlier one, and that a paused domain is paused beyond every challenge
of the past (`PausesOK`), which spaces challengers and keeps identifiers fresh. The account is the
total of the pools and of the open stakes. That every stake which expires is returned, and
not only as many as the loop can pay, follows from it (`AllRefunded`): what is left over is at
least what is due.

*`TrainingFund`.* `FundInv` adds to the promise the shape of the records (`Records`), and per
bounty `EscrowsExact`: as long as a bounty is in order (no variant of it vetoed, none paid after
the expiry, no more paid than its escrow) and has not reached its height, its entry and its
payouts add up to the escrow. `NoneBeyond` says that nothing has left beyond an escrow unless
some bounty is out of order, which is `ShortfallExplained`. The two need each other: that a
payout of a bounty in order stays within its entry is what keeps `over` at zero.
`VerdictAtFirstConsensus` follows since weights only add: appending a vote is one more summand,
and no vote joins a ballot that has a verdict.

*`TrainingManifest`.* `ManifestInv` adds `Ancestry`: a parent is committed and what is no draft has
a root, so that the root hashed into a child is the one the parent keeps. `OneCurrentManifest`
is restated for two manifests at a time (`CurrentOK`) and holds only at block boundaries;
inside a block it is kept because what is finalized or attested in the block carries its
height. That supersession leaves exactly one rests on a greatest element of a bounded set of
heights and numbers (`GreatestNumber`, from well-foundedness of the natural numbers).

*`SubstrateBridge`.* Per attestation, `RecordOK` ties reward, coins minted, held-back reward and
status together; `Numbered` says that the attestations stored are an initial segment;
`ScansOK` says what the begin blocker's loop may hold; `HoldersOK` is the source wall.
`WallOK` carries the wall over the upgrade: before it no reward is
held back and no source is indexed, after it the index names whoever minted.

*`Vesting`.* `ScheduleOK` says per schedule that the blocks it ran are what pauses leave of its
age, and that its releases stay within the cap. The latter holds whatever the
series of the curve computes: the fraction is clipped, and a share of a share rounded twice is no
more than the share rounded once (`ShareOfFraction`), which leaves the reserve
(`CapAndReserve`). So a clawback, which clips what is unvested at zero, never clips, and splits
without loss. That the payments of a recipient are the total of what its schedules show rests on
`TotalSum`, the total of a sum, since one claim may pay many schedules.

*`ClaimingPot`.* `PotsInv` keeps books per pot (`PotBookOK`: the claims of the accounts add up to
what the pot shows as claimed) and says what makes a pot a seed (`SeedOK`: one agent, one height,
one amount). `ChargedOK` is the heart: after the migration the units charged are at least
those of all pots, and fit the cap. Units are amounts divided and rounded up, so the budget in
coins follows from the one in units by summing over the pots (`TotalScaled`), and the units of the
seeds are a cardinality (`TotalCounts`). `WindowOK` says that the counter of a window is the number
of agents registered in it, which a cap changed within the window must respect.

*`Tokens`.* `LedgerOK` and `PowerOK` are sums: every step of the token moves one summand, or two by
opposite amounts (`TotalMoved`), and what may leave an account is what it has not delegated. For
emission, `PeriodOK` replaces the bound of `WithinSchedule`, which no block preserves, by what the
blocks of the range begun so far allow (`Begun`). A block goes through its periods by the
recursive function `After`. That the function satisfies its equation, and that every prefix of the
order is sound, is proved by the least number for which it would fail (`AfterSteps`,
`AfterKeeps`): an argument the provers can follow, where an induction theorem that takes the
predicate as a parameter is out of their reach.

*`IBCRateLimit`.* `Honest` bounds what a limit counted from both sides: no less than what left
and did not come back in its window, no more than the packets of the window still under way
or delivered (`Load`, a total). The lower bound gives the caps, the upper one
`ChargedForUseOnly`.

*`Accounts`.* `Rows` says per address that the rotations executed are as many as the key
generations ended and that each names the generation it ended, so an authorization used
twice would name two; `Directory` matches DIDs and accounts.

*`AgentHome`.* `HomeInv` adds that what is stored is finite and where thresholds come from
(`ThresholdKnown`), that a session lasts no longer than a timeout that was in force (`Lasts`) and
that the begin blocker has ended what expired unless the home is archived (`Ended`); from the
last two and `SessionsUnderTheirKey` follows how far a session may outlive its key. The limits
are the work, and a matter of steps since a vote may lower them: a new alert may replace one of the same identifier
or be dropped, and the end of a block raises as many alerts about expired sessions as there is
room for, so each count is compared with the one before through unions of finite sets (`PendingSplits`, `AlertsChain`). That the switch
fires holds although its addition may wrap, since a wrapped sum is only smaller (`Wraps`).

*`AttestRelay`.* `EntryOK` counts: misses since the broadcast lie in as many different
blocks, so an entry given up is older than the mempool keeps a transaction (`TxsOK`). It is kept of
memory and disk alike, since a restart makes the one the other. `Alone` then says that the
ledger names every transaction that was or may be executed, `Counted` that it accounts for
every one sent.

**Only model-checked.** Liveness under fairness and `ENABLED` are out of the prover's reach
(`EveryClaimDecided`, `EveryObligationPaid`, `EverythingEnds`), and so are the theorems of the
library that state induction over data; where a recursion is bounded by a number, its least counterexample does.
`TrainingStaysAccounted` of `custody` is the conjunction, over five instances, of the formulas that
`FundStaysAccounted` and `ManifestsStayCommitted` prove; likewise for the other properties of the
portfolios. `PoolMath` multiplies amounts, out of reach of linear arithmetic, and so does `VestedNeverFalls`, the
monotony of the curve of `Vesting`. The other
components (`Staking`, `Emergency`, `GovLIP`, `ResearchFund`) are not proved.

## 7. Hazards

`PROJECT.json` lists, by line, the forty that matter most, each with the properties that
would catch it. The modules meet more of the same kinds; the comment of a property names
the behaviour it guards.

## 8. Divergences

Where the code and a document, comment or test of the repository disagree. The first has a
run; the others are formulas kept in their modules, next to the properties, each with the
sentence it restates. TLC violates each of them in the scenario named (or with the
constants given), when it is checked there instead of the promise.

| where | the text | the code | formula; scenario |
|---|---|---|---|
| `x/knowledge/keeper/msg_server.go:987` | `docs/specs/knowledge-claim-integrity-v1.md:759`: "An EXPIRED fact cannot be challenged, so it holds its text until it is revived or pruned" | the door for conjectures refuses only DISPROVEN, PRUNED and CHALLENGED | run `expired_challenge` |
| `x/knowledge/keeper/guardian_veto.go:98` | `docs/EVENTS.md:1471`: "Guardians have until `execute_at_block` to call MsgVetoFactInjection" | a second proposal of a content in one block leaves the first index entry, which decides | `WindowKept`; `injection` |
| `x/knowledge/keeper/msg_server.go:596` | `phases.go:119`: "Until materialization the fact does not exist in state" | the queued path does not look whether the fact exists | `QueuedIsNoFact`; `injection` |
| `x/vesting_rewards/keeper/msg_server.go:107` | `msg_server.go:95`: "triggers clawback for a falsified vesting schedule" | falsifies the schedule the claim index names, which another schedule of the claim may have taken over | `FalsifiesNamed`; `schedules` |
| `x/vesting_rewards/keeper/rewards.go:325` | `docs/tokenomics/VESTING.md:103`: "Challenger receives: 63 ZRN" | the reward is recorded and logged, never sent | `ChallengerRewarded`; `curve` |
| `x/substrate_bridge/keeper/source_ref.go:176` | `source_ref.go:14`: "One external work item mints at most once." | the seed ranks a settled attestation whose witness reward is still held back as minted, so its paid twin's work mints again | `WorkMintsOnce`; `resubmitted` with `HeldRewards` TRUE |
| `x/claiming_pot/keeper/msg_server.go:192` | `types/types.go:63`: the pot "transitions to DEPLETED" | a claim clipped at the cap leaves it ACTIVE with a rest nobody can claim | `SeedDepletes`; `pots` |
| `x/claiming_pot/keeper/keeper.go:410` | `docs/testnet-economics.md:99`: "receiving their vested share" | the first whitelisted address takes the whole vested rest | `AirdropShare`; `pots` |
| `x/ibcratelimit/keeper/quota.go:17` | `proto/zerone/ibcratelimit/v1/types.proto:6`: "a sliding window" | windows are fixed (as `docs/plans/2026-07-06-defi-liquidity-pipeline.md:112` says) | `SlidingCap`; `windows` |
| `x/emergency/keeper/ceremony.go:469` | `types/genesis.go:55`: "4 distinct addresses minimum on any tally" | the first round closes on power alone | `AnyTallyIsPlural`; `incidents` with a guardian of three quarters of the power |
| `x/gov/keeper/msg_server.go:385` | `phase_transition.go:80`: "returns true if there's a non-terminal phase transition LIP in progress" | withdrawing the LIP leaves its metadata pending for ever | `ActiveMeansOpen`; `phases` |
| `x/gov/keeper/abci.go:131` | `types/types.go:35`: "higher pass thresholds than parameter LIPs" | a creed amendment passes like any LIP | `CreedPassesHigher`; `effects` with two voters of equal weight |
| `x/gov/keeper/research_spend.go:352` | `types/types.go:446`: "not used — standard LIP" | in full governance one approval pays a spend that was in flight | `NoCommitteeInFull`; `spends` |
| `x/gov/keeper/seat_election.go:602` | `docs/tokenomics/GOVERNANCE-MIGRATION.md:53`: "both approvals are required for a Phase 0 spend" | an election open at a rollback seats its winner in the founding phase, where seats count | `PairDecides`; `spends` with a nomination, from phase 2, rolling back |
| `x/gov/keeper/seat_election.go:150` | `seat_election.go:34`: "Must not already hold a community seat" | checked at acceptance, not when the winner is installed | `OneSeatEach`; `seats` |
| `x/gov/keeper/seat_election.go:275` | `prompts/R21/R21-1-localnet-verification.md:38`: "All 4 validators must compute identical state" | ranges over a map while runoffs take numbers from a counter | `TallyOrderIrrelevant`; `seats` with four nominations, one voter and no discussion, from phase 3 |
| `x/capture_challenge/keeper/msg_server.go:286` | `keeper.go:133`: "Return stake on expiry" | a rejected stake is sent away and also credited to the pool, which then pays from other stakes | `RefundedOnExpiry`; `verdicts` |
| `x/staking/keeper/keeper.go:644` | `docs/FAQ.md:140`: "any slash event deactivates a Guardian validator" | deactivation is by count, whatever the tier | `GuardianSlashDeactivates`; `tiered` |
| `x/knowledge/keeper/training_economics.go:759` | `msg_server_training_v4.go:58`: "The only way for a sponsor to block a verdict" | the payout goes out with the verdict, before any veto is possible | `VetoBlocks`; `fund` |
| `x/knowledge/keeper/training_economics.go:333` | `msg_server_training_v4.go:100`: "The sponsor loses the equivalent amount from remaining escrow" | when nothing remains the forfeit is taken from the shared account, and the entry stays at zero | `ForfeitFromEscrow`; `fund` |
| `x/knowledge/keeper/training_manifest.go:436` | `training_manifest.go:421`: "the bundle unions the parent's fully-resolved content" | it takes what the parent itself lists, not what the parent left to its own parent | `BundleResolvesParent`; `composed` |
| `x/knowledge/keeper/route_b_heartbeat.go:186` | `route_b_heartbeat.go:161`: "the manifest with the greatest finalized_at_block is the canonical current" | an older attested manifest supersedes it | `SupersededByLater`; `succession` |
| `x/tokens/keeper/msg_server.go:670` | `keeper.go:390`: "Track total emitted" | a period created again over the same range replaces the first with its total | `EmissionsTracked`; `emission` |
| `x/qualification/keeper/begin_blocker.go:84` | `begin_blocker.go:139`: "returns staked tokens to the validator" | the expired record keeps the amount, and withdrawing it returns it again | `StakeReturnedOnce`; `endorsements` |
| `x/qualification/keeper/state.go:188` | `state.go:185`: "endorsements for a specific validator+domain" | the key prefix also matches domains whose name goes on after a slash | `EndorsementCountExact`; `endorsements` with `Nested` domains |
| `x/home/keeper/begin_blocker.go:37` | `begin_blocker.go:54`: "inactive for %d blocks" | an unchecked initial threshold near 2^64 wraps | `DeadmanNotEarly`; `switch` with threshold `Wrap` - 1 |
| `x/home/keeper/begin_blocker.go:73` | `doc.go:8`: "removes expired sessions" | not those of an archived home | `ExpiredSessionsRemoved`; `sessions` |
| `tools/agenttool-relay/main.go:766` | `main.go:652`: "an invocation is attested exactly once no matter how often it reappears" | a crash between broadcast and write hides the transaction from the ledger | `NoDoubleBond`; `anycase` (`Lossy`) |
| `tools/agenttool-relay/main.go:745` | `main.go:455`: "never backward into a resubmit" | an error after the node accepted counts as a failure and is submitted again | `NoDoubleBond`; `anycase` (`Ambiguous`) |

The promises of §5 do not contradict the table: they state what holds in spite of it, and
a scenario that leaves such a behaviour out does so by the constants named here.

## 9. Not modelled

The repository has 291,796 lines of implementation in 875 files, of which about 122,000 are
generated (`*.pb.go`, gateways); of the 169,370 lines of hand-written Go the map names about
20,300 (7% of all lines, 12% of the hand-written ones). What is left out:

* *Generated code, queries, command line, SDK, dashboards, deployment, genesis tools*: they
  keep no consensus state.
* *Value weights, contribution records, model cards and traces* of `x/knowledge`, and bundles:
  records and computed views on top of accepted facts. Training disbursements are sealed.
* *Ontology, alignment, creed, work creed, counterexamples, training provenance, trust
  score, witness*: registries with little control flow, which decide no verdict or payment
  of a policy-1 round.
* *Application wiring and ABCI*: the order of blockers is part of the modules where it
  matters; the vote-extension path is behind a latch that the code keeps closed
  (`potVoteExtensionsReleaseEnabled`). Module accounts are blocked recipients, which the
  modules use where the bank may refuse.
* *Changes of parameters* other than those a module's own action for them names; all of them in
  `FactContest`, `SurvivalEscrow`, `Sponsorship`, `Qualification`, `CaptureChallenge`, `Vesting`,
  `Staking` and `ResearchFund`, whose promises are for parameters that stay.
* *Inside modelled components*, each named in `PROJECT.json`: review policy 0, lineage
  accumulators of the bridge, one-time store migrations that rewrite fields no longer read,
  the capability decorator, the one-shot mode of the relay, genesis import where nothing but
  decoding happens.

## 10. Plan

Modelling is complete as far as it adds control flow worth checking; what remains is to
prove more, in this order of value:

1. `Staking`: that the coins of the account cover every delegation and unbonding needs sums over
   pairs of validators and delegators, for which `TotalsProofs` has the steps but not yet the
   lemma that exchanges two sums;
2. the governance modules, in the order `ResearchFund`, `GovLIP`, `Emergency`: their invariants
   are lists of cases over seats, phases and ceremonies rather than arithmetic;
3. the divergences of §8, as theorems that hold once the code is as the text says.
