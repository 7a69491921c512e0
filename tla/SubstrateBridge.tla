-------------------------- MODULE SubstrateBridge --------------------------
(***************************************************************************)
(* External attestations of x/substrate_bridge: bonded submissions, the    *)
(* source index that lets one work item mint once, claim verdicts and      *)
(* timeouts, settlement in the begin blocker, witness rewards held for a   *)
(* challenge window, the adapter registry, and the upgrade that seeds the  *)
(* index on a chain with history.                                          *)
(*                                                                         *)
(* New submissions carry no pending claims; attestations that wait for     *)
(* verdicts come from the history.  Lineage records move no coins and are  *)
(* left out.                                                               *)
(***************************************************************************)
EXTENDS SupplyCap, FiniteSets

CONSTANTS
    Last,              \* attestation ids are 1..Last
    Legacy,            \* ids 1..Legacy may exist before the upgrade
    Sources, Unsourced,
    Adapters, AdapterOf,
    Bond,              \* uzrn per attestation
    Base, Weight,      \* of the reward formula
    WitnessReward,     \* of every adapter
    MaxClaims,         \* pending claims of a legacy attestation
    Threshold, MinRatio,               \* of 10000
    MaxPendingWindow, ChallengeWindow, \* blocks
    Supplies,          \* initial bank supplies
    OtherMints,        \* amounts other modules mint or burn
    Faults,            \* BOOLEAN: the bank may refuse a settlement
    HeldRewards,       \* BOOLEAN: the history may hold witness rewards back
    LastSubmit,        \* last height with a submission or the upgrade
    MaxHeight

BridgeAssumption ==
    /\ Last \in Nat /\ Legacy \in 0..Last /\ Unsourced \notin Sources
    /\ AdapterOf \in [Sources \cup {Unsourced} -> Adapters]
    /\ Bond \in Nat \ {0} /\ Base \in Nat /\ Weight \in Nat /\ WitnessReward \in Nat \ {0}
    /\ MaxClaims \in Nat /\ Threshold \in 1..10000 /\ MinRatio \in 0..10000
    /\ MaxPendingWindow \in Nat /\ ChallengeWindow \in Nat \ {0}
    /\ Supplies \subseteq 0..MaxSupply /\ OtherMints \subseteq Nat /\ Faults \in BOOLEAN /\ HeldRewards \in BOOLEAN
    /\ LastSubmit \in Nat /\ MaxHeight \in Nat \ {0}

VARIABLES
    height,
    stage,      \* where the block is: txs, or a scan of the begin blocker
    todo,       \* what the scan collected and has not handled
    armed,      \* the source index is seeded
    att,        \* att[id]
    ref,        \* ref[s]: the attestation that holds source s
    pending,    \* pending[id]: deadline of a witness reward held back, 0: none
    adapter,    \* adapter[a]: status
    supply, escrow,  \* bank supply; coins of the module account
    coined,     \* coined[id]: minted for id so far (history)
    minters     \* minters[s]: attestations that minted for s since the arming (history)

vars == <<height, stage, todo, armed, att, ref, pending, adapter, supply, escrow, coined, minters>>
coins == <<supply, escrow, coined, minters>>

Ids == 1..Last
None == 0
Statuses == {"none", "awaiting", "ready", "settled", "partial", "rejected"}
InFlight(a) == a.status \in {"awaiting", "ready"}
WitnessOnly(a) == a.cited + a.claims = 0

NoAttestation == [status |-> "none", source |-> Unsourced, cited |-> 0, claims |-> 0,
                  verified |-> 0, rejected |-> 0, at |-> 0, settledAt |-> 0, reward |-> 0]

-----------------------------------------------------------------------------
(* Submission *)

\* ensureDedupeArmed: a chain without attestations arms itself.
MayArm == armed \/ \A id \in Ids : att[id].status = "none"

SourceFree(s) == ref[s] = None

\* SubmitExternalAttestation by an account that can pay the bond.
Submit(s, cited) ==
    LET id == Cardinality({i \in Ids : att[i].status # "none"}) + 1
    IN  /\ stage = "txs" /\ height <= LastSubmit
        /\ id \in Ids
        /\ MayArm
        /\ adapter[AdapterOf[s]] = "active"
        /\ SourceFree(s)
        /\ supply - escrow >= Bond
        /\ armed' = TRUE
        /\ att' = [att EXCEPT ![id] = [NoAttestation EXCEPT !.status = "ready", !.source = s,
                                                            !.cited = cited, !.at = height]]
        /\ ref' = [ref EXCEPT ![s] = id]
        /\ escrow' = escrow + Bond
        /\ UNCHANGED <<height, stage, todo, pending, adapter, supply, coined, minters>>

\* OnClaimResolved, called by knowledge before the scans of the block.  After
\* the attestation has left awaiting the verdict changes nothing.
OnClaimResolved(id, verdict) ==
    LET a == [att[id] EXCEPT !.verified = IF verdict THEN @ + 1 ELSE @,
                             !.rejected = IF verdict THEN @ ELSE @ + 1]
    IN  /\ stage = "txs"
        /\ att[id].status = "awaiting"
        /\ att' = [att EXCEPT ![id] = [a EXCEPT !.status = IF a.verified + a.rejected >= a.claims
                                                           THEN "ready" ELSE @]]
        /\ UNCHANGED <<height, stage, todo, armed, ref, pending, adapter, coins>>

-----------------------------------------------------------------------------
(* Settlement *)

\* authorizeSourceMint
MayMint(id) == att[id].source # Unsourced => ref[att[id].source] \in {None, id}

\* authorizeSourceMint takes a source that nobody holds.
RefTaken(id) ==
    IF att[id].source # Unsourced /\ ref[att[id].source] = None
    THEN [ref EXCEPT ![att[id].source] = id] ELSE ref

RefReleased(id) ==
    IF att[id].source # Unsourced /\ ref[att[id].source] = id
    THEN [ref EXCEPT ![att[id].source] = None] ELSE ref

Ratio(a) == ((a.verified + a.cited) * 10000) \div (a.cited + a.claims)

\* computeReward with the fixed quality factor of 5000.
Reward(a) ==
    LET L == (Base * Ratio(a)) \div 10000
    IN  Base + ((L * Weight * 5000) \div 10000) \div 10000

Refused(a) ==
    \/ a.verified + a.rejected > 0 /\ (a.rejected * 10000) \div (a.verified + a.rejected) >= Threshold
    \/ Ratio(a) < MinRatio

\* Minting n for id, and the history of it.
Minted(id, n) ==
    /\ supply' = supply + n
    /\ coined' = [coined EXCEPT ![id] = @ + n]
    /\ minters' = IF n > 0 /\ att[id].source # Unsourced
                  THEN [minters EXCEPT ![att[id].source] = @ \cup {id}] ELSE minters

Closed(a, status, reward) == [a EXCEPT !.status = status, !.settledAt = height, !.reward = reward]

\* settleRejected: the bond is burned and the source is free again.
SettleRejected(id) ==
    /\ ~WitnessOnly(att[id]) /\ Refused(att[id])
    /\ att' = [att EXCEPT ![id] = Closed(@, "rejected", 0)]
    /\ ref' = RefReleased(id)
    /\ supply' = supply - Bond
    /\ escrow' = escrow - Bond
    /\ UNCHANGED <<pending, coined, minters>>

\* finalizeSettle with a reward: the bond returns, the reward is minted, and a
\* source that nobody holds is taken.
SettleRewarded(id) ==
    LET a == att[id]
        paid == IF MayMint(id) THEN MintWithCap(supply, Reward(a)) ELSE 0
    IN  /\ ~WitnessOnly(a) /\ ~Refused(a)
        /\ att' = [att EXCEPT ![id] = Closed(a, IF a.rejected > 0 THEN "partial" ELSE "settled", paid)]
        /\ ref' = IF Reward(a) > 0 THEN RefTaken(id) ELSE ref
        /\ Minted(id, paid)
        /\ escrow' = escrow - Bond
        /\ UNCHANGED pending

\* EscrowWitnessReward: the adapter's status does not matter here.
Escrowed(id) == IF MayMint(id) THEN [pending EXCEPT ![id] = height + ChallengeWindow] ELSE pending

\* A witness-only link: the bond returns and the reward is held back.
SettleWitness(id) ==
    /\ WitnessOnly(att[id])
    /\ att' = [att EXCEPT ![id] = Closed(@, "settled", 0)]
    /\ ref' = RefTaken(id)
    /\ pending' = Escrowed(id)
    /\ escrow' = escrow - Bond
    /\ UNCHANGED <<supply, coined, minters>>

\* SettleAttestation, from the timeout scan or the ready drain.
SettleAttestation(id) ==
    /\ stage \in {"timeouts", "drain"} /\ id \in todo
    /\ InFlight(att[id])
    /\ SettleRejected(id) \/ SettleRewarded(id) \/ SettleWitness(id)
    /\ todo' = todo \ {id}
    /\ UNCHANGED <<height, stage, armed, adapter>>

\* The bank refuses, nothing is written, the next block tries again.
SettleFails(id) ==
    /\ Faults
    /\ stage \in {"timeouts", "drain"} /\ id \in todo
    /\ todo' = todo \ {id}
    /\ UNCHANGED <<height, stage, armed, att, ref, pending, adapter, coins>>

-----------------------------------------------------------------------------
(* Witness rewards *)

\* releaseWitnessReward for the holder of the source, paid or without an
\* effect but the taken source because the bank refused.
Release(id) ==
    /\ MayMint(id)
    /\ ref' = RefTaken(id)
    /\ \/ LET paid == MintWithCap(supply, WitnessReward)
          IN  /\ Minted(id, paid)
              /\ att' = [att EXCEPT ![id].reward = paid]
              /\ pending' = [pending EXCEPT ![id] = 0]
              /\ UNCHANGED escrow
       \/ Faults /\ UNCHANGED <<att, pending, coins>>

Cancel(id) ==
    /\ pending' = [pending EXCEPT ![id] = 0]
    /\ UNCHANGED <<att, ref, coins>>

\* A challenge is open: one more window.
Defer(id) ==
    /\ pending' = [pending EXCEPT ![id] = height + ChallengeWindow]
    /\ UNCHANGED <<att, ref, coins>>

AdapterStatus(id) == adapter[AdapterOf[att[id].source]]

\* Slip: the sweep does not look at the adapter.
ResolveBlind(id) ==
    \/ Release(id)
    \/ ~MayMint(id) /\ Cancel(id)

\* What the sweep does with a reward that is due.
Resolve(id) ==
    \/ AdapterStatus(id) = "tombstoned" /\ Cancel(id)
    \/ AdapterStatus(id) = "suspended" /\ Defer(id)
    \/ AdapterStatus(id) = "active" /\ Release(id)
    \/ AdapterStatus(id) = "active" /\ ~MayMint(id) /\ Cancel(id)

\* SweepWitnessRewards, one entry.
SweepOne(id) ==
    /\ stage = "sweep" /\ id \in todo
    /\ Resolve(id)
    /\ todo' = todo \ {id}
    /\ UNCHANGED <<height, stage, armed, adapter>>

-----------------------------------------------------------------------------
(* Blocks *)

\* BeginBlocker does nothing until the index is armed.
NextBlock ==
    /\ stage = "txs" /\ height < MaxHeight
    /\ height' = height + 1
    /\ IF armed
       THEN /\ stage' = "timeouts"
            /\ todo' = {id \in Ids : att[id].status = "awaiting" /\ height + 1 - att[id].at >= MaxPendingWindow}
       ELSE UNCHANGED <<stage, todo>>
    /\ UNCHANGED <<armed, att, ref, pending, adapter, coins>>

DrainReady ==
    /\ stage = "timeouts" /\ todo = {}
    /\ stage' = "drain"
    /\ todo' = {id \in Ids : att[id].status = "ready"}
    /\ UNCHANGED <<height, armed, att, ref, pending, adapter, coins>>

SweepWitnessRewards ==
    /\ stage = "drain" /\ todo = {}
    /\ stage' = "sweep"
    /\ todo' = {id \in Ids : pending[id] # 0 /\ pending[id] <= height}
    /\ UNCHANGED <<height, armed, att, ref, pending, adapter, coins>>

BeginBlockDone ==
    /\ stage = "sweep" /\ todo = {}
    /\ stage' = "txs"
    /\ UNCHANGED <<height, todo, armed, att, ref, pending, adapter, coins>>

-----------------------------------------------------------------------------
(* Governance and other modules *)

\* RegisterAdapter overwrites, but never a tombstone.
RegisterAdapter(a, status) ==
    /\ stage = "txs"
    /\ adapter[a] # "tombstoned"
    /\ adapter' = [adapter EXCEPT ![a] = status]
    /\ UNCHANGED <<height, stage, todo, armed, att, ref, pending, coins>>

SuspendAdapter(a) ==
    /\ stage = "txs"
    /\ adapter[a] # "tombstoned"
    /\ adapter' = [adapter EXCEPT ![a] = "suspended"]
    /\ UNCHANGED <<height, stage, todo, armed, att, ref, pending, coins>>

\* TombstoneAdapter cancels every reward that is held back.
TombstoneAdapter(a) ==
    /\ stage = "txs"
    /\ adapter[a] # "tombstoned"
    /\ adapter' = [adapter EXCEPT ![a] = "tombstoned"]
    /\ pending' = [id \in Ids |-> IF AdapterOf[att[id].source] = a THEN 0 ELSE pending[id]]
    /\ UNCHANGED <<height, stage, todo, armed, att, ref, coins>>

SeedTier(a) ==
    IF a.status \in {"settled", "partial"} THEN 2 ELSE IF InFlight(a) THEN 1 ELSE 0

\* Two passes over the records: minted ones first, then those in flight.
SeedCandidates(s) ==
    LET of(tier) == {id \in Ids : att[id].source = s /\ SeedTier(att[id]) = tier}
    IN  IF of(2) # {} THEN of(2) ELSE of(1)

\* The substrate-dedupe-v1 handler: SeedSourceRefs and the arming.  Keys sort
\* by their text, so any candidate may be the first.
UpgradeSeed ==
    /\ stage = "txs" /\ height <= LastSubmit
    /\ ref' \in [Sources -> Ids \cup {None}]
    /\ \A s \in Sources :
          IF ref[s] = None /\ SeedCandidates(s) # {} THEN ref'[s] \in SeedCandidates(s) ELSE ref'[s] = ref[s]
    /\ armed' = TRUE
    /\ UNCHANGED <<height, stage, todo, att, pending, adapter, coins>>

\* Other callers of MintWithCap, and burns.
MintElsewhere(n) ==
    /\ stage = "txs"
    /\ supply' = supply + MintWithCap(supply, n)
    /\ UNCHANGED <<height, stage, todo, armed, att, ref, pending, adapter, escrow, coined, minters>>

BurnElsewhere(n) ==
    /\ stage = "txs"
    /\ supply - escrow >= n
    /\ supply' = supply - n
    /\ UNCHANGED <<height, stage, todo, armed, att, ref, pending, adapter, escrow, coined, minters>>

-----------------------------------------------------------------------------

\* Records a chain may hold when the new binary starts on it: the old one
\* settled without a source index.  One work item has minted at most once.
LegacyAttestation ==
    {a \in [status : Statuses \ {"none"}, source : Sources \cup {Unsourced}, cited : {0, 1}, claims : 0..MaxClaims,
            verified : 0..MaxClaims, rejected : 0..MaxClaims, at : {1}, settledAt : {0, 1}, reward : {0, Base, WitnessReward}] :
        /\ a.verified + a.rejected <= a.claims
        /\ a.status = "awaiting" => a.verified + a.rejected < a.claims
        /\ a.status = "ready" => a.verified + a.rejected = a.claims
        /\ a.status = "settled" => a.rejected = 0
        /\ a.status = "partial" => a.rejected > 0 /\ a.verified > 0
        /\ a.status = "rejected" => a.claims > 0
        /\ a.status \in {"settled", "partial"} /\ ~WitnessOnly(a) => a.reward = Base
        /\ a.settledAt = (IF InFlight(a) THEN 0 ELSE 1)
        /\ InFlight(a) \/ a.status = "rejected" => a.reward = 0
        /\ WitnessOnly(a) => a.reward \in {0, WitnessReward}}

Init ==
    /\ height = 1 /\ stage = "txs" /\ todo = {}
    /\ \E n \in 0..Legacy : \E history \in [1..n -> LegacyAttestation] :
          att = [id \in Ids |-> IF id <= n THEN history[id] ELSE NoAttestation]
    /\ \A s \in Sources : Cardinality({id \in Ids : att[id].source = s /\ att[id].reward > 0}) <= 1
    /\ armed = FALSE
    /\ ref = [s \in Sources |-> None]
    /\ pending \in [Ids -> IF HeldRewards THEN {0, 1 + ChallengeWindow} ELSE {0}]
    /\ \A id \in Ids : pending[id] # 0 => att[id].status = "settled" /\ WitnessOnly(att[id]) /\ att[id].reward = 0
    /\ adapter = [a \in Adapters |-> "active"]
    /\ escrow = Bond * Cardinality({id \in Ids : InFlight(att[id])})
    /\ supply \in {n \in Supplies : n >= escrow}
    /\ coined = [id \in Ids |-> att[id].reward]
    /\ minters = [s \in Sources |-> {}]

BeginBlock ==
    \/ \E id \in Ids : SettleAttestation(id) \/ SettleFails(id) \/ SweepOne(id)
    \/ DrainReady \/ SweepWitnessRewards \/ BeginBlockDone

Next ==
    \/ \E s \in Sources, cited \in {0, 1} : Submit(s, cited)
    \/ \E id \in Ids, verdict \in BOOLEAN : OnClaimResolved(id, verdict)
    \/ \E a \in Adapters :
          \/ \E status \in {"active", "suspended", "tombstoned"} : RegisterAdapter(a, status)
          \/ SuspendAdapter(a) \/ TombstoneAdapter(a)
    \/ UpgradeSeed
    \/ \E n \in OtherMints : MintElsewhere(n) \/ BurnElsewhere(n)
    \/ NextBlock
    \/ BeginBlock

Spec == Init /\ [][Next]_vars

-----------------------------------------------------------------------------
(* Properties *)

AttestationRecord ==
    [status : Statuses, source : Sources \cup {Unsourced}, cited : Nat, claims : Nat, verified : Nat, rejected : Nat,
     at : Nat, settledAt : Nat, reward : Nat]

TypeOK ==
    /\ height \in 1..MaxHeight
    /\ stage \in {"txs", "timeouts", "drain", "sweep"}
    /\ todo \subseteq Ids
    /\ armed \in BOOLEAN
    /\ att \in [Ids -> AttestationRecord]
    /\ ref \in [Sources -> Ids \cup {None}]
    /\ pending \in [Ids -> Nat]
    /\ adapter \in [Adapters -> {"active", "suspended", "tombstoned"}]
    /\ supply \in Nat /\ escrow \in Int
    /\ coined \in [Ids -> Nat]
    /\ minters \in [Sources -> SUBSET Ids]

\* MintWithCap: whatever several modules mint and burn in one block, the bank
\* supply stays within the cap.
CapHolds == supply <= MaxSupply

\* The module account holds exactly the bonds of the attestations in flight:
\* a bond is returned or burned once, and no reward is paid from another bond.
BondsBacked == escrow = Bond * Cardinality({id \in Ids : InFlight(att[id])})

\* The source wall: since it is armed a source has minted for one attestation,
\* which holds it for ever; rejections, resubmissions and twins from before
\* the upgrade included.
OneMinterPerSource == \A s \in Sources : \A id \in minters[s] : minters[s] = {id} /\ ref[s] = id

\* The reward an attestation records is all that was ever minted for it: no
\* retry of a settlement or of a release mints again.
RewardIsCoined == \A id \in Ids : coined[id] = att[id].reward

\* A witness reward that is still held back has not been minted, and belongs
\* to a settled attestation.
HeldBackUnpaid == \A id \in Ids : pending[id] # 0 => att[id].status = "settled" /\ coined[id] = 0

\* Issuance follows survival: a witness reward is minted only once its window
\* has passed since the attestation settled, with the adapter active.
WitnessSurvived ==
    \A id \in Ids : coined'[id] > coined[id] /\ WitnessOnly(att[id]) =>
       /\ att[id].status = "settled"
       /\ height >= att[id].settledAt + ChallengeWindow
       /\ AdapterStatus(id) = "active"

\* What fairness brings about: whatever is in flight on an armed chain ends,
\* by verdicts, drain or timeout.
FlightEnds == armed => \A id \in Ids : ~InFlight(att[id])

\* "One external work item mints at most once", what it minted before the
\* upgrade included.
WorkMintsOnce ==
    \A s \in Sources : Cardinality({id \in Ids : att[id].source = s /\ coined[id] > 0}) <= 1

\* The bridge's promise: an attestation mints at most once and what it records,
\* within the supply cap shared with the other minters; a source mints for one
\* attestation however it is resubmitted; a witness reward is minted only after
\* its window; and the module account holds exactly the bonds in flight.
BridgeSafe ==
    /\ TypeOK /\ CapHolds /\ BondsBacked /\ RewardIsCoined /\ HeldBackUnpaid /\ OneMinterPerSource
    /\ ~HeldRewards => WorkMintsOnce
BridgeMintsOnce == []BridgeSafe /\ [][WitnessSurvived]_vars

=============================================================================
