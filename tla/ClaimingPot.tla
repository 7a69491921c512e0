---------------------------- MODULE ClaimingPot ----------------------------
(***************************************************************************)
(* x/claiming_pot: vesting pots that mint on demand. A seed pot belongs to *)
(* one admitted agent and is named by it; a general pot is numbered and    *)
(* shared by its whitelist. Both are charged, in fixed-size units, against *)
(* one lifetime budget; the registrar, unlike governance, is also limited  *)
(* per window of blocks. Pots of version 1 were not all charged, which the *)
(* migration repairs before any message runs.                              *)
(***************************************************************************)
EXTENDS SupplyCap, FiniteSetsExt, Totals

CONSTANTS Agents,        \* addresses; each names its seed pot
          PerUnit,       \* PerAgentBootstrapUzrn
          WindowBlocks,  \* BootstrapAdmissionWindowBlocks
          MaxPots,       \* bound: general pots
          MaxHeight,     \* bound: blocks
          Shapes,        \* inputs: total, start, end, cliff and whitelist of a general pot
          ParamChoices,  \* inputs: the parameter sets governance may install
          OtherMint      \* inputs: what another module asks to mint

UnitAssumption == PerUnit \in Nat \ {0} /\ WindowBlocks \in Nat \ {0}
\* What the stateless checks of the messages let through.
InputAssumption ==
    /\ IsFiniteSet(Agents) /\ MaxPots \in Nat /\ Agents \cap (1..MaxPots) = {} /\ MaxHeight \in Nat /\ OtherMint \in Nat
    /\ Shapes \subseteq [status : {"NONE"}, total : Nat \ {0}, claimed : {0}, start : Nat, end : Nat,
                           cliff : Nat, whitelist : SUBSET Agents]
    /\ ParamChoices \subseteq [emissionCap : Nat, dailyCap : Nat, registrar : BOOLEAN, minClaim : Nat, maxPotsActive : Nat]

VARIABLES pot,        \* pot records
          claims,     \* amount each agent has claimed of each pot; 0 is no claim
          committed,  \* lifetime commitment units
          counter,    \* number of the last general pot
          window,     \* the stored registrar window: index and count
          params,     \* the parameters in force
          version,    \* consensus version of the store
          supply,     \* bank supply
          height,
          registered  \* history: agents the registrar admitted
vars == <<pot, claims, committed, counter, window, params, version, supply, height, registered>>

Generals == 1..MaxPots
Pots == Agents \cup Generals
NoPot == [status |-> "NONE", total |-> 0, claimed |-> 0, start |-> 0, end |-> 0, cliff |-> 0, whitelist |-> {}]

Stored == {p \in Pots : pot[p].status # "NONE"}
Active == {p \in Pots : pot[p].status = "ACTIVE"}
Paid(p) == Total(claims[p])

-----------------------------------------------------------------------------
(* Slip: a terminal pot expires again.                                    *)
ExpiringStored == {p \in Stored \cap Generals : height + 1 >= pot[p].end}

-----------------------------------------------------------------------------
(* ceil(total / PerUnit). *)
PotCommitmentUnits(total) == (total + PerUnit - 1) \div PerUnit

(* The check of the lifetime budget, the same for every way to make a pot. *)
ProjectedFits(units) == (committed + units) * PerUnit <= params.emissionCap

(* The registrar's count of a window; a record of another window reads 0. *)
WindowCount(w) == IF window.index # w THEN 0 ELSE window.count

(* The vested amount of a pot that has not been claimed. *)
CalculateClaimable(p) ==
    LET q == pot[p]
        vested == IF height >= q.end THEN q.total ELSE (q.total * (height - q.start)) \div (q.end - q.start)
    IN IF height < q.start + q.cliff \/ vested < q.claimed THEN 0 ELSE vested - q.claimed

(* The addresses of a batch that have no seed pot yet. *)
Admitted(batch) == {a \in batch : pot[a].status = "NONE"}

MakeBootstrapPotForAgent(a) ==
    [status |-> "ACTIVE", total |-> PerUnit, claimed |-> 0, start |-> height, end |-> height + 1,
     cliff |-> 0, whitelist |-> {a}]

-----------------------------------------------------------------------------
(* A version 2 store with nothing in it, or a version 1 store with general *)
(* pots that were never charged and a pot counter that may lag behind.     *)
Init ==
    /\ \/ version = 2 /\ pot = [p \in Pots |-> NoPot] /\ counter = 0
       \/ /\ version = 1
          /\ counter \in {0, 1}
          /\ \E n \in Generals, s \in {x \in Shapes : x.end > x.start} :
                pot = [p \in Pots |-> IF p = n THEN [s EXCEPT !.status = "ACTIVE"] ELSE NoPot]
    /\ claims = [p \in Pots |-> [a \in Agents |-> 0]]
    /\ committed = 0 /\ window = [index |-> 0, count |-> 0]
    /\ params \in ParamChoices /\ supply = 0
    /\ height = 1 /\ registered = {}

(* MsgCreatePot; a whitelist that is empty admits everyone. *)
CreatePot(s) ==
    /\ version = 2
    /\ counter < MaxPots
    /\ s.end > s.start
    /\ Cardinality(Active) < params.maxPotsActive
    /\ ProjectedFits(PotCommitmentUnits(s.total))
    /\ committed' = committed + PotCommitmentUnits(s.total)
    /\ counter' = counter + 1
    /\ pot' = [pot EXCEPT ![counter + 1] = [s EXCEPT !.status = "ACTIVE"]]
    /\ UNCHANGED <<claims, window, params, version, supply, height, registered>>

(* MsgAddBootstrapEntry of a batch, by governance or by the registrar, whom *)
(* the window limits as well. A batch over a budget fails as a whole.       *)
AddBootstrapEntry(batch, isRegistrar) ==
    LET new == Admitted(batch)
        n == Cardinality(new)
        w == height \div WindowBlocks
    IN /\ version = 2
       /\ isRegistrar => params.registrar
       /\ new # {}
       /\ ProjectedFits(n)
       /\ isRegistrar => WindowCount(w) + n <= params.dailyCap
       /\ window' = IF isRegistrar THEN [index |-> w, count |-> WindowCount(w) + n] ELSE window
       /\ committed' = committed + n
       /\ pot' = [p \in Pots |-> IF p \in new THEN MakeBootstrapPotForAgent(p) ELSE pot[p]]
       /\ registered' = IF isRegistrar THEN registered \cup new ELSE registered
       /\ UNCHANGED <<claims, counter, params, version, supply, height>>

(* The pot once an amount has been claimed of it. *)
AfterClaim(q, amount) ==
    [q EXCEPT !.claimed = q.claimed + amount,
              !.status = IF q.claimed + amount >= q.total THEN "DEPLETED" ELSE q.status]

(* MsgClaim: once per agent and pot, clipped by the supply cap. *)
Claim(p, a) ==
    LET due == CalculateClaimable(p)
        amount == MintWithCap(supply, due)
    IN /\ version = 2
       /\ pot[p].status = "ACTIVE"
       /\ pot[p].whitelist # {} => a \in pot[p].whitelist
       /\ claims[p][a] = 0
       /\ due > 0 /\ due >= params.minClaim
       /\ amount > 0
       /\ supply' = supply + amount
       /\ claims' = [claims EXCEPT ![p][a] = amount]
       /\ pot' = [pot EXCEPT ![p] = AfterClaim(@, amount)]
       /\ UNCHANGED <<committed, counter, window, params, version, height, registered>>

(* MsgUpdatePotParams: neither cap may fall below what is already used. *)
UpdatePotParams(new) ==
    /\ version = 2
    /\ committed * PerUnit <= new.emissionCap
    /\ WindowCount(height \div WindowBlocks) <= new.dailyCap
    /\ params' = new
    /\ UNCHANGED <<pot, claims, committed, counter, window, version, supply, height, registered>>

(* Seed pots never expire; a general pot does at its end block. *)
Expiring == {p \in Active \cap Generals : height + 1 >= pot[p].end}

(* BeginBlock of the next block: ProcessPotExpiry. *)
NextBlock ==
    /\ version = 2
    /\ height < MaxHeight
    /\ height' = height + 1
    /\ pot' = [p \in Pots |-> IF p \in Expiring THEN [pot[p] EXCEPT !.status = "EXPIRED"] ELSE pot[p]]
    /\ UNCHANGED <<claims, committed, counter, window, params, version, supply, registered>>

DerivedUnits == Total([p \in Stored |-> PotCommitmentUnits(pot[p].total)])
MaxPotSequence == Max({0} \cup (Stored \cap Generals))
MigratedCounter == Max({counter, MaxPotSequence})

(* Migrate1to2; when the old pots do not fit the budget the upgrade fails. *)
Migrate ==
    /\ version = 1
    /\ Max({committed, DerivedUnits}) * PerUnit <= params.emissionCap
    /\ committed' = Max({committed, DerivedUnits})
    /\ counter' = MigratedCounter
    /\ version' = 2
    /\ UNCHANGED <<pot, claims, window, params, supply, height, registered>>

(* The other minters of the chain. *)
MintElsewhere ==
    /\ MintWithCap(supply, OtherMint) > 0
    /\ supply' = supply + MintWithCap(supply, OtherMint)
    /\ UNCHANGED <<pot, claims, committed, counter, window, params, version, height, registered>>

Next == \/ \E s \in Shapes : CreatePot(s)
        \/ \E batch \in SUBSET Agents \ {{}}, isRegistrar \in BOOLEAN : AddBootstrapEntry(batch, isRegistrar)
        \/ \E p \in Pots, a \in Agents : Claim(p, a)
        \/ \E new \in ParamChoices : UpdatePotParams(new)
        \/ NextBlock \/ Migrate \/ MintElsewhere

Spec == Init /\ [][Next]_vars

-----------------------------------------------------------------------------
TypeOK ==
    /\ pot \in [Pots -> [status : {"NONE", "ACTIVE", "DEPLETED", "EXPIRED"}, total : Nat, claimed : Nat,
                         start : Nat, end : Nat, cliff : Nat, whitelist : SUBSET Agents]]
    /\ claims \in [Pots -> [Agents -> Nat]]
    /\ committed \in Nat /\ counter \in Nat /\ supply \in Nat /\ height \in Nat
    /\ window \in [index : Nat, count : Nat] /\ version \in {1, 2}
    /\ params \in ParamChoices /\ registered \in SUBSET Agents

(* What GenesisState.Validate asks of an exported state. *)
GenesisValid ==
    /\ \A p \in Stored : /\ pot[p].end > pot[p].start
                         /\ pot[p].claimed <= pot[p].total
                         /\ Paid(p) = pot[p].claimed
    /\ \A p \in Pots, a \in Agents : claims[p][a] # 0 => p \in Stored
    /\ DerivedUnits <= committed
    /\ committed * PerUnit <= params.emissionCap
    /\ MaxPotSequence <= counter

(* Every state the chain can be in after the migration exports a genesis   *)
(* that InitGenesis accepts: each pot's claimed amount is the sum of its   *)
(* claims, every stored pot is charged and the pot counter is ahead.       *)
ExportValidates == version = 2 => GenesisValid

(* All claims of all pots together stay within the emission cap in force,  *)
(* however pots, claims and changes of the parameters interleave.          *)
LifetimeBudget == version = 2 => Total([p \in Pots |-> Paid(p)]) <= params.emissionCap

(* The seeds the registrar admitted in the current window are never more   *)
(* than its cap, though only one window is stored and the cap may change.  *)
RegistrarRate ==
    Cardinality({a \in registered : pot[a].start \div WindowBlocks = height \div WindowBlocks}) <= params.dailyCap

(* A seed nobody has claimed stays claimable in full, however late its     *)
(* agent shows up (comment of ProcessPotExpiry).                           *)
SeedWaits ==
    \A a \in Agents : pot[a].status # "NONE" /\ claims[a][a] = 0 =>
        pot[a].status = "ACTIVE" /\ (height >= pot[a].end => CalculateClaimable(a) = PerUnit)

(* A terminal pot stays as it is: neither admission nor an upgrade, a      *)
(* change of parameters or a reused number brings it back.                 *)
TerminalKept ==
    \A p \in Pots : pot[p].status \in {"DEPLETED", "EXPIRED"} => pot'[p] = pot[p]

(* "The agent claims via MsgClaim; the pot mints PerAgentBootstrapUzrn to  *)
(* the agent and transitions to DEPLETED" (MakeBootstrapPotForAgent).      *)
SeedDepletes == \A a \in Agents : claims[a][a] > 0 => pot[a].status = "DEPLETED"

(* An airdrop pot holds an equal share for every whitelisted address, and  *)
(* each address claims its own (the airdrop recipe of the economics doc).  *)
AirdropShare ==
    \A p \in Stored \cap Generals, a \in Agents :
        pot[p].whitelist # {} => claims[p][a] * Cardinality(pot[p].whitelist) <= pot[p].total

=============================================================================
