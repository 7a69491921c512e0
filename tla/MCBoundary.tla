----------------------------- MODULE MCBoundary -----------------------------
(***************************************************************************)
(* The edges of the chain: the rate limits of IBC transfers, the accounts  *)
(* and their key rotation, the homes of agents, and the relay that attests *)
(* invocations from outside.                                               *)
(*                                                                         *)
(* The initial state picks one component and one choice of its constants;  *)
(* that component then runs alone, and the variables of the others are     *)
(* Off.  All share the block height.                                       *)
(***************************************************************************)
EXTENDS Integers, FiniteSets, TLC

CONSTANTS ch1, d1, d2, a1, a2, k1, k2, read, pay, i1, i2, None   \* model values

VARIABLES
    scenario, height,
    enabled, limit, flows, seq, packets, gross, refunded, received,    \* IBCRateLimit
    accounts, dids, lastRotation, params, signed, rotated,             \* Accounts
    home, keys, sessions, alerts, homeParams,                          \* AgentHome
    mem, disk, stage, todo, seen, txs, clock                           \* AttestRelay

rateVars == <<enabled, limit, flows, seq, packets, gross, refunded, received>>
accountVars == <<accounts, dids, lastRotation, params, signed, rotated>>
homeVars == <<home, keys, sessions, alerts, homeParams>>
relayVars == <<mem, disk, stage, todo, seen, txs, clock>>
vars == <<scenario, height, rateVars, accountVars, homeVars, relayVars>>

-----------------------------------------------------------------------------
(* The components *)

\* Two denoms on one channel; three packets over two windows.
OneLimit == {[maxSend |-> 2, maxRecv |-> 1, window |-> 2]}
TwoDenoms == INSTANCE IBCRateLimit WITH
    Channels <- {ch1}, Denoms <- {d1, d2}, Amounts <- {1, 2}, Limits <- OneLimit, MaxSeq <- 2, MaxHeight <- 3
Windows == INSTANCE IBCRateLimit WITH
    Channels <- {ch1}, Denoms <- {d1}, Amounts <- {1, 2}, Limits <- OneLimit, MaxSeq <- 3, MaxHeight <- 3

\* Two accounts that want the same keys; rotations of one account.
TwoSettings == {[meta |-> 1, cooldown |-> 1], [meta |-> 2, cooldown |-> 2]}
Waits == {[meta |-> 1, cooldown |-> 0], [meta |-> 1, cooldown |-> 2]}
TwoAccounts == INSTANCE Accounts WITH
    Addresses <- {a1, a2}, Keys <- {k1, k2}, Types <- {"agent", "system"}, Lengths <- {1, 2}, Settings <- TwoSettings,
    TTL <- 2, MaxVersion <- 3, MaxSigned <- 1, MaxHeight <- 3
Rotations == INSTANCE Accounts WITH
    Addresses <- {a1}, Keys <- {k1, k2}, Types <- {"agent"}, Lengths <- {1}, Settings <- Waits,
    TTL <- 3, MaxVersion <- 4, MaxSigned <- 3, MaxHeight <- 3

\* Two keys whose hashes begin alike and whose last blocks may pass, under limits
\* that a vote lowers and raises; the dead man's switch, under thresholds and a
\* limit on alerts that a vote changes.
Alike == [k \in {k1, k2} |-> "same"]
BothGrants == {{read}, {read, pay}}
Roomy == [keys |-> 2, sessions |-> 2, alerts |-> 1, timeout |-> 1, min |-> 1, max |-> 2]
Tight == [keys |-> 1, sessions |-> 1, alerts |-> 1, timeout |-> 2, min |-> 1, max |-> 2]
Patient == [keys |-> 1, sessions |-> 1, alerts |-> 2, timeout |-> 1, min |-> 2, max |-> 3]
Sessions == INSTANCE AgentHome WITH
    params <- homeParams, Keys <- {k1, k2}, Prefix <- Alike, Permissions <- {read, pay}, Grants <- BothGrants,
    Expiries <- {0, 1}, InitialThresholds <- {}, ParamSets <- {Roomy, Tight}, Wrap <- 16, MaxHeight <- 3
Switch == INSTANCE AgentHome WITH
    params <- homeParams, Keys <- {k1}, Prefix <- Alike, Permissions <- {read}, Grants <- {{read}},
    Expiries <- {0}, InitialThresholds <- {1, 2}, ParamSets <- {Tight, Patient}, Wrap <- 16, MaxHeight <- 5

\* One invocation against the mempool's retention in blocks, and one and two
\* against its retention in time; and one whose broadcasts a crash or a lost
\* answer may hide from the ledger.
InBlocks == INSTANCE AttestRelay WITH
    Invocations <- {i1}, MaxFailures <- 2, MaxNotFound <- 3, MinWait <- 0, RetentionBlocks <- 2, RetentionTime <- 99,
    Lossy <- FALSE, Ambiguous <- FALSE, MaxTxs <- 3, MaxHeight <- 6, MaxTime <- 1
InTime == INSTANCE AttestRelay WITH
    Invocations <- {i1}, MaxFailures <- 2, MaxNotFound <- 1, MinWait <- 1, RetentionBlocks <- 99, RetentionTime <- 1,
    Lossy <- FALSE, Ambiguous <- FALSE, MaxTxs <- 2, MaxHeight <- 2, MaxTime <- 2
InPairs == INSTANCE AttestRelay WITH
    Invocations <- {i1, i2}, MaxFailures <- 1, MaxNotFound <- 1, MinWait <- 1, RetentionBlocks <- 99, RetentionTime <- 1,
    Lossy <- FALSE, Ambiguous <- FALSE, MaxTxs <- 2, MaxHeight <- 2, MaxTime <- 2
InAnyCase == INSTANCE AttestRelay WITH
    Invocations <- {i1}, MaxFailures <- 2, MaxNotFound <- 1, MinWait <- 1, RetentionBlocks <- 2, RetentionTime <- 1,
    Lossy <- TRUE, Ambiguous <- TRUE, MaxTxs <- 2, MaxHeight <- 3, MaxTime <- 1

ASSUME TwoDenoms!AmountsAssumption /\ TwoDenoms!LimitsAssumption /\ Windows!AmountsAssumption /\ Windows!LimitsAssumption
ASSUME TwoAccounts!AccountsAssumption /\ Rotations!AccountsAssumption
ASSUME Sessions!AgentHomeAssumption /\ Switch!AgentHomeAssumption
ASSUME InBlocks!RelayAssumption /\ InTime!RelayAssumption /\ InPairs!RelayAssumption /\ InAnyCase!RelayAssumption
ASSUME InBlocks!PatienceAssumption /\ InTime!PatienceAssumption /\ InPairs!PatienceAssumption /\ InAnyCase!PatienceAssumption

-----------------------------------------------------------------------------
(* One component at a time *)

Off == "off"
RateOff == /\ enabled = Off /\ limit = Off /\ flows = Off /\ seq = Off
           /\ packets = Off /\ gross = Off /\ refunded = Off /\ received = Off
AccountsOff == accounts = Off /\ dids = Off /\ lastRotation = Off /\ params = Off /\ signed = Off /\ rotated = Off
HomeOff == home = Off /\ keys = Off /\ sessions = Off /\ alerts = Off /\ homeParams = Off
RelayOff == mem = Off /\ disk = Off /\ stage = Off /\ todo = Off /\ seen = Off /\ txs = Off /\ clock = Off

At(s) == scenario = s

Init ==
    \/ At("denoms") /\ TwoDenoms!Init /\ AccountsOff /\ HomeOff /\ RelayOff
    \/ At("windows") /\ Windows!Init /\ AccountsOff /\ HomeOff /\ RelayOff
    \/ At("accounts") /\ TwoAccounts!Init /\ RateOff /\ HomeOff /\ RelayOff
    \/ At("rotations") /\ Rotations!Init /\ RateOff /\ HomeOff /\ RelayOff
    \/ At("sessions") /\ Sessions!Init /\ RateOff /\ AccountsOff /\ RelayOff
    \/ At("switch") /\ Switch!Init /\ RateOff /\ AccountsOff /\ RelayOff
    \/ At("blocks") /\ InBlocks!Init /\ RateOff /\ AccountsOff /\ HomeOff
    \/ At("time") /\ InTime!Init /\ RateOff /\ AccountsOff /\ HomeOff
    \/ At("pairs") /\ InPairs!Init /\ RateOff /\ AccountsOff /\ HomeOff
    \/ At("anycase") /\ InAnyCase!Init /\ RateOff /\ AccountsOff /\ HomeOff

Next ==
    \/ At("denoms") /\ TwoDenoms!Next /\ UNCHANGED <<scenario, accountVars, homeVars, relayVars>>
    \/ At("windows") /\ Windows!Next /\ UNCHANGED <<scenario, accountVars, homeVars, relayVars>>
    \/ At("accounts") /\ TwoAccounts!Next /\ UNCHANGED <<scenario, rateVars, homeVars, relayVars>>
    \/ At("rotations") /\ Rotations!Next /\ UNCHANGED <<scenario, rateVars, homeVars, relayVars>>
    \/ At("sessions") /\ Sessions!Next /\ UNCHANGED <<scenario, rateVars, accountVars, relayVars>>
    \/ At("switch") /\ Switch!Next /\ UNCHANGED <<scenario, rateVars, accountVars, relayVars>>
    \/ At("blocks") /\ InBlocks!Next /\ UNCHANGED <<scenario, rateVars, accountVars, homeVars>>
    \/ At("time") /\ InTime!Next /\ UNCHANGED <<scenario, rateVars, accountVars, homeVars>>
    \/ At("pairs") /\ InPairs!Next /\ UNCHANGED <<scenario, rateVars, accountVars, homeVars>>
    \/ At("anycase") /\ InAnyCase!Next /\ UNCHANGED <<scenario, rateVars, accountVars, homeVars>>

Spec == Init /\ [][Next]_vars

\* The two denoms are interchangeable.
Symmetry == Permutations({d1, d2})

-----------------------------------------------------------------------------
(* Properties *)

\* IBC rate limits: what leaves through a limit in a window, less what came
\* back in it, and what enters stay within the caps, refunds of old windows and
\* changes of the limit included; each record belongs to one packet under way,
\* and nobody is charged for a packet that came back.
FlowsStayCapped ==
    /\ At("denoms") => TwoDenoms!FlowsStayCapped
    /\ At("windows") => Windows!FlowsStayCapped

\* Accounts: an authorization rotates one key once, however often and late it
\* is delivered, rotations keep the cool-down, a frozen account does not
\* change, and every state passes the checks of its own genesis.
KeysRotateOnce ==
    /\ [](At("accounts") => TwoAccounts!AccountsSafe)
    /\ [](At("rotations") => Rotations!AccountsSafe)
    /\ [][/\ At("accounts") => TwoAccounts!FrozenIsInert
          /\ At("rotations") => Rotations!FrozenIsInert]_vars

\* Homes: no session is one of a revoked key, was started after its key expired
\* or exceeds its key's permissions; in a home that is not archived none outlives
\* its own expiry, nor its key's by more than a timeout; what is stored grows only
\* within the limits in force, whatever a vote makes of them. The dead man's
\* switch fires for a home everyone left alone for longer than its threshold and
\* for no other, and an archived home stays archived.
HomesStayGuarded ==
    /\ [](At("sessions") => Sessions!TypeOK /\ Sessions!SessionsUnderTheirKey /\ Sessions!SessionsEnd)
    /\ [](At("switch") => Switch!DeadmanFires)
    /\ [][/\ At("sessions") => Sessions!GrowsWithinLimits
          /\ At("switch") => Switch!GrowsWithinLimits /\ Switch!DeadmanNotEarly /\ Switch!ArchivedIsTerminal]_vars

\* Relay: what the ledger calls attested was attested, through every crash and
\* lost answer; and as long as no broadcast is hidden from the ledger, of the
\* transactions sent for an invocation at most one has executed or still may,
\* through restarts, failed writes, late executions and resubmissions, which
\* are bounded.
InvocationBondsOnce ==
    /\ At("blocks") => InBlocks!InvocationBondsOnce
    /\ At("time") => InTime!InvocationBondsOnce
    /\ At("pairs") => InPairs!InvocationBondsOnce
    /\ At("anycase") => InAnyCase!InvocationBondsOnce

=============================================================================
