--------------------------- MODULE FactInjection ---------------------------
(***************************************************************************)
(* Facts that governance injects past the review panel (MsgAddFact), the   *)
(* queue that holds them while guardians may veto, and the BeginBlocker    *)
(* hook that turns matured entries into facts.                             *)
(*                                                                         *)
(* A fact's identifier is the hash of its content and of the height, so    *)
(* proposals of one content collide exactly within a block.  Parameters    *)
(* may change between two transactions of the same block.                  *)
(***************************************************************************)
EXTENDS Integers, FiniteSets

CONSTANTS
    Contents,    \* contents of injected facts
    Guardians,   \* accounts that may be listed as guardians
    Windows,     \* values of AddFactVetoWindowBlocks, 0: no window
    LastProposal, \* height of the last proposal
    MaxHeight

WindowsAssumption == Windows \subseteq Nat /\ IsFiniteSet(Windows)
None == "none"
GuardiansAssumption == None \notin Guardians
HeightsAssumption ==
    /\ LastProposal \in Nat \ {0} /\ MaxHeight \in Nat
    /\ \A w \in Windows : LastProposal + w <= MaxHeight

VARIABLES
    height,
    stage,      \* "begin" or "txs"
    window,     \* Params.AddFactVetoWindowBlocks
    guardians,  \* Params.GuardianAddresses
    queue,      \* queue[id]: ExecuteAtBlock of the pending injection, 0: none
    index,      \* PendingFactInjectionByExecute: pairs <<execute_at, id>>
    status,     \* status[id]: the fact's status
    announced,  \* history: execute heights announced for id
    vetoed      \* history: the guardian who vetoed id, unless it was made again

vars == <<height, stage, window, guardians, queue, index, status, announced, vetoed>>
params == <<window, guardians>>

\* GenerateFactID
Ids == Contents \X (1..LastProposal)

Queued(id) == queue[id] # 0

\* AddFactVetoEnabled
VetoEnabled == window > 0 /\ guardians # {}

-----------------------------------------------------------------------------
(* Transactions *)

UpdateParams(w, gs) ==
    /\ stage = "txs"
    /\ window' = w /\ guardians' = gs
    /\ UNCHANGED <<height, stage, queue, index, status, announced, vetoed>>

\* The queued path: SetPendingFactInjection writes the record over one of the
\* same block and adds an index entry beside the older one.
ProposeFact(x) ==
    LET id == <<x, height>>
    IN  /\ stage = "txs" /\ height <= LastProposal
        /\ VetoEnabled
        /\ queue' = [queue EXCEPT ![id] = height + window]
        /\ index' = index \cup {<<height + window, id>>}
        /\ announced' = [announced EXCEPT ![id] = @ \cup {height + window}]
        /\ vetoed' = [vetoed EXCEPT ![id] = None]
        /\ UNCHANGED <<height, stage, params, status>>

\* The immediate path writes a VERIFIED fact.
AddFactNow(x) ==
    LET id == <<x, height>>
    IN  /\ stage = "txs" /\ height <= LastProposal
        /\ ~VetoEnabled
        /\ status' = [status EXCEPT ![id] = "VERIFIED"]
        /\ vetoed' = [vetoed EXCEPT ![id] = None]
        /\ UNCHANGED <<height, stage, params, queue, index, announced>>

\* IsGuardian
MayVeto(g) == g \in guardians

\* Slip: the veto is logged and the entry stays.
NotDequeued(id) == UNCHANGED <<queue, index>>

\* DeletePendingFactInjection
Dequeued(id) == queue' = [queue EXCEPT ![id] = 0] /\ index' = index \ {<<queue[id], id>>}

VetoFactInjection(g, id) ==
    /\ stage = "txs"
    /\ MayVeto(g)
    /\ Queued(id) /\ height < queue[id]
    /\ Dequeued(id)
    /\ vetoed' = [vetoed EXCEPT ![id] = g]
    /\ UNCHANGED <<height, stage, params, status, announced>>

\* An injected fact is challenged and refuted like any other (FactContest).
Refute(id) ==
    /\ stage = "txs"
    /\ status[id] = "VERIFIED"
    /\ status' = [status EXCEPT ![id] = "DISPROVEN"]
    /\ UNCHANGED <<height, stage, params, queue, index, announced, vetoed>>

-----------------------------------------------------------------------------
(* BeginBlocker *)

\* IteratePendingFactInjectionsDue: the index entry is due; the record's own
\* height is not looked at.
Due == {id \in Ids : Queued(id) /\ \E e \in 1..height : <<e, id>> \in index}

MaterializeMaturedFactInjections ==
    /\ stage = "begin"
    /\ stage' = "txs"
    /\ status' = [id \in Ids |-> IF id \in Due THEN "VERIFIED" ELSE status[id]]
    /\ queue' = [id \in Ids |-> IF id \in Due THEN 0 ELSE queue[id]]
    /\ index' = index \ {<<queue[id], id>> : id \in Due}
    /\ UNCHANGED <<height, params, announced, vetoed>>

NextBlock ==
    /\ stage = "txs" /\ height < MaxHeight
    /\ stage' = "begin" /\ height' = height + 1
    /\ UNCHANGED <<params, queue, index, status, announced, vetoed>>

-----------------------------------------------------------------------------

Init ==
    /\ height = 1 /\ stage = "txs"
    /\ window \in Windows /\ guardians \in SUBSET Guardians
    /\ queue = [id \in Ids |-> 0] /\ index = {}
    /\ status = [id \in Ids |-> "NONE"]
    /\ announced = [id \in Ids |-> {}] /\ vetoed = [id \in Ids |-> None]

Next ==
    \/ \E w \in Windows, gs \in SUBSET Guardians : UpdateParams(w, gs)
    \/ \E x \in Contents : ProposeFact(x) \/ AddFactNow(x)
    \/ \E g \in Guardians, id \in Ids : VetoFactInjection(g, id)
    \/ \E id \in Ids : Refute(id)
    \/ MaterializeMaturedFactInjections
    \/ NextBlock

Spec == Init /\ [][Next]_vars

-----------------------------------------------------------------------------
(* Properties *)

TypeOK ==
    /\ height \in 1..MaxHeight /\ stage \in {"begin", "txs"}
    /\ window \in Windows /\ guardians \subseteq Guardians
    /\ queue \in [Ids -> 0..MaxHeight]
    /\ index \subseteq (1..MaxHeight) \X Ids
    /\ status \in [Ids -> {"NONE", "VERIFIED", "DISPROVEN"}]
    /\ announced \in [Ids -> SUBSET (1..MaxHeight)] /\ vetoed \in [Ids -> Guardians \cup {None}]

\* A vetoed proposal that is not made again never becomes a fact, although an
\* index entry of an earlier proposal of the same block may stay behind.
VetoHolds ==
    \A id \in Ids : vetoed[id] # None /\ vetoed'[id] # None /\ status[id] # "VERIFIED" =>
       status'[id] # "VERIFIED"

\* While transactions run, whatever is queued can still be vetoed by every
\* guardian then listed: no entry outlives its window in the queue, and each
\* one has an index entry that will find it.
Reviewable ==
    stage = "txs" =>
        \A id \in Ids : Queued(id) => queue[id] > height /\ <<queue[id], id>> \in index

\* An entry leaves the queue only as a fact or by a veto of an account listed
\* as guardian at that time: changing or disabling the window frees nothing.
LeavesByVetoOrFact ==
    \A id \in Ids : Queued(id) /\ queue'[id] = 0 =>
       status'[id] = "VERIFIED" \/ vetoed'[id] \in guardians

\* A fact never comes out of the queue before the first of the heights that
\* were announced for it, whatever the parameters have become meanwhile.
NotBeforeAnnounced ==
    \A id \in Ids : Queued(id) /\ queue'[id] = 0 /\ vetoed'[id] = None =>
       \E e \in announced[id] : height >= e

\* What fairness brings about: every proposal is vetoed or becomes a fact.
ProposalsEnd == \A id \in Ids : ~Queued(id)

\* EVENTS.md: "Guardians have until `execute_at_block` to call
\* MsgVetoFactInjection", for the height that the record shows.
WindowKept ==
    \A id \in Ids : Queued(id) /\ queue'[id] = 0 /\ vetoed'[id] = None => height >= queue[id]

\* BeginBlocker's comment: "Until materialization the fact does not exist in
\* state".
QueuedIsNoFact == \A id \in Ids : Queued(id) => status[id] = "NONE"

=============================================================================
