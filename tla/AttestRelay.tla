---------------------------- MODULE AttestRelay ----------------------------
(***************************************************************************)
(* tools/agenttool-relay in watch mode: a daemon that submits one bonded   *)
(* attestation for every released invocation, keeps a ledger on disk, and  *)
(* resolves by hash the broadcasts whose inclusion it did not observe.     *)
(* The node with its mempool and the disk are the environment: a           *)
(* transaction in the mempool is executed, fails or is dropped, and stays  *)
(* no longer than the retention given as a constant; probes, the height    *)
(* query, broadcasts and writes may fail; the daemon may crash.  Which     *)
(* invocations a pass lists and finds attestable is left open.             *)
(***************************************************************************)
EXTENDS Integers, Sequences, FiniteSets

CONSTANTS Invocations,
          MaxFailures,                     \* maxAttestFailures
          MaxNotFound,                     \* maxReconcileNotFound
          MinWait,                         \* minReleaseWait
          RetentionBlocks, RetentionTime,  \* how long the mempool keeps a transaction
          Lossy,                           \* may a crash hit while a broadcast is not on disk
          Ambiguous,                       \* may a broadcast be answered with an error and yet arrive
          MaxTxs, MaxHeight, MaxTime       \* bounds

RelayAssumption ==
    /\ MaxFailures \in Nat \ {0} /\ MaxNotFound \in Nat \ {0} /\ MinWait \in Nat
    /\ RetentionBlocks \in Nat \ {0} /\ RetentionTime \in Nat \ {0}
    /\ Lossy \in BOOLEAN /\ Ambiguous \in BOOLEAN
    /\ MaxTxs \in Nat /\ MaxHeight \in Nat \ {0} /\ MaxTime \in Nat

\* The limits of decideReconcile outlast the mempool: when a transaction is given
\* up, its time there is over, in blocks or on the clock.
PatienceAssumption == RetentionBlocks < MaxNotFound \/ RetentionTime <= MinWait

VARIABLES mem,     \* the ledger in memory
          disk,    \* the ledger as last written
          stage,   \* where the pass is
          todo,    \* invocations the stage has yet to visit
          seen,    \* height read at the start of the pass, 0: unknown
          txs,     \* transactions broadcast: [inv, state, at, since]
          height,
          clock
vars == <<mem, disk, stage, todo, seen, txs, height, clock>>

NoRecord == [hash |-> 0, status |-> "none", at |-> 0, missed |-> 0, missHeight |-> 0, failures |-> 0]

-----------------------------------------------------------------------------
(* Pure decisions.                                                         *)
shouldSkipSubmit(rec) == rec.hash # 0 \/ rec.failures >= MaxFailures

DecideInHaste(probe, rec, h) == \* a slip: no minimum wait
    CASE probe = "ok" -> "attested"
      [] probe = "failed" -> "failure"
      [] probe = "missing" -> IF h = 0 \/ h <= rec.missHeight THEN "nothing"
                              ELSE IF rec.missed + 1 >= MaxNotFound THEN "release" ELSE "wait"
      [] probe = "error" -> "nothing"

\* A miss counts only if the chain has advanced since the last one counted.
decideReconcile(probe, rec, h) ==
    CASE probe = "ok" -> "attested"
      [] probe = "failed" -> "failure"
      [] probe = "missing" -> IF h = 0 \/ h <= rec.missHeight THEN "nothing"
                              ELSE IF rec.missed + 1 >= MaxNotFound /\ clock - rec.at >= MinWait THEN "release" ELSE "wait"
      [] probe = "error" -> "nothing"

applyReconcile(rec, probe, h) ==
    LET action == decideReconcile(probe, rec, h)
    IN  CASE action = "attested" -> [rec EXCEPT !.status = "attested", !.missed = 0, !.missHeight = 0]
          [] action \in {"failure", "release"} -> [NoRecord EXCEPT !.failures = rec.failures + 1]
          [] action = "wait" -> [rec EXCEPT !.missed = @ + 1, !.missHeight = h]
          [] action = "nothing" -> rec

\* What queryTx may report of a transaction.
Probes(n) == {"error", IF txs[n].state \in {"ok", "failed"} THEN txs[n].state ELSE "missing"}

-----------------------------------------------------------------------------
(* A pass of the watch loop.                                               *)
\* saveState replaces the file or leaves the old one.
Saved(ledger) == disk' \in {ledger, disk}

Unresolved == {i \in Invocations : mem[i].status = "unknown"}

StartPass ==
    /\ stage = "idle"
    /\ stage' = "reconcile" /\ todo' = Unresolved
    /\ seen' \in {0, height} \* chainHeight
    /\ UNCHANGED <<mem, disk, txs, height, clock>>

ReconcilePending(i) ==
    /\ stage = "reconcile" /\ i \in todo
    /\ todo' = todo \ {i}
    /\ \E probe \in Probes(mem[i].hash) :
          mem' = [mem EXCEPT ![i] = applyReconcile(mem[i], probe, seen)]
    /\ Saved(mem')
    /\ UNCHANGED <<stage, seen, txs, height, clock>>

ReconcileDone ==
    /\ stage = "reconcile" /\ todo = {}
    /\ stage' = "submit" /\ todo' = Invocations
    /\ UNCHANGED <<mem, disk, seen, txs, height, clock>>

Arrived(i) == Append(txs, [inv |-> i, state |-> "pool", at |-> height, since |-> clock])

BroadcastFails(i) ==
    /\ stage = "submit" /\ i \in todo /\ ~shouldSkipSubmit(mem[i])
    /\ todo' = todo \ {i}
    /\ mem' = [mem EXCEPT ![i].failures = @ + 1]
    /\ Saved(mem')
    /\ txs' \in {txs} \cup (IF Ambiguous /\ Len(txs) < MaxTxs THEN {Arrived(i)} ELSE {})
    /\ UNCHANGED <<stage, seen, height, clock>>

Broadcast(i) ==
    /\ stage = "submit" /\ i \in todo /\ ~shouldSkipSubmit(mem[i])
    /\ Len(txs) < MaxTxs
    /\ txs' = Arrived(i)
    /\ mem' = [mem EXCEPT ![i] = [NoRecord EXCEPT !.hash = Len(txs'), !.status = "unknown", !.at = clock,
                                                  !.failures = mem[i].failures]]
    /\ stage' = "unsaved" /\ todo' = todo \ {i}
    /\ UNCHANGED <<disk, seen, height, clock>>

Persist ==
    /\ stage = "unsaved"
    /\ disk' = mem /\ stage' = "waiting"
    /\ UNCHANGED <<mem, todo, seen, txs, height, clock>>

PersistFails == \* the pass is given up
    /\ stage = "unsaved"
    /\ stage' = "idle"
    /\ UNCHANGED <<mem, disk, todo, seen, txs, height, clock>>

WaitForInclusion == \* found, and the transaction is the last one broadcast
    /\ stage = "waiting" /\ txs[Len(txs)].state \in {"ok", "failed"}
    /\ LET i == txs[Len(txs)].inv
       IN  mem' = [mem EXCEPT ![i] = applyReconcile(mem[i], txs[Len(txs)].state, 0)]
    /\ Saved(mem')
    /\ stage' = "submit"
    /\ UNCHANGED <<todo, seen, txs, height, clock>>

WaitTimesOut ==
    /\ stage = "waiting"
    /\ stage' = "submit"
    /\ UNCHANGED <<mem, disk, todo, seen, txs, height, clock>>

EndPass ==
    /\ stage = "submit"
    /\ stage' = "idle" /\ todo' = {}
    /\ UNCHANGED <<mem, disk, seen, txs, height, clock>>

Sent(i) == {n \in DOMAIN txs : txs[n].inv = i}

\* The disk accounts for every transaction sent.
OnDisk == \A i \in Invocations :
    /\ mem[i].hash # 0 => disk[i].hash = mem[i].hash
    /\ Cardinality(Sent(i)) <= disk[i].failures + (IF disk[i].hash = 0 THEN 0 ELSE 1)

Restart == \* loadState after a crash
    /\ Lossy \/ OnDisk
    /\ mem' = disk
    /\ stage' = "idle" /\ todo' = {}
    /\ UNCHANGED <<disk, seen, txs, height, clock>>

-----------------------------------------------------------------------------
(* The environment.                                                        *)
Pool == {n \in DOMAIN txs : txs[n].state = "pool"}

Block ==
    /\ height < MaxHeight
    /\ height' = height + 1
    /\ \E fate \in [Pool -> {"ok", "failed", "dropped", "pool"}] :
          /\ \A n \in Pool : height' - txs[n].at >= RetentionBlocks => fate[n] # "pool"
          /\ txs' = [n \in DOMAIN txs |-> IF n \in Pool THEN [txs[n] EXCEPT !.state = fate[n]] ELSE txs[n]]
    /\ UNCHANGED <<mem, disk, stage, todo, seen, clock>>

Tick ==
    /\ clock < MaxTime
    /\ clock' = clock + 1
    /\ txs' = [n \in DOMAIN txs |-> IF n \in Pool /\ clock' - txs[n].since >= RetentionTime
                                    THEN [txs[n] EXCEPT !.state = "dropped"] ELSE txs[n]]
    /\ UNCHANGED <<mem, disk, stage, todo, seen, height>>

-----------------------------------------------------------------------------
Init == /\ mem = [i \in Invocations |-> NoRecord] /\ disk = mem
        /\ stage = "idle" /\ todo = {} /\ seen = 0
        /\ txs = <<>>
        /\ height = 1 /\ clock = 0

Next == \/ StartPass \/ ReconcileDone \/ Persist \/ PersistFails \/ WaitForInclusion \/ WaitTimesOut
        \/ EndPass \/ Restart \/ Block \/ Tick
        \/ \E i \in Invocations : ReconcilePending(i) \/ BroadcastFails(i) \/ Broadcast(i)

Spec == Init /\ [][Next]_vars

-----------------------------------------------------------------------------
(* What must hold.                                                         *)
LedgerRecord ==
    [hash : 0..MaxTxs, status : {"none", "unknown", "attested"}, at : 0..MaxTime,
     missed : Nat, missHeight : 0..MaxHeight, failures : 0..MaxFailures]

Transaction ==
    [inv : Invocations, state : {"pool", "ok", "failed", "dropped"}, at : Nat, since : Nat]

\* Every ledger entry has the fields of an AttestRecord, never more failures
\* than park it, and a status exactly when it has a hash.
TypeOK ==
    /\ mem \in [Invocations -> LedgerRecord] /\ disk \in [Invocations -> LedgerRecord]
    /\ \A i \in Invocations : (mem[i].status = "none") <=> (mem[i].hash = 0)
    /\ stage \in {"idle", "reconcile", "submit", "unsaved", "waiting"}
    /\ todo \subseteq Invocations
    /\ txs \in Seq(Transaction)
    /\ seen \in 0..MaxHeight /\ height \in 1..MaxHeight /\ clock \in 0..MaxTime

\* Of the transactions sent for one invocation at most one has been executed or
\* may still be: a resubmission never races the first transaction, so the bond
\* is posted once.
NoDoubleBond ==
    \A m, n \in DOMAIN txs : txs[m].inv = txs[n].inv /\ {txs[m].state, txs[n].state} \subseteq {"pool", "ok"} => m = n

\* An invocation the ledger calls attested was attested by that transaction,
\* in memory and after any crash.
AttestedIsTrue ==
    \A i \in Invocations : \A rec \in {mem[i], disk[i]} :
        rec.status = "attested" => txs[rec.hash].inv = i /\ txs[rec.hash].state = "ok"

\* No invocation is submitted more often than the failures that park it,
\* crashes and forgotten writes included.
SubmissionsBounded ==
    \A i \in Invocations : Cardinality(Sent(i)) <= MaxFailures

\* The relay's promise: what the ledger calls attested was attested, through
\* every crash and lost answer; and as long as no broadcast is hidden from the
\* ledger, bonds are posted once and submissions bounded.
InvocationBondsOnce ==
    /\ TypeOK
    /\ AttestedIsTrue
    /\ ~Lossy /\ ~Ambiguous => NoDoubleBond /\ SubmissionsBounded
=============================================================================
