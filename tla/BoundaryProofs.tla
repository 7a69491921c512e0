---------------------------- MODULE BoundaryProofs ----------------------------
(* Proofs about what the chain exchanges with the outside: the attestation   *)
(* relay, for any set of invocations, any limits of the daemon and any       *)
(* retention of the mempool; the accounts directory, for any addresses, keys *)
(* and parameters; and the homes of agents, for any keys, permissions,       *)
(* thresholds and parameters. The last two are instances: Registry!TypeOK is the *)
(* TypeOK of Accounts, Homes!TypeOK that of AgentHome.                       *)
EXTENDS AttestRelay, FiniteSetTheorems, SequenceTheorems, TLAPS

CONSTANTS Addresses, Keys, None, Types, Lengths, Settings, TTL, MaxVersion, MaxSigned,         \* Accounts
          Prefix, Permissions, Grants, Expiries, InitialThresholds, ParamSets, Wrap             \* AgentHome
VARIABLES accounts, dids, lastRotation, params, signed, rotated, home, keys, sessions, alerts, homeParams

Registry == INSTANCE Accounts
Homes == INSTANCE AgentHome WITH params <- homeParams

\* The finite sets of the instance are those of this module.
LEMMA HomeCounts ==
    /\ \A S : Homes!IsFiniteSet(S) <=> IsFiniteSet(S)
    /\ \A S : Homes!Cardinality(S) = Cardinality(S)
  BY DEF IsFiniteSet, Cardinality, Homes!IsFiniteSet, Homes!Cardinality

-----------------------------------------------------------------------------
(* The inductive invariant *)

\* The transactions T at height h and time c: none outstays its retention in the
\* mempool.
TxsOK(T, h, c) ==
    /\ T \in Seq(Transaction) /\ Len(T) <= MaxTxs
    /\ \A n \in DOMAIN T :
          /\ T[n].at <= h /\ T[n].since <= c
          /\ T[n].state = "pool" => h < T[n].at + RetentionBlocks /\ c < T[n].since + RetentionTime

\* A ledger entry of invocation i that names a transaction names one of i, and
\* the misses counted since the broadcast lie in as many different blocks.
EntryOK(rec, i, T) ==
    /\ rec \in LedgerRecord
    /\ rec.status = "none" <=> rec.hash = 0
    /\ rec.hash # 0 =>
          /\ rec.hash \in DOMAIN T /\ T[rec.hash].inv = i
          /\ rec.failures < MaxFailures
          /\ rec.at = T[rec.hash].since
          /\ rec.missed # 0 => T[rec.hash].at + rec.missed <= rec.missHeight + 1
          /\ rec.status = "attested" => T[rec.hash].state = "ok"

EntriesOK(L, T) == \A i \in Invocations : EntryOK(L[i], i, T)

\* Where the pass is: what it reconciles was sent before it read the height, and
\* what it waits for is the last transaction sent.
PassOK ==
    /\ seen <= height
    /\ stage = "reconcile" =>
          \A i \in todo : mem[i].status = "unknown" /\ (seen # 0 => txs[mem[i].hash].at <= seen)
    /\ stage \in {"unsaved", "waiting"} =>
          /\ txs # <<>>
          /\ mem[txs[Len(txs)].inv].hash = Len(txs) /\ mem[txs[Len(txs)].inv].status = "unknown"

IInv == TypeOK /\ TxsOK(txs, height, clock) /\ EntriesOK(mem, txs) /\ EntriesOK(disk, txs) /\ PassOK

\* The ledger in memory names every transaction that was executed or still may
\* be, and accounts for every transaction sent.
Alone == \A n \in DOMAIN txs : txs[n].state \in {"pool", "ok"} => mem[txs[n].inv].hash = n
Counted ==
    \A i \in Invocations : Cardinality(Sent(i)) <= mem[i].failures + (IF mem[i].hash = 0 THEN 0 ELSE 1)

-----------------------------------------------------------------------------
(* Transactions *)

\* T grows into U: no transaction is lost, changes hands or is undone.
Grows(T, U) ==
    \A n \in DOMAIN T :
       /\ n \in DOMAIN U
       /\ U[n].inv = T[n].inv /\ U[n].at = T[n].at /\ U[n].since = T[n].since
       /\ T[n].state = "ok" => U[n].state = "ok"

\* An entry stays right while the transactions grow.
LEMMA EntryStays ==
    ASSUME NEW rec, NEW i, NEW T, NEW U, EntryOK(rec, i, T), Grows(T, U)
    PROVE  EntryOK(rec, i, U)
  <1>1. CASE rec.hash = 0
    BY <1>1 DEF EntryOK
  <1>2. CASE rec.hash # 0
    <2>1. rec.hash \in DOMAIN T
      BY <1>2 DEF EntryOK
    <2>. QED
      BY <1>2, <2>1 DEF EntryOK, Grows
  <1>. QED
    BY <1>1, <1>2

\* The same for a ledger.
LEMMA EntriesStay ==
    ASSUME NEW L, NEW T, NEW U, EntriesOK(L, T), Grows(T, U)
    PROVE  EntriesOK(L, U)
  BY EntryStays DEF EntriesOK

\* A broadcast that arrives.
LEMMA Arrives ==
    ASSUME RelayAssumption, IInv, NEW i \in Invocations, Len(txs) < MaxTxs
    PROVE  /\ TxsOK(Arrived(i), height, clock) /\ Grows(txs, Arrived(i))
           /\ Len(Arrived(i)) = Len(txs) + 1 /\ DOMAIN Arrived(i) = 1..(Len(txs) + 1)
           /\ \A n \in DOMAIN txs : Arrived(i)[n] = txs[n]
           /\ Arrived(i)[Len(txs) + 1].inv = i /\ Arrived(i)[Len(txs) + 1].since = clock
           /\ Arrived(i)[Len(txs) + 1].state = "pool"
           /\ Arrived(i) # <<>>
  <1>. DEFINE r == [inv |-> i, state |-> "pool", at |-> height, since |-> clock]
              U == Append(txs, r)
  <1>1. txs \in Seq(Transaction) /\ height \in Nat /\ clock \in Nat /\ Len(txs) \in Nat
    BY DEF IInv, TypeOK
  <1>2. r \in Transaction
    BY <1>1 DEF Transaction
  <1>3. r.inv = i /\ r.state = "pool" /\ r.at = height /\ r.since = clock
    OBVIOUS
  <1>. HIDE DEF r
  <1>4. /\ U \in Seq(Transaction) /\ Len(U) = Len(txs) + 1
        /\ \A n \in DOMAIN txs : U[n] = txs[n]
        /\ U[Len(txs) + 1] = r
    BY <1>1, <1>2
  <1>5. DOMAIN txs = 1..Len(txs) /\ DOMAIN U = 1..(Len(txs) + 1)
    BY <1>1, <1>4
  <1>. HIDE DEF U
  <1>6. RetentionBlocks \in Nat \ {0} /\ RetentionTime \in Nat \ {0} /\ MaxTxs \in Nat
    BY DEF RelayAssumption
  <1>7. TxsOK(U, height, clock)
    <2>1. Len(U) <= MaxTxs
      BY <1>1, <1>4, <1>6
    <2>2. ASSUME NEW n \in DOMAIN U
          PROVE  /\ U[n].at <= height /\ U[n].since <= clock
                 /\ U[n].state = "pool" => height < U[n].at + RetentionBlocks /\ clock < U[n].since + RetentionTime
      <3>1. CASE n \in DOMAIN txs
        BY <1>4, <3>1 DEF IInv, TxsOK
      <3>2. CASE n = Len(txs) + 1
        BY <1>1, <1>3, <1>4, <1>6, <3>2
      <3>. QED
        BY <1>1, <1>5, <2>2, <3>1, <3>2
    <2>. QED
      BY <1>4, <2>1, <2>2 DEF TxsOK
  <1>8. Grows(txs, U)
    BY <1>1, <1>4, <1>5 DEF Grows
  <1>9. U # <<>>
    BY <1>1, <1>4
  <1>. QED
    BY <1>3, <1>4, <1>5, <1>7, <1>8, <1>9 DEF Arrived, U, r

\* A function on the same transactions is a sequence of as many.
LEMMA Remade ==
    ASSUME NEW T \in Seq(Transaction), NEW U, U \in [DOMAIN T -> Transaction]
    PROVE  U \in Seq(Transaction) /\ Len(U) = Len(T) /\ DOMAIN U = DOMAIN T
  <1>1. Len(T) \in Nat /\ DOMAIN T = 1..Len(T)
    OBVIOUS
  <1>2. U \in [1..Len(T) -> Transaction]
    BY <1>1
  <1>3. U \in Seq(Transaction)
    BY <1>1, <1>2, SeqDef
  <1>. QED
    BY <1>1, <1>2, <1>3

\* A block executes, fails, drops or keeps what is in the mempool.
LEMMA BlockGrows ==
    ASSUME RelayAssumption, IInv, Block
    PROVE  /\ TxsOK(txs', height', clock') /\ Grows(txs, txs') /\ DOMAIN txs' = DOMAIN txs /\ Len(txs') = Len(txs)
           /\ \A n \in DOMAIN txs : txs'[n].state \in {"pool", "ok"} => txs[n].state \in {"pool", "ok"}
  <1>1. txs \in Seq(Transaction) /\ height \in Nat /\ clock \in Nat /\ height' = height + 1 /\ clock' = clock
    BY DEF IInv, TypeOK, Block
  <1>2. PICK fate \in [Pool -> {"ok", "failed", "dropped", "pool"}] :
          /\ \A n \in Pool : height' - txs[n].at >= RetentionBlocks => fate[n] # "pool"
          /\ txs' = [n \in DOMAIN txs |-> IF n \in Pool THEN [txs[n] EXCEPT !.state = fate[n]] ELSE txs[n]]
    BY DEF Block
  <1>3. ASSUME NEW n \in DOMAIN txs
        PROVE  /\ txs'[n] \in Transaction
               /\ txs'[n].inv = txs[n].inv /\ txs'[n].at = txs[n].at /\ txs'[n].since = txs[n].since
               /\ n \notin Pool => txs'[n] = txs[n]
               /\ n \in Pool => txs'[n].state = fate[n]
    <2>1. txs[n] \in Transaction
      BY <1>1
    <2>2. CASE n \notin Pool
      BY <1>2, <2>1, <2>2
    <2>3. CASE n \in Pool
      <3>1. txs'[n] = [txs[n] EXCEPT !.state = fate[n]] /\ fate[n] \in {"ok", "failed", "dropped", "pool"}
        BY <1>2, <2>3
      <3>. QED
        BY <2>1, <2>3, <3>1 DEF Transaction
    <2>. QED
      BY <2>2, <2>3
  <1>4. txs' \in Seq(Transaction) /\ Len(txs') = Len(txs) /\ DOMAIN txs' = DOMAIN txs
    <2>1. txs' \in [DOMAIN txs -> Transaction]
      <3>1. \A n \in DOMAIN txs : txs'[n] \in Transaction
        BY <1>3
      <3>2. txs' = [n \in DOMAIN txs |-> txs'[n]]
        BY <1>2
      <3>. QED
        BY <3>1, <3>2
    <2>. QED
      BY <1>1, <2>1, Remade
  <1>5. Grows(txs, txs')
    BY <1>3, <1>4 DEF Grows, Pool
  <1>6. ASSUME NEW n \in DOMAIN txs
        PROVE  /\ txs'[n].at <= height' /\ txs'[n].since <= clock'
               /\ txs'[n].state = "pool" => height' < txs'[n].at + RetentionBlocks /\ clock' < txs'[n].since + RetentionTime
    <2>1. txs[n] \in Transaction /\ txs[n].at \in Nat /\ txs[n].since \in Nat
      <3>1. txs[n] \in Transaction
        BY <1>1
      <3>. QED
        BY <3>1 DEF Transaction
    <2>2. txs[n].at <= height /\ txs[n].since <= clock
      BY DEF IInv, TxsOK
    <2>3. ASSUME txs'[n].state = "pool"
          PROVE  n \in Pool /\ fate[n] = "pool"
      BY <1>3, <2>3 DEF Pool
    <2>4. ASSUME txs'[n].state = "pool"
          PROVE  height' < txs'[n].at + RetentionBlocks /\ clock' < txs'[n].since + RetentionTime
      <3>1. ~(height' - txs[n].at >= RetentionBlocks)
        BY <1>2, <2>3, <2>4
      <3>2. txs[n].state = "pool"
        BY <2>3, <2>4 DEF Pool
      <3>3. clock < txs[n].since + RetentionTime
        BY <3>2 DEF IInv, TxsOK
      <3>4. RetentionBlocks \in Nat
        BY DEF RelayAssumption
      <3>. QED
        BY <1>1, <1>3, <2>1, <3>1, <3>3, <3>4
    <2>. QED
      BY <1>1, <1>3, <2>1, <2>2, <2>4
  <1>7. TxsOK(txs', height', clock')
    BY <1>4, <1>6 DEF TxsOK, IInv
  <1>8. ASSUME NEW n \in DOMAIN txs, txs'[n].state \in {"pool", "ok"}
        PROVE  txs[n].state \in {"pool", "ok"}
    BY <1>3, <1>8 DEF Pool
  <1>. QED
    BY <1>4, <1>5, <1>7, <1>8

\* The clock drops what has been in the mempool for too long.
LEMMA TickGrows ==
    ASSUME RelayAssumption, IInv, Tick
    PROVE  /\ TxsOK(txs', height', clock') /\ Grows(txs, txs') /\ DOMAIN txs' = DOMAIN txs /\ Len(txs') = Len(txs)
           /\ \A n \in DOMAIN txs : txs'[n].state \in {"pool", "ok"} => txs[n].state \in {"pool", "ok"}
  <1>1. txs \in Seq(Transaction) /\ height \in Nat /\ clock \in Nat /\ height' = height /\ clock' = clock + 1
    BY DEF IInv, TypeOK, Tick
  <1>. DEFINE old(n) == n \in Pool /\ clock' - txs[n].since >= RetentionTime
  <1>2. txs' = [n \in DOMAIN txs |-> IF old(n) THEN [txs[n] EXCEPT !.state = "dropped"] ELSE txs[n]]
    BY DEF Tick
  <1>3. ASSUME NEW n \in DOMAIN txs
        PROVE  /\ txs'[n] \in Transaction
               /\ txs'[n].inv = txs[n].inv /\ txs'[n].at = txs[n].at /\ txs'[n].since = txs[n].since
               /\ ~old(n) => txs'[n] = txs[n]
               /\ old(n) => txs'[n].state = "dropped"
    <2>1. txs[n] \in Transaction
      BY <1>1
    <2>. HIDE DEF old
    <2>2. CASE ~old(n)
      BY <1>2, <2>1, <2>2
    <2>3. CASE old(n)
      <3>1. txs'[n] = [txs[n] EXCEPT !.state = "dropped"]
        BY <1>2, <2>3
      <3>. QED
        BY <2>1, <2>3, <3>1 DEF Transaction
    <2>. QED
      BY <2>2, <2>3
  <1>4. txs' \in Seq(Transaction) /\ Len(txs') = Len(txs) /\ DOMAIN txs' = DOMAIN txs
    <2>1. txs' \in [DOMAIN txs -> Transaction]
      <3>1. \A n \in DOMAIN txs : txs'[n] \in Transaction
        BY <1>3
      <3>2. txs' = [n \in DOMAIN txs |-> txs'[n]]
        BY <1>2
      <3>. QED
        BY <3>1, <3>2
    <2>. QED
      BY <1>1, <2>1, Remade
  <1>5. Grows(txs, txs')
    BY <1>3, <1>4 DEF Grows, Pool
  <1>6. ASSUME NEW n \in DOMAIN txs
        PROVE  /\ txs'[n].at <= height' /\ txs'[n].since <= clock'
               /\ txs'[n].state = "pool" => height' < txs'[n].at + RetentionBlocks /\ clock' < txs'[n].since + RetentionTime
    <2>1. txs[n] \in Transaction /\ txs[n].at \in Nat /\ txs[n].since \in Nat
      <3>1. txs[n] \in Transaction
        BY <1>1
      <3>. QED
        BY <3>1 DEF Transaction
    <2>2. txs[n].at <= height /\ txs[n].since <= clock
      BY DEF IInv, TxsOK
    <2>3. ASSUME txs'[n].state = "pool"
          PROVE  txs[n].state = "pool" /\ ~(clock' - txs[n].since >= RetentionTime)
      BY <1>3, <2>3 DEF Pool
    <2>4. ASSUME txs'[n].state = "pool"
          PROVE  height' < txs'[n].at + RetentionBlocks /\ clock' < txs'[n].since + RetentionTime
      <3>1. ~(clock' - txs[n].since >= RetentionTime) /\ height < txs[n].at + RetentionBlocks
        BY <2>3, <2>4 DEF IInv, TxsOK
      <3>2. RetentionTime \in Nat
        BY DEF RelayAssumption
      <3>. QED
        BY <1>1, <1>3, <2>1, <3>1, <3>2
    <2>. QED
      BY <1>1, <1>3, <2>1, <2>2, <2>4
  <1>7. TxsOK(txs', height', clock')
    BY <1>4, <1>6 DEF TxsOK, IInv
  <1>8. ASSUME NEW n \in DOMAIN txs, txs'[n].state \in {"pool", "ok"}
        PROVE  txs[n].state \in {"pool", "ok"}
    BY <1>3, <1>8 DEF Pool
  <1>. QED
    BY <1>4, <1>5, <1>7, <1>8

-----------------------------------------------------------------------------
(* Reconciliation *)

\* The four things reconciliation makes of an entry, and when: r is attested,
\* given up after a failure or after enough misses, found missing once more, or
\* left alone.
Outcome(rec, probe, h, r) ==
    \/ /\ probe = "ok"
       /\ r = [rec EXCEPT !.status = "attested", !.missed = 0, !.missHeight = 0]
    \/ /\ probe = "failed"
       /\ r = [NoRecord EXCEPT !.failures = rec.failures + 1]
    \/ /\ probe = "missing" /\ h # 0 /\ ~(h <= rec.missHeight)
       /\ rec.missed + 1 >= MaxNotFound /\ clock - rec.at >= MinWait
       /\ r = [NoRecord EXCEPT !.failures = rec.failures + 1]
    \/ /\ probe = "missing" /\ h # 0 /\ ~(h <= rec.missHeight)
       /\ r = [rec EXCEPT !.missed = @ + 1, !.missHeight = h]
    \/ r = rec

\* applyReconcile does one of them.
LEMMA ReconcileCases ==
    ASSUME NEW rec, NEW h, NEW probe \in {"ok", "failed", "missing", "error"}
    PROVE  Outcome(rec, probe, h, applyReconcile(rec, probe, h))
  <1>. DEFINE d == decideReconcile(probe, rec, h)
  <1>1. \/ probe = "ok" /\ d = "attested"
        \/ probe = "failed" /\ d = "failure"
        \/ /\ probe = "missing" /\ h # 0 /\ ~(h <= rec.missHeight)
           /\ rec.missed + 1 >= MaxNotFound /\ clock - rec.at >= MinWait /\ d = "release"
        \/ probe = "missing" /\ h # 0 /\ ~(h <= rec.missHeight) /\ d = "wait"
        \/ d = "nothing"
    BY DEF decideReconcile
  <1>. HIDE DEF d
  <1>2. /\ d = "attested" => applyReconcile(rec, probe, h) = [rec EXCEPT !.status = "attested", !.missed = 0, !.missHeight = 0]
        /\ d \in {"failure", "release"} => applyReconcile(rec, probe, h) = [NoRecord EXCEPT !.failures = rec.failures + 1]
        /\ d = "wait" => applyReconcile(rec, probe, h) = [rec EXCEPT !.missed = @ + 1, !.missHeight = h]
        /\ d = "nothing" => applyReconcile(rec, probe, h) = rec
    BY DEF applyReconcile, d
  <1>. QED
    BY <1>1, <1>2 DEF Outcome

\* The entry of a transaction given up: none, and a failure more.
LEMMA GivenUp ==
    ASSUME RelayAssumption, NEW i, NEW T, NEW f \in Nat, f < MaxFailures
    PROVE  LET r == [NoRecord EXCEPT !.failures = f + 1]
           IN  EntryOK(r, i, T) /\ r.hash = 0 /\ r.failures = f + 1 /\ r.status = "none"
  <1>. DEFINE r == [NoRecord EXCEPT !.failures = f + 1]
  <1>1. r = [hash |-> 0, status |-> "none", at |-> 0, missed |-> 0, missHeight |-> 0, failures |-> f + 1]
    BY DEF NoRecord
  <1>2. f + 1 \in 0..MaxFailures /\ 0 \in 0..MaxTxs /\ 0 \in 0..MaxTime /\ 0 \in 0..MaxHeight /\ 0 \in Nat
    BY DEF RelayAssumption
  <1>3. r.hash = 0 /\ r.failures = f + 1 /\ r.status = "none"
    BY <1>1
  <1>4. r \in LedgerRecord
    BY <1>1, <1>2 DEF LedgerRecord
  <1>. HIDE DEF r
  <1>5. EntryOK(r, i, T)
    BY <1>3, <1>4 DEF EntryOK
  <1>. QED
    BY <1>3, <1>5 DEF r

\* Reconciliation keeps an entry right.  One that it gives up is of a transaction
\* that failed or that the mempool no longer has.
LEMMA Reconciled ==
    ASSUME RelayAssumption, IInv, NEW i \in Invocations, mem[i].status = "unknown",
           NEW probe \in Probes(mem[i].hash), NEW h \in 0..MaxHeight, h <= height,
           h # 0 => txs[mem[i].hash].at <= h
    PROVE  LET r == applyReconcile(mem[i], probe, h)
           IN  /\ EntryOK(r, i, txs)
               /\ \/ r.hash = mem[i].hash /\ r.failures = mem[i].failures
                  \/ /\ r.hash = 0 /\ r.failures = mem[i].failures + 1
                     /\ PatienceAssumption => txs[mem[i].hash].state \notin {"pool", "ok"}
  <1>. DEFINE rec == mem[i]
              n == rec.hash
              t == txs[n]
              r == applyReconcile(rec, probe, h)
  <1>1. EntryOK(rec, i, txs) /\ rec \in LedgerRecord
    BY DEF IInv, EntriesOK, EntryOK
  <1>2. /\ n \in DOMAIN txs /\ n # 0 /\ t.inv = i /\ rec.failures < MaxFailures /\ rec.at = t.since
        /\ rec.missed # 0 => t.at + rec.missed <= rec.missHeight + 1
    BY <1>1 DEF EntryOK
  <1>3. /\ rec.hash \in 0..MaxTxs /\ rec.at \in 0..MaxTime /\ rec.missed \in Nat /\ rec.missHeight \in 0..MaxHeight
        /\ rec.missHeight \in Nat /\ rec.failures \in 0..MaxFailures /\ rec.failures \in Nat
    BY <1>1 DEF LedgerRecord, RelayAssumption
  <1>4. t \in Transaction
    BY <1>2 DEF IInv, TypeOK
  <1>5. t.at \in Nat /\ t.since \in Nat /\ t.state \in {"pool", "ok", "failed", "dropped"}
    BY <1>4 DEF Transaction
  <1>6. /\ probe \in {"ok", "failed", "missing", "error"}
        /\ probe = "ok" => t.state = "ok"
        /\ probe = "failed" => t.state = "failed"
        /\ probe = "missing" => t.state \in {"pool", "dropped"}
    BY <1>5 DEF Probes
  <1>7. height \in Nat /\ clock \in Nat /\ h \in Nat /\ 0 \in 0..MaxHeight
    BY DEF IInv, TypeOK, RelayAssumption
  <1>8. MaxNotFound \in Nat \ {0} /\ MinWait \in Nat /\ RetentionBlocks \in Nat /\ RetentionTime \in Nat
    BY DEF RelayAssumption
  <1>9. t.state = "pool" => height < t.at + RetentionBlocks /\ clock < t.since + RetentionTime
    BY <1>2 DEF IInv, TxsOK
  <1>. HIDE DEF rec, n, t, r
  <1>10. CASE /\ probe = "ok"
              /\ r = [rec EXCEPT !.status = "attested", !.missed = 0, !.missHeight = 0]
    <2>1. r \in LedgerRecord
      BY <1>1, <1>7, <1>10 DEF LedgerRecord
    <2>2. r.hash = n /\ r.at = rec.at /\ r.failures = rec.failures /\ r.missed = 0 /\ r.status = "attested"
      BY <1>1, <1>10 DEF LedgerRecord, n
    <2>3. EntryOK(r, i, txs)
      BY <1>2, <1>6, <1>10, <2>1, <2>2 DEF EntryOK, t
    <2>. QED
      BY <2>2, <2>3 DEF r, rec, n
  <1>11. CASE /\ probe = "failed"
              /\ r = [NoRecord EXCEPT !.failures = rec.failures + 1]
    <2>1. EntryOK(r, i, txs) /\ r.hash = 0 /\ r.failures = rec.failures + 1
      BY <1>2, <1>3, <1>11, GivenUp
    <2>. QED
      BY <1>6, <1>11, <2>1 DEF r, rec, n, t
  <1>12. CASE /\ probe = "missing" /\ h # 0 /\ ~(h <= rec.missHeight)
              /\ rec.missed + 1 >= MaxNotFound /\ clock - rec.at >= MinWait
              /\ r = [NoRecord EXCEPT !.failures = rec.failures + 1]
    <2>1. EntryOK(r, i, txs) /\ r.hash = 0 /\ r.failures = rec.failures + 1
      BY <1>2, <1>3, <1>12, GivenUp
    <2>2. t.at <= h
      BY <1>12 DEF t, n, rec
    <2>3. ASSUME RetentionBlocks < MaxNotFound, t.state = "pool"
          PROVE  FALSE
      <3>1. t.at + rec.missed <= height
        <4>1. CASE rec.missed = 0
          BY <1>5, <1>7, <2>2, <4>1
        <4>2. CASE rec.missed # 0
          BY <1>2, <1>3, <1>5, <1>7, <1>12, <4>2
        <4>. QED
          BY <4>1, <4>2
      <3>. QED
        BY <1>3, <1>5, <1>7, <1>8, <1>9, <1>12, <2>3, <3>1
    <2>4. ASSUME RetentionTime <= MinWait, t.state = "pool"
          PROVE  FALSE
      BY <1>2, <1>5, <1>7, <1>8, <1>9, <1>12, <2>4
    <2>5. PatienceAssumption => t.state \notin {"pool", "ok"}
      BY <1>6, <1>12, <2>3, <2>4 DEF PatienceAssumption
    <2>. QED
      BY <2>1, <2>5 DEF r, rec, n, t
  <1>13. CASE /\ probe = "missing" /\ h # 0 /\ ~(h <= rec.missHeight)
              /\ r = [rec EXCEPT !.missed = @ + 1, !.missHeight = h]
    <2>. DEFINE m == rec.missed + 1
    <2>0. r = [rec EXCEPT !.missed = m, !.missHeight = h] /\ m \in Nat
      BY <1>3, <1>13
    <2>. HIDE DEF m
    <2>1. r \in LedgerRecord
      BY <1>1, <2>0 DEF LedgerRecord
    <2>2. /\ r.hash = n /\ r.at = rec.at /\ r.failures = rec.failures /\ r.status = rec.status
          /\ r.missed = rec.missed + 1 /\ r.missHeight = h
      BY <1>1, <2>0 DEF LedgerRecord, n, m
    <2>3. t.at <= h
      BY <1>13 DEF t, n, rec
    <2>4. t.at + (rec.missed + 1) <= h + 1
      <3>1. CASE rec.missed = 0
        BY <1>5, <1>7, <2>3, <3>1
      <3>2. CASE rec.missed # 0
        BY <1>2, <1>3, <1>5, <1>7, <1>13, <3>2
      <3>. QED
        BY <3>1, <3>2
    <2>5. rec.status = "unknown"
      BY DEF rec
    <2>6. EntryOK(r, i, txs)
      BY <1>2, <2>1, <2>2, <2>4, <2>5 DEF EntryOK, t
    <2>. QED
      BY <2>2, <2>6 DEF r, rec, n
  <1>14. CASE r = rec
    BY <1>1, <1>14 DEF r, rec
  <1>15. Outcome(rec, probe, h, r)
    BY <1>6, ReconcileCases DEF r
  <1>. QED
    BY <1>10, <1>11, <1>12, <1>13, <1>14, <1>15 DEF Outcome

-----------------------------------------------------------------------------
(* The invariant is inductive *)

\* The parts of a state, put together.
LEMMA Together ==
    ASSUME EntriesOK(mem, txs)', EntriesOK(disk, txs)', TxsOK(txs, height, clock)', PassOK',
           mem' \in [Invocations -> LedgerRecord], disk' \in [Invocations -> LedgerRecord],
           stage' \in {"idle", "reconcile", "submit", "unsaved", "waiting"}, todo' \subseteq Invocations,
           seen' \in 0..MaxHeight, height' \in 1..MaxHeight, clock' \in 0..MaxTime
    PROVE  IInv'
  <1>1. \A i \in Invocations : (mem'[i].status = "none") <=> (mem'[i].hash = 0)
    BY DEF EntriesOK, EntryOK
  <1>2. txs' \in Seq(Transaction)
    BY DEF TxsOK
  <1>. QED
    BY <1>1, <1>2 DEF IInv, TypeOK

\* A ledger with one entry replaced.
LEMMA OneEntry ==
    ASSUME NEW T, NEW L \in [Invocations -> LedgerRecord], EntriesOK(L, T),
           NEW i \in Invocations, NEW r, EntryOK(r, i, T)
    PROVE  LET M == [L EXCEPT ![i] = r]
           IN  /\ M \in [Invocations -> LedgerRecord] /\ EntriesOK(M, T)
               /\ M[i] = r /\ \A j \in Invocations \ {i} : M[j] = L[j]
  <1>1. r \in LedgerRecord
    BY DEF EntryOK
  <1>. DEFINE M == [L EXCEPT ![i] = r]
  <1>2. M \in [Invocations -> LedgerRecord] /\ M[i] = r /\ \A j \in Invocations \ {i} : M[j] = L[j]
    BY <1>1
  <1>. HIDE DEF M
  <1>3. EntriesOK(M, T)
    BY <1>2 DEF EntriesOK
  <1>. QED
    BY <1>2, <1>3 DEF M

\* An empty ledger and no transactions.
LEMMA InitHolds ==
    ASSUME RelayAssumption, Init
    PROVE  IInv /\ Alone /\ Counted
  <1>1. /\ NoRecord.hash = 0 /\ NoRecord.status = "none" /\ NoRecord.failures = 0 /\ NoRecord \in LedgerRecord
    BY DEF NoRecord, LedgerRecord, RelayAssumption
  <1>2. mem = [i \in Invocations |-> NoRecord] /\ disk = mem /\ txs = <<>>
    BY DEF Init
  <1>. HIDE DEF NoRecord
  <1>3. \A i \in Invocations : mem[i] = NoRecord /\ disk[i] = NoRecord
    BY <1>2
  <1>4. mem \in [Invocations -> LedgerRecord] /\ disk \in [Invocations -> LedgerRecord]
    BY <1>1, <1>2
  <1>5. EntriesOK(mem, txs) /\ EntriesOK(disk, txs)
    BY <1>1, <1>3 DEF EntriesOK, EntryOK
  <1>6. txs \in Seq(Transaction) /\ Len(txs) = 0 /\ DOMAIN txs = {}
    BY <1>2
  <1>7. TxsOK(txs, height, clock)
    BY <1>6 DEF TxsOK, RelayAssumption
  <1>8. PassOK
    BY DEF Init, PassOK
  <1>9. TypeOK
    BY <1>1, <1>3, <1>4, <1>6 DEF TypeOK, Init, RelayAssumption
  <1>10. Alone
    BY <1>6 DEF Alone
  <1>11. Counted
    <2>1. \A i \in Invocations : Sent(i) = {}
      BY <1>6 DEF Sent
    <2>2. Cardinality({}) = 0
      BY FS_EmptySet
    <2>. QED
      BY <1>1, <1>3, <2>1, <2>2 DEF Counted
  <1>. QED
    BY <1>5, <1>7, <1>8, <1>9, <1>10, <1>11 DEF IInv

\* A pass starts, moves on, is given up or is cut short by a crash.
LEMMA PassKeeps ==
    ASSUME RelayAssumption, IInv,
           StartPass \/ ReconcileDone \/ Persist \/ PersistFails \/ WaitTimesOut \/ EndPass \/ Restart
    PROVE  IInv'
  <1>1. /\ txs' = txs /\ height' = height /\ clock' = clock
        /\ mem' \in {mem, disk} /\ disk' \in {mem, disk}
        /\ stage' \in {"idle", "reconcile", "submit", "unsaved", "waiting"} /\ todo' \subseteq Invocations
        /\ seen' \in {0, seen, height}
    BY DEF StartPass, ReconcileDone, Persist, PersistFails, WaitTimesOut, EndPass, Restart, Unresolved, IInv, TypeOK
  <1>2. /\ EntriesOK(mem, txs)' /\ EntriesOK(disk, txs)' /\ TxsOK(txs, height, clock)'
        /\ mem' \in [Invocations -> LedgerRecord] /\ disk' \in [Invocations -> LedgerRecord]
    <2>1. EntriesOK(mem', txs') /\ EntriesOK(disk', txs') /\ TxsOK(txs', height', clock')
      BY <1>1 DEF IInv
    <2>. QED
      BY <1>1, <2>1 DEF IInv, TypeOK, EntriesOK, EntryOK, TxsOK
  <1>3. seen' \in 0..MaxHeight /\ height' \in 1..MaxHeight /\ clock' \in 0..MaxTime
    BY <1>1 DEF IInv, TypeOK, RelayAssumption
  <1>4. PassOK'
    <2>1. CASE StartPass
      <3>1. mem' = mem /\ txs' = txs /\ height' = height /\ seen' \in {0, height} /\ todo' = Unresolved /\ stage' = "reconcile"
        BY <2>1 DEF StartPass
      <3>2. \A i \in Unresolved : mem[i].status = "unknown" /\ txs[mem[i].hash].at <= height
        <4>1. \A i \in Unresolved : mem[i].status = "unknown" /\ mem[i].hash \in DOMAIN txs
          BY DEF Unresolved, IInv, EntriesOK, EntryOK
        <4>. QED
          BY <4>1 DEF IInv, TxsOK
      <3>3. height \in Nat
        BY DEF IInv, TypeOK
      <3>. QED
        BY <3>1, <3>2, <3>3 DEF PassOK
    <2>2. CASE Persist
      BY <2>2 DEF Persist, IInv, PassOK
    <2>3. CASE ReconcileDone \/ PersistFails \/ WaitTimesOut \/ EndPass \/ Restart
      <3>1. stage' \in {"idle", "submit"} /\ seen' = seen /\ height' = height
        BY <2>3 DEF ReconcileDone, PersistFails, WaitTimesOut, EndPass, Restart
      <3>. QED
        BY <3>1 DEF IInv, PassOK
    <2>. QED
      BY <2>1, <2>2, <2>3
  <1>. QED
    BY <1>1, <1>2, <1>3, <1>4, Together

\* Blocks and the clock.
LEMMA TimeKeeps ==
    ASSUME RelayAssumption, IInv, Block \/ Tick
    PROVE  IInv'
  <1>1. /\ mem' = mem /\ disk' = disk /\ stage' = stage /\ todo' = todo /\ seen' = seen
        /\ height <= height' /\ height' \in 1..MaxHeight /\ clock' \in 0..MaxTime
    BY DEF Block, Tick, IInv, TypeOK, RelayAssumption
  <1>2. TxsOK(txs', height', clock') /\ Grows(txs, txs') /\ Len(txs') = Len(txs) /\ DOMAIN txs' = DOMAIN txs
    BY BlockGrows, TickGrows
  <1>3. EntriesOK(mem', txs') /\ EntriesOK(disk', txs')
    BY <1>1, <1>2, EntriesStay DEF IInv
  <1>4. txs \in Seq(Transaction) /\ txs' \in Seq(Transaction) /\ Len(txs) \in Nat /\ DOMAIN txs = 1..Len(txs)
    BY <1>2 DEF IInv, TypeOK, TxsOK
  <1>5. PassOK'
    <2>1. seen' <= height'
      BY <1>1 DEF IInv, TypeOK, PassOK
    <2>2. ASSUME stage = "reconcile", NEW i \in todo
          PROVE  mem[i].status = "unknown" /\ (seen # 0 => txs'[mem[i].hash].at <= seen)
      <3>1. i \in Invocations /\ mem[i].status = "unknown" /\ (seen # 0 => txs[mem[i].hash].at <= seen)
        BY <2>2 DEF IInv, TypeOK, PassOK
      <3>2. mem[i].hash \in DOMAIN txs
        BY <3>1 DEF IInv, EntriesOK, EntryOK
      <3>. QED
        BY <1>2, <3>1, <3>2 DEF Grows
    <2>3. ASSUME stage \in {"unsaved", "waiting"}
          PROVE  /\ txs' # <<>>
                 /\ mem[txs'[Len(txs')].inv].hash = Len(txs') /\ mem[txs'[Len(txs')].inv].status = "unknown"
      <3>1. /\ txs # <<>>
            /\ mem[txs[Len(txs)].inv].hash = Len(txs) /\ mem[txs[Len(txs)].inv].status = "unknown"
        BY <2>3 DEF IInv, PassOK
      <3>2. Len(txs) # 0
        BY <1>4, <3>1
      <3>3. Len(txs) \in DOMAIN txs
        BY <1>4, <3>2
      <3>4. txs'[Len(txs)].inv = txs[Len(txs)].inv
        BY <1>2, <3>3 DEF Grows
      <3>5. txs' # <<>>
        BY <1>2, <1>4, <3>2
      <3>. QED
        BY <1>2, <3>1, <3>4, <3>5
    <2>. QED
      BY <1>1, <2>1, <2>2, <2>3 DEF PassOK
  <1>6. EntriesOK(mem, txs)' /\ EntriesOK(disk, txs)' /\ TxsOK(txs, height, clock)'
    BY <1>2, <1>3 DEF EntriesOK, EntryOK, TxsOK
  <1>. QED
    BY <1>1, <1>5, <1>6, Together DEF IInv, TypeOK

\* The rest of a step that replaces one entry and may write the ledger.
LEMMA Replaced ==
    ASSUME IInv, NEW i \in Invocations, NEW r, EntryOK(r, i, txs'), Grows(txs, txs'), TxsOK(txs', height', clock'),
           mem' = [mem EXCEPT ![i] = r], disk' \in {mem', disk},
           stage' \in {"idle", "reconcile", "submit", "unsaved", "waiting"}, todo' \subseteq Invocations,
           seen' = seen, height' = height, clock' = clock, PassOK'
    PROVE  IInv'
  <1>1. EntriesOK(mem, txs') /\ EntriesOK(disk, txs') /\ mem \in [Invocations -> LedgerRecord]
    BY EntriesStay DEF IInv, TypeOK
  <1>2. mem' \in [Invocations -> LedgerRecord] /\ EntriesOK(mem', txs')
    BY <1>1, OneEntry
  <1>3. disk' \in [Invocations -> LedgerRecord] /\ EntriesOK(disk', txs')
    BY <1>1, <1>2 DEF IInv, TypeOK
  <1>4. EntriesOK(mem, txs)' /\ EntriesOK(disk, txs)' /\ TxsOK(txs, height, clock)'
    BY <1>2, <1>3 DEF EntriesOK, EntryOK, TxsOK
  <1>. QED
    BY <1>2, <1>3, <1>4, Together DEF IInv, TypeOK

\* Transactions that stay as they are count as grown.
LEMMA GrowsSelf == \A T : Grows(T, T)
  BY DEF Grows

\* What reconciliation may do to the entry of i, and to nothing else.
Settled(i) ==
    /\ txs' = txs /\ mem[i].status = "unknown" /\ mem[i].hash \in DOMAIN txs
    /\ \A j \in Invocations \ {i} : mem'[j] = mem[j]
    /\ \/ mem'[i].hash = mem[i].hash /\ mem'[i].failures = mem[i].failures
       \/ /\ mem'[i].hash = 0 /\ mem'[i].failures = mem[i].failures + 1
          /\ PatienceAssumption => txs[mem[i].hash].state \notin {"pool", "ok"}

\* A probe.
LEMMA ReconcileKeeps ==
    ASSUME RelayAssumption, IInv, NEW i \in Invocations, ReconcilePending(i)
    PROVE  IInv' /\ Settled(i)
  <1>1. /\ stage = "reconcile" /\ i \in todo /\ todo' = todo \ {i} /\ disk' \in {mem', disk}
        /\ stage' = stage /\ seen' = seen /\ txs' = txs /\ height' = height /\ clock' = clock
    BY DEF ReconcilePending, Saved
  <1>2. PICK probe \in Probes(mem[i].hash) : mem' = [mem EXCEPT ![i] = applyReconcile(mem[i], probe, seen)]
    BY DEF ReconcilePending
  <1>3. mem[i].status = "unknown" /\ seen <= height /\ seen \in 0..MaxHeight /\ (seen # 0 => txs[mem[i].hash].at <= seen)
    BY <1>1 DEF IInv, PassOK, TypeOK
  <1>. DEFINE r == applyReconcile(mem[i], probe, seen)
  <1>4. /\ EntryOK(r, i, txs)
        /\ \/ r.hash = mem[i].hash /\ r.failures = mem[i].failures
           \/ /\ r.hash = 0 /\ r.failures = mem[i].failures + 1
              /\ PatienceAssumption => txs[mem[i].hash].state \notin {"pool", "ok"}
    BY <1>3, Reconciled
  <1>. HIDE DEF r
  <1>5. mem' = [mem EXCEPT ![i] = r]
    BY <1>2 DEF r
  <1>6. mem'[i] = r /\ \A j \in Invocations \ {i} : mem'[j] = mem[j]
    BY <1>5 DEF IInv, TypeOK
  <1>7. PassOK'
    <2>1. \A j \in todo' : mem'[j] = mem[j] /\ j \in todo
      BY <1>1, <1>6 DEF IInv, TypeOK
    <2>. QED
      BY <1>1, <2>1 DEF IInv, PassOK
  <1>8. IInv'
    <2>1. EntryOK(r, i, txs') /\ Grows(txs, txs') /\ TxsOK(txs', height', clock')
      BY <1>1, <1>4, GrowsSelf DEF IInv
    <2>2. stage' \in {"idle", "reconcile", "submit", "unsaved", "waiting"} /\ todo' \subseteq Invocations
      BY <1>1 DEF IInv, TypeOK
    <2>. QED
      BY <1>1, <1>5, <1>7, <2>1, <2>2, Replaced
  <1>9. mem[i].hash \in DOMAIN txs
    BY <1>3 DEF IInv, EntriesOK, EntryOK
  <1>. QED
    BY <1>1, <1>3, <1>4, <1>6, <1>8, <1>9 DEF Settled

\* The answer for the last transaction sent.
LEMMA WaitKeeps ==
    ASSUME RelayAssumption, IInv, WaitForInclusion
    PROVE  IInv' /\ txs[Len(txs)].inv \in Invocations /\ Settled(txs[Len(txs)].inv)
  <1>. DEFINE n == Len(txs)
              i == txs[n].inv
              probe == txs[n].state
              r == applyReconcile(mem[i], probe, 0)
  <1>1. /\ stage = "waiting" /\ probe \in {"ok", "failed"} /\ mem' = [mem EXCEPT ![i] = r] /\ disk' \in {mem', disk}
        /\ stage' = "submit" /\ todo' = todo /\ seen' = seen /\ txs' = txs /\ height' = height /\ clock' = clock
    BY DEF WaitForInclusion, Saved
  <1>2. txs # <<>> /\ mem[i].hash = n /\ mem[i].status = "unknown"
    BY <1>1 DEF IInv, PassOK
  <1>3. n \in DOMAIN txs /\ txs[n] \in Transaction
    BY <1>2 DEF IInv, TypeOK
  <1>4. i \in Invocations
    BY <1>3 DEF Transaction
  <1>5. probe \in Probes(mem[i].hash)
    BY <1>1, <1>2 DEF Probes
  <1>6. 0 \in 0..MaxHeight /\ 0 <= height
    BY DEF RelayAssumption, IInv, TypeOK
  <1>. HIDE DEF i, probe
  <1>7. /\ EntryOK(r, i, txs)
        /\ \/ r.hash = mem[i].hash /\ r.failures = mem[i].failures
           \/ /\ r.hash = 0 /\ r.failures = mem[i].failures + 1
              /\ PatienceAssumption => txs[mem[i].hash].state \notin {"pool", "ok"}
    BY <1>2, <1>4, <1>5, <1>6, Reconciled
  <1>. HIDE DEF r, n
  <1>8. mem'[i] = r /\ \A j \in Invocations \ {i} : mem'[j] = mem[j]
    BY <1>1, <1>4 DEF IInv, TypeOK
  <1>9. PassOK'
    BY <1>1 DEF IInv, PassOK
  <1>10. IInv'
    <2>1. EntryOK(r, i, txs') /\ Grows(txs, txs') /\ TxsOK(txs', height', clock')
      BY <1>1, <1>7, GrowsSelf DEF IInv
    <2>2. stage' \in {"idle", "reconcile", "submit", "unsaved", "waiting"} /\ todo' \subseteq Invocations
      BY <1>1 DEF IInv, TypeOK
    <2>. QED
      BY <1>1, <1>4, <1>9, <2>1, <2>2, Replaced
  <1>11. Settled(i)
    BY <1>1, <1>2, <1>3, <1>7, <1>8 DEF Settled, n
  <1>. QED
    BY <1>4, <1>10, <1>11 DEF i, n

\* A broadcast that the daemon takes for failed.
LEMMA FailureKeeps ==
    ASSUME RelayAssumption, IInv, NEW i \in Invocations, BroadcastFails(i)
    PROVE  /\ IInv' /\ mem[i].hash = 0 /\ mem'[i].hash = 0 /\ mem'[i].failures = mem[i].failures + 1
           /\ \A j \in Invocations \ {i} : mem'[j] = mem[j]
           /\ ~Ambiguous => txs' = txs
  <1>1. /\ stage = "submit" /\ ~shouldSkipSubmit(mem[i]) /\ todo' = todo \ {i} /\ disk' \in {mem', disk}
        /\ mem' = [mem EXCEPT ![i].failures = @ + 1]
        /\ txs' = txs \/ (Ambiguous /\ Len(txs) < MaxTxs /\ txs' = Arrived(i))
        /\ stage' = stage /\ seen' = seen /\ height' = height /\ clock' = clock
    BY DEF BroadcastFails, Saved
  <1>. DEFINE f == mem[i].failures
              r == [mem[i] EXCEPT !.failures = f + 1]
  <1>2. /\ mem[i] \in LedgerRecord /\ EntryOK(mem[i], i, txs)
    BY DEF IInv, EntriesOK, EntryOK
  <1>3. f \in 0..MaxFailures /\ f \in Nat /\ MaxFailures \in Nat
    BY <1>2 DEF LedgerRecord, RelayAssumption
  <1>4. mem[i].hash = 0 /\ ~(f >= MaxFailures)
    BY <1>1 DEF shouldSkipSubmit
  <1>5. f + 1 \in 0..MaxFailures
    BY <1>3, <1>4
  <1>6. mem' = [mem EXCEPT ![i] = r]
    BY <1>1
  <1>7. r \in LedgerRecord /\ r.hash = mem[i].hash /\ r.status = mem[i].status /\ r.failures = f + 1
    BY <1>2, <1>5 DEF LedgerRecord
  <1>. HIDE DEF f, r
  <1>8. \A T : EntryOK(r, i, T)
    BY <1>2, <1>4, <1>7 DEF EntryOK
  <1>9. mem'[i] = r /\ \A j \in Invocations \ {i} : mem'[j] = mem[j]
    BY <1>6 DEF IInv, TypeOK
  <1>10. Grows(txs, txs') /\ TxsOK(txs', height', clock')
    BY <1>1, Arrives, GrowsSelf DEF IInv
  <1>11. PassOK'
    BY <1>1 DEF IInv, PassOK
  <1>12. todo' \subseteq Invocations
    BY <1>1 DEF IInv, TypeOK
  <1>13. IInv'
    BY <1>1, <1>6, <1>8, <1>10, <1>11, <1>12, Replaced
  <1>. QED
    BY <1>1, <1>4, <1>7, <1>9, <1>13 DEF f

\* A broadcast whose hash the daemon learns.
LEMMA BroadcastKeeps ==
    ASSUME RelayAssumption, IInv, NEW i \in Invocations, Broadcast(i)
    PROVE  /\ IInv' /\ Len(txs) < MaxTxs /\ txs' = Arrived(i) /\ mem[i].hash = 0
           /\ mem'[i].hash = Len(txs) + 1 /\ mem'[i].failures = mem[i].failures
           /\ \A j \in Invocations \ {i} : mem'[j] = mem[j]
  <1>. DEFINE f == mem[i].failures
              m == Len(txs) + 1
              r == [NoRecord EXCEPT !.hash = m, !.status = "unknown", !.at = clock, !.failures = f]
  <1>1. /\ ~shouldSkipSubmit(mem[i]) /\ Len(txs) < MaxTxs /\ txs' = Arrived(i) /\ disk' = disk
        /\ stage' = "unsaved" /\ todo' = todo \ {i} /\ seen' = seen /\ height' = height /\ clock' = clock
        /\ mem' = [mem EXCEPT ![i] = [NoRecord EXCEPT !.hash = Len(txs'), !.status = "unknown", !.at = clock, !.failures = f]]
    BY DEF Broadcast
  <1>2. /\ TxsOK(txs', height', clock') /\ Grows(txs, txs') /\ Len(txs') = Len(txs) + 1 /\ DOMAIN txs' = 1..(Len(txs) + 1)
        /\ txs'[Len(txs) + 1].inv = i /\ txs'[Len(txs) + 1].since = clock /\ txs' # <<>>
    BY <1>1, Arrives
  <1>3. mem' = [mem EXCEPT ![i] = r]
    BY <1>1, <1>2
  <1>4. mem[i] \in LedgerRecord /\ mem[i].hash = 0 /\ ~(f >= MaxFailures)
    BY <1>1 DEF shouldSkipSubmit, IInv, TypeOK
  <1>5. f \in 0..MaxFailures /\ f < MaxFailures
    <2>1. f \in 0..MaxFailures
      BY <1>4 DEF LedgerRecord
    <2>. QED
      BY <1>4, <2>1 DEF RelayAssumption
  <1>6. clock \in 0..MaxTime /\ Len(txs) \in Nat /\ MaxTxs \in Nat
    BY DEF IInv, TypeOK, RelayAssumption
  <1>7. Len(txs) + 1 \in 0..MaxTxs /\ Len(txs) + 1 # 0 /\ Len(txs) + 1 \in 1..(Len(txs) + 1) /\ 0 \in 0..MaxHeight
    BY <1>1, <1>6 DEF RelayAssumption
  <1>. HIDE DEF f, m
  <1>8. r \in LedgerRecord
    BY <1>5, <1>6, <1>7 DEF LedgerRecord, NoRecord, m
  <1>9. /\ r.hash = Len(txs) + 1 /\ r.status = "unknown" /\ r.at = clock /\ r.missed = 0 /\ r.failures = f
    BY DEF NoRecord, m
  <1>. HIDE DEF r
  <1>10. EntryOK(r, i, txs')
    BY <1>2, <1>5, <1>7, <1>8, <1>9 DEF EntryOK
  <1>11. mem'[i] = r /\ \A j \in Invocations \ {i} : mem'[j] = mem[j]
    BY <1>3 DEF IInv, TypeOK
  <1>12. PassOK'
    BY <1>1, <1>2, <1>9, <1>11 DEF IInv, PassOK
  <1>13. todo' \subseteq Invocations
    BY <1>1 DEF IInv, TypeOK
  <1>14. IInv'
    BY <1>1, <1>2, <1>3, <1>10, <1>12, <1>13, Replaced
  <1>. QED
    BY <1>1, <1>4, <1>9, <1>11, <1>14 DEF f

\* Every step keeps the invariant, whatever crashes and lost answers do.
LEMMA NextKeeps ==
    ASSUME RelayAssumption, IInv, [Next]_vars
    PROVE  IInv'
  <1>1. CASE UNCHANGED vars
    <2>1. /\ mem' = mem /\ disk' = disk /\ stage' = stage /\ todo' = todo /\ seen' = seen /\ txs' = txs
          /\ height' = height /\ clock' = clock
      BY <1>1 DEF vars
    <2>2. TypeOK' /\ PassOK'
      BY <2>1 DEF IInv, TypeOK, PassOK
    <2>3. TxsOK(txs, height, clock)' /\ EntriesOK(mem, txs)' /\ EntriesOK(disk, txs)'
      BY <2>1 DEF IInv, TxsOK, EntriesOK, EntryOK
    <2>. QED
      BY <2>2, <2>3 DEF IInv
  <1>2. CASE Next
    BY <1>2, PassKeeps, TimeKeeps, WaitKeeps, ReconcileKeeps, FailureKeeps, BroadcastKeeps DEF Next
  <1>. QED
    BY <1>1, <1>2

\* The invariant holds in every state the relay reaches.
LEMMA Invariant ==
    ASSUME RelayAssumption
    PROVE  Spec => []IInv
  <1>1. Init => IInv
    BY InitHolds
  <1>2. IInv /\ [Next]_vars => IInv'
    BY NextKeeps
  <1>. QED
    BY <1>1, <1>2, PTL DEF Spec

-----------------------------------------------------------------------------
(* One bond per invocation *)

\* The transactions of one invocation can be counted.
LEMMA SentFinite ==
    ASSUME IInv, NEW i
    PROVE  IsFiniteSet(Sent(i)) /\ Cardinality(Sent(i)) \in Nat
  <1>1. txs \in Seq(Transaction)
    BY DEF IInv, TypeOK
  <1>2. Len(txs) \in Nat /\ DOMAIN txs = 1..Len(txs)
    BY <1>1
  <1>3. IsFiniteSet(1..Len(txs))
    BY <1>2, FS_Interval
  <1>4. Sent(i) \subseteq 1..Len(txs)
    BY <1>2 DEF Sent
  <1>5. IsFiniteSet(Sent(i))
    BY <1>3, <1>4, FS_Subset
  <1>. QED
    BY <1>5, FS_CardinalityType

\* The facts of an entry in memory.
LEMMA EntryFacts ==
    ASSUME RelayAssumption, IInv, NEW i \in Invocations
    PROVE  /\ mem[i].failures \in Nat /\ mem[i].failures <= MaxFailures
           /\ mem[i].hash # 0 => mem[i].hash \in DOMAIN txs /\ txs[mem[i].hash].inv = i /\ mem[i].failures < MaxFailures
  <1>1. EntryOK(mem[i], i, txs) /\ mem[i] \in LedgerRecord
    BY DEF IInv, EntriesOK, EntryOK
  <1>2. mem[i].failures \in 0..MaxFailures
    BY <1>1 DEF LedgerRecord
  <1>. QED
    BY <1>1, <1>2 DEF EntryOK, RelayAssumption

\* The step of a transaction in the ledger: who sent it is an invocation.
LEMMA SentBy ==
    ASSUME IInv, NEW n \in DOMAIN txs
    PROVE  txs[n].inv \in Invocations
  <1>1. txs[n] \in Transaction
    BY DEF IInv, TypeOK
  <1>. QED
    BY <1>1 DEF Transaction

\* Without hidden broadcasts every step keeps the ledger's account of what may
\* still be executed.
LEMMA AloneKept ==
    ASSUME RelayAssumption, PatienceAssumption, ~Lossy, ~Ambiguous, IInv, Alone, [Next]_vars
    PROVE  Alone'
  <1>1. CASE StartPass \/ ReconcileDone \/ Persist \/ PersistFails \/ WaitTimesOut \/ EndPass \/ UNCHANGED vars
    BY <1>1 DEF StartPass, ReconcileDone, Persist, PersistFails, WaitTimesOut, EndPass, vars, Alone
  <1>2. CASE Restart
    <2>1. OnDisk /\ mem' = disk /\ txs' = txs
      BY <1>2 DEF Restart
    <2>2. ASSUME NEW n \in DOMAIN txs, txs[n].state \in {"pool", "ok"}
          PROVE  disk[txs[n].inv].hash = n
      <3>1. txs[n].inv \in Invocations /\ mem[txs[n].inv].hash = n
        BY <2>2, SentBy DEF Alone
      <3>2. n # 0
        BY <2>2 DEF IInv, TypeOK
      <3>. QED
        BY <2>1, <3>1, <3>2 DEF OnDisk
    <2>. QED
      BY <2>1, <2>2 DEF Alone
  <1>3. CASE Block \/ Tick
    <2>1. /\ mem' = mem /\ DOMAIN txs' = DOMAIN txs /\ Grows(txs, txs')
          /\ \A n \in DOMAIN txs : txs'[n].state \in {"pool", "ok"} => txs[n].state \in {"pool", "ok"}
      BY <1>3, BlockGrows, TickGrows DEF Block, Tick
    <2>. QED
      BY <2>1 DEF Alone, Grows
  <1>4. ASSUME NEW i \in Invocations, Settled(i)
        PROVE  Alone'
    <2>1. ASSUME NEW n \in DOMAIN txs, txs[n].state \in {"pool", "ok"}
          PROVE  mem'[txs[n].inv].hash = n
      <3>1. mem[txs[n].inv].hash = n /\ txs[n].inv \in Invocations
        BY <2>1, SentBy DEF Alone
      <3>. QED
        BY <1>4, <2>1, <3>1 DEF Settled
    <2>. QED
      BY <1>4, <2>1 DEF Alone, Settled
  <1>5. ASSUME NEW i \in Invocations, BroadcastFails(i)
        PROVE  Alone'
    <2>1. txs' = txs /\ \A j \in Invocations : mem'[j].hash = mem[j].hash
      BY <1>5, FailureKeeps
    <2>. QED
      BY <2>1, SentBy DEF Alone
  <1>6. ASSUME NEW i \in Invocations, Broadcast(i)
        PROVE  Alone'
    <2>1. /\ Len(txs) < MaxTxs /\ txs' = Arrived(i) /\ mem[i].hash = 0 /\ mem'[i].hash = Len(txs) + 1
          /\ \A j \in Invocations \ {i} : mem'[j] = mem[j]
      BY <1>6, BroadcastKeeps
    <2>2. /\ DOMAIN txs' = 1..(Len(txs) + 1) /\ txs'[Len(txs) + 1].inv = i
          /\ \A n \in DOMAIN txs : txs'[n] = txs[n]
      BY <2>1, Arrives
    <2>3. Len(txs) \in Nat /\ DOMAIN txs = 1..Len(txs)
      BY DEF IInv, TypeOK
    <2>4. ASSUME NEW n \in DOMAIN txs, txs[n].state \in {"pool", "ok"}
          PROVE  mem'[txs[n].inv].hash = n
      <3>1. mem[txs[n].inv].hash = n /\ txs[n].inv \in Invocations /\ n # 0
        BY <2>3, <2>4, SentBy DEF Alone
      <3>2. txs[n].inv # i
        BY <2>1, <3>1
      <3>. QED
        BY <2>1, <3>1, <3>2
    <2>5. \A n \in DOMAIN txs' : n \in DOMAIN txs \/ n = Len(txs) + 1
      BY <2>2, <2>3
    <2>. QED
      BY <2>1, <2>2, <2>4, <2>5 DEF Alone
  <1>7. CASE WaitForInclusion
    BY <1>4, <1>7, WaitKeeps
  <1>8. ASSUME NEW i \in Invocations, ReconcilePending(i)
        PROVE  Alone'
    BY <1>4, <1>8, ReconcileKeeps
  <1>. QED
    BY <1>1, <1>2, <1>3, <1>5, <1>6, <1>7, <1>8 DEF Next

\* And of how many it has sent.
LEMMA CountKept ==
    ASSUME RelayAssumption, ~Lossy, ~Ambiguous, IInv, Counted, [Next]_vars
    PROVE  Counted'
  <1>1. CASE StartPass \/ ReconcileDone \/ Persist \/ PersistFails \/ WaitTimesOut \/ EndPass \/ UNCHANGED vars
    BY <1>1 DEF StartPass, ReconcileDone, Persist, PersistFails, WaitTimesOut, EndPass, vars, Counted, Sent
  <1>2. CASE Restart
    BY <1>2 DEF Restart, OnDisk, Counted, Sent
  <1>3. CASE Block \/ Tick
    <2>1. mem' = mem /\ DOMAIN txs' = DOMAIN txs /\ Grows(txs, txs')
      BY <1>3, BlockGrows, TickGrows DEF Block, Tick
    <2>2. \A i \in Invocations : Sent(i)' = Sent(i)
      BY <2>1 DEF Sent, Grows
    <2>. QED
      BY <2>1, <2>2 DEF Counted
  <1>4. ASSUME NEW i \in Invocations, Settled(i)
        PROVE  Counted'
    <2>1. \A j \in Invocations : Sent(j)' = Sent(j)
      BY <1>4 DEF Settled, Sent
    <2>2. Cardinality(Sent(i)) \in Nat /\ mem[i].failures \in Nat /\ mem[i].hash # 0
      BY <1>4, SentFinite, EntryFacts DEF Settled, IInv, TypeOK
    <2>3. Cardinality(Sent(i)) <= mem[i].failures + 1
      BY <2>2 DEF Counted
    <2>4. Cardinality(Sent(i)) <= mem'[i].failures + (IF mem'[i].hash = 0 THEN 0 ELSE 1)
      BY <1>4, <2>2, <2>3 DEF Settled
    <2>5. \A j \in Invocations \ {i} : Cardinality(Sent(j)) <= mem'[j].failures + (IF mem'[j].hash = 0 THEN 0 ELSE 1)
      BY <1>4 DEF Settled, Counted
    <2>. QED
      BY <2>1, <2>4, <2>5 DEF Counted
  <1>5. ASSUME NEW i \in Invocations, BroadcastFails(i)
        PROVE  Counted'
    <2>1. /\ txs' = txs /\ mem[i].hash = 0 /\ mem'[i].hash = 0 /\ mem'[i].failures = mem[i].failures + 1
          /\ \A j \in Invocations \ {i} : mem'[j] = mem[j]
      BY <1>5, FailureKeeps
    <2>2. Cardinality(Sent(i)) \in Nat /\ mem[i].failures \in Nat /\ Cardinality(Sent(i)) <= mem[i].failures
      BY <2>1, SentFinite, EntryFacts DEF Counted
    <2>3. \A j \in Invocations : Cardinality(Sent(j)) <= mem'[j].failures + (IF mem'[j].hash = 0 THEN 0 ELSE 1)
      BY <2>1, <2>2 DEF Counted
    <2>. QED
      BY <2>1, <2>3 DEF Counted, Sent
  <1>6. ASSUME NEW i \in Invocations, Broadcast(i)
        PROVE  Counted'
    <2>1. /\ Len(txs) < MaxTxs /\ txs' = Arrived(i) /\ mem[i].hash = 0 /\ mem'[i].hash = Len(txs) + 1
          /\ mem'[i].failures = mem[i].failures
          /\ \A j \in Invocations \ {i} : mem'[j] = mem[j]
      BY <1>6, BroadcastKeeps
    <2>2. /\ DOMAIN txs' = 1..(Len(txs) + 1) /\ txs'[Len(txs) + 1].inv = i
          /\ \A n \in DOMAIN txs : txs'[n] = txs[n]
      BY <2>1, Arrives
    <2>3. Len(txs) \in Nat /\ DOMAIN txs = 1..Len(txs) /\ Len(txs) + 1 \notin DOMAIN txs /\ Len(txs) + 1 # 0
      BY DEF IInv, TypeOK
    <2>4. Sent(i)' = Sent(i) \cup {Len(txs) + 1} /\ Len(txs) + 1 \notin Sent(i)
      BY <2>2, <2>3 DEF Sent
    <2>5. \A j \in Invocations \ {i} : Sent(j)' = Sent(j)
      BY <2>2, <2>3 DEF Sent
    <2>6. Cardinality(Sent(i)') = Cardinality(Sent(i)) + 1
      BY <2>4, SentFinite, FS_AddElement
    <2>7. Cardinality(Sent(i)) \in Nat /\ mem[i].failures \in Nat /\ Cardinality(Sent(i)) <= mem[i].failures
      BY <2>1, SentFinite, EntryFacts DEF Counted
    <2>8. Cardinality(Sent(i)') <= mem'[i].failures + 1
      BY <2>1, <2>6, <2>7
    <2>9. \A j \in Invocations \ {i} : Cardinality(Sent(j)') <= mem'[j].failures + (IF mem'[j].hash = 0 THEN 0 ELSE 1)
      BY <2>1, <2>5 DEF Counted
    <2>. QED
      BY <2>1, <2>3, <2>8, <2>9 DEF Counted
  <1>7. CASE WaitForInclusion
    BY <1>4, <1>7, WaitKeeps
  <1>8. ASSUME NEW i \in Invocations, ReconcilePending(i)
        PROVE  Counted'
    BY <1>4, <1>8, ReconcileKeeps
  <1>. QED
    BY <1>1, <1>2, <1>3, <1>5, <1>6, <1>7, <1>8 DEF Next

-----------------------------------------------------------------------------
(* Results *)

\* Type correctness of the relay: every entry has the fields of an AttestRecord,
\* never more failures than park it, and a status exactly when it has a hash.
THEOREM TypeCorrect ==
    ASSUME RelayAssumption
    PROVE  Spec => []TypeOK
  <1>1. IInv => TypeOK
    BY DEF IInv
  <1>. QED
    BY <1>1, Invariant, PTL

\* What the ledger calls attested was attested by that transaction, in memory and
\* on disk, through crashes, failed writes and answers that were lost.
THEOREM AttestedWasAttested ==
    ASSUME RelayAssumption
    PROVE  Spec => []AttestedIsTrue
  <1>1. IInv => AttestedIsTrue
    <2>. SUFFICES ASSUME IInv, NEW i \in Invocations, NEW rec \in {mem[i], disk[i]}, rec.status = "attested"
                  PROVE  txs[rec.hash].inv = i /\ txs[rec.hash].state = "ok"
      BY DEF AttestedIsTrue
    <2>1. EntryOK(rec, i, txs)
      BY DEF IInv, EntriesOK
    <2>. QED
      BY <2>1 DEF EntryOK
  <1>. QED
    BY <1>1, Invariant, PTL

\* As long as no broadcast is hidden from the ledger and the limits of
\* decideReconcile outlast the mempool, a resubmission never races the first
\* transaction: one bond per invocation, through restarts, failed writes and late
\* executions.
THEOREM OneBond ==
    ASSUME RelayAssumption, PatienceAssumption, ~Lossy, ~Ambiguous
    PROVE  Spec => []NoDoubleBond
  <1>1. Init => Alone
    BY InitHolds
  <1>2. IInv /\ Alone /\ [Next]_vars => Alone'
    BY AloneKept
  <1>3. Alone => NoDoubleBond
    BY DEF Alone, NoDoubleBond
  <1>4. Spec => []IInv
    BY Invariant
  <1>. QED
    BY <1>1, <1>2, <1>3, <1>4, PTL DEF Spec

\* As long as no broadcast is hidden from the ledger, no invocation is submitted
\* more often than the failures that park it.
THEOREM SubmittedRarely ==
    ASSUME RelayAssumption, ~Lossy, ~Ambiguous
    PROVE  Spec => []SubmissionsBounded
  <1>1. Init => Counted
    BY InitHolds
  <1>2. IInv /\ Counted /\ [Next]_vars => Counted'
    BY CountKept
  <1>3. IInv /\ Counted => SubmissionsBounded
    <2>. SUFFICES ASSUME IInv, Counted, NEW i \in Invocations
                  PROVE  Cardinality(Sent(i)) <= MaxFailures
      BY DEF SubmissionsBounded
    <2>1. /\ Cardinality(Sent(i)) \in Nat /\ mem[i].failures \in Nat /\ mem[i].failures <= MaxFailures
          /\ mem[i].hash # 0 => mem[i].failures < MaxFailures
      BY SentFinite, EntryFacts
    <2>2. Cardinality(Sent(i)) <= mem[i].failures + (IF mem[i].hash = 0 THEN 0 ELSE 1)
      BY DEF Counted
    <2>. QED
      BY <2>1, <2>2 DEF RelayAssumption
  <1>4. Spec => []IInv
    BY Invariant
  <1>. QED
    BY <1>1, <1>2, <1>3, <1>4, PTL DEF Spec

\* The relay's promise as a whole, with and without broadcasts that are hidden
\* from the ledger, for every retention of the mempool that the limits outlast.
THEOREM RelayKeepsItsPromise ==
    ASSUME RelayAssumption, PatienceAssumption
    PROVE  Spec => []InvocationBondsOnce
  <1>1. CASE ~Lossy /\ ~Ambiguous
    <2>1. TypeOK /\ AttestedIsTrue /\ NoDoubleBond /\ SubmissionsBounded => InvocationBondsOnce
      BY DEF InvocationBondsOnce
    <2>2. Spec => []NoDoubleBond
      BY <1>1, OneBond
    <2>3. Spec => []SubmissionsBounded
      BY <1>1, SubmittedRarely
    <2>. QED
      BY <2>1, <2>2, <2>3, TypeCorrect, AttestedWasAttested, PTL
  <1>2. CASE ~(~Lossy /\ ~Ambiguous)
    <2>1. TypeOK /\ AttestedIsTrue => InvocationBondsOnce
      BY <1>2 DEF InvocationBondsOnce
    <2>. QED
      BY <2>1, TypeCorrect, AttestedWasAttested, PTL
  <1>. QED
    BY <1>1, <1>2


-----------------------------------------------------------------------------
(* The inductive invariant *)

\* What one address has: an account, the block of its last rotation and the
\* rotations it executed, of which there are as many as key generations ended.
HistoryOK(acc, rots) ==
    /\ Len(rots) = acc.version - 1
    /\ \A i \in 1 .. Len(rots) : rots[i].by.version = i
    /\ \A i \in 2 .. Len(rots) : rots[i].at >= rots[i-1].at + rots[i].wait

AccountOK(acc, last, rots, now, meta) ==
    /\ acc.meta <= meta /\ acc.created <= acc.active /\ acc.active <= now
    /\ acc.version = 1 => acc.key = acc.identity
    /\ acc.version > 1 <=> last > 0
    /\ last > 0 => last \in acc.created .. acc.active /\ rots[Len(rots)].at = last
    /\ HistoryOK(acc, rots)

RowOK(acc, last, rots, now, meta) ==
    /\ acc = None => last = 0 /\ rots = <<>>
    /\ acc # None => AccountOK(acc, last, rots, now, meta)

Rows == \A a \in Addresses : RowOK(accounts[a], lastRotation[a], rotated[a], height, params.meta)

\* DIDs and accounts match one to one.
Directory ==
    /\ \A k \in Keys : dids[k] # None => dids[k] \in Addresses /\ accounts[dids[k]] # None
                                         /\ accounts[dids[k]].identity = k
    /\ \A a \in Addresses : accounts[a] # None => dids[accounts[a].identity] = a

DirectoryInv == Registry!TypeOK /\ Rows /\ Directory

\* The invariant gives what is checked of every state.
LEMMA InvariantSafe ==
    ASSUME Registry!AccountsAssumption, DirectoryInv
    PROVE  Registry!AccountsSafe
  <1>1. Registry!ExportAccepted
    <2>1. \A a \in Registry!Known : RowOK(accounts[a], lastRotation[a], rotated[a], height, params.meta)
      BY DEF DirectoryInv, Rows, Registry!Known
    <2>2. \A a \in Registry!Known : AccountOK(accounts[a], lastRotation[a], rotated[a], height, params.meta)
      BY <2>1 DEF RowOK, Registry!Known
    <2>3. \A a \in Registry!Known : accounts[a] \in Registry!Account
      BY DEF DirectoryInv, Registry!TypeOK, Registry!Known
    <2>4. \A a \in Registry!Known : /\ accounts[a].meta <= params.meta
                                    /\ accounts[a].active >= accounts[a].created
                                    /\ accounts[a].version = 1 => accounts[a].key = accounts[a].identity
                                    /\ accounts[a].version > 1 <=> lastRotation[a] > 0
                                    /\ lastRotation[a] > 0 => lastRotation[a] \in accounts[a].created .. accounts[a].active
      BY <2>2, <2>3 DEF AccountOK, Registry!Account
    <2>5. \A k \in Keys : dids[k] # None => dids[k] \in Registry!Known /\ accounts[dids[k]].identity = k
      BY DEF DirectoryInv, Directory, Registry!Known
    <2>6. \A a \in Registry!Known : dids[accounts[a].identity] = a
      BY DEF DirectoryInv, Directory, Registry!Known
    <2>. QED
      BY <2>4, <2>5, <2>6 DEF Registry!ExportAccepted
  <1>2. \A a \in Addresses : /\ rotated[a] \in Seq(Registry!Rotation)
                             /\ \A i \in 1 .. Len(rotated[a]) : rotated[a][i].by.version = i
                             /\ \A i \in 2 .. Len(rotated[a]) :
                                   rotated[a][i].at >= rotated[a][i-1].at + rotated[a][i].wait
    <2>. SUFFICES ASSUME NEW a \in Addresses
                  PROVE  /\ rotated[a] \in Seq(Registry!Rotation)
                         /\ \A i \in 1 .. Len(rotated[a]) : rotated[a][i].by.version = i
                         /\ \A i \in 2 .. Len(rotated[a]) :
                               rotated[a][i].at >= rotated[a][i-1].at + rotated[a][i].wait
      OBVIOUS
    <2>1. rotated[a] \in Seq(Registry!Rotation)
      BY DEF DirectoryInv, Registry!TypeOK
    <2>2. RowOK(accounts[a], lastRotation[a], rotated[a], height, params.meta)
      BY DEF DirectoryInv, Rows
    <2>3. CASE accounts[a] = None
      <3>1. Len(rotated[a]) = 0
        BY <2>2, <2>3 DEF RowOK
      <3>. QED
        BY <2>1, <3>1
    <2>4. CASE accounts[a] # None
      BY <2>1, <2>2, <2>4 DEF RowOK, AccountOK, HistoryOK
    <2>. QED
      BY <2>3, <2>4
  <1>3. Registry!AuthorizationUsedOnce
    <2>1. \A a \in Addresses : DOMAIN rotated[a] = 1 .. Len(rotated[a])
      BY <1>2
    <2>. QED
      BY <1>2, <2>1 DEF Registry!AuthorizationUsedOnce
  <1>4. Registry!RotationsSpaced
    BY <1>2 DEF Registry!RotationsSpaced
  <1>. QED
    BY <1>1, <1>3, <1>4 DEF Registry!AccountsSafe, DirectoryInv

-----------------------------------------------------------------------------
(* The steps *)

\* One address gets a new row and keeps its identity.
LEMMA RowStep ==
    ASSUME Registry!AccountsAssumption, DirectoryInv, NEW a \in Addresses, NEW new \in Registry!Account,
           accounts[a] # None, new.identity = accounts[a].identity,
           accounts' = [accounts EXCEPT ![a] = new],
           NEW last \in 0 .. MaxHeight, lastRotation' = [lastRotation EXCEPT ![a] = last],
           NEW rots \in Seq(Registry!Rotation), rotated' = [rotated EXCEPT ![a] = rots],
           AccountOK(new, last, rots, height, params.meta),
           UNCHANGED <<dids, params, signed, height>>
    PROVE  DirectoryInv'
  <1>1. /\ accounts \in [Addresses -> {None} \cup Registry!Account] /\ None \notin Registry!Account
        /\ dids \in [Keys -> Addresses \cup {None}]
        /\ lastRotation \in [Addresses -> 0 .. MaxHeight] /\ rotated \in [Addresses -> Seq(Registry!Rotation)]
    BY DEF DirectoryInv, Registry!TypeOK, Registry!AccountsAssumption
  <1>2. /\ accounts' \in [Addresses -> {None} \cup Registry!Account]
        /\ lastRotation' \in [Addresses -> 0 .. MaxHeight] /\ rotated' \in [Addresses -> Seq(Registry!Rotation)]
        /\ \A b \in Addresses : /\ accounts'[b] = IF b = a THEN new ELSE accounts[b]
                                /\ lastRotation'[b] = IF b = a THEN last ELSE lastRotation[b]
                                /\ rotated'[b] = IF b = a THEN rots ELSE rotated[b]
    BY <1>1
  <1>3. Registry!TypeOK'
    BY <1>2 DEF DirectoryInv, Registry!TypeOK
  <1>4. Rows'
    <2>. SUFFICES ASSUME NEW b \in Addresses
                  PROVE  RowOK(accounts'[b], lastRotation'[b], rotated'[b], height', params'.meta)
      BY DEF Rows, RowOK, AccountOK, HistoryOK
    <2>1. height' = height /\ params'.meta = params.meta
      OBVIOUS
    <2>2. CASE b = a
      <3>1. RowOK(new, last, rots, height, params.meta)
        BY <1>1 DEF RowOK
      <3>. QED
        BY <1>2, <2>1, <2>2, <3>1
    <2>3. CASE b # a
      BY <1>2, <2>1, <2>3 DEF DirectoryInv, Rows
    <2>. QED
      BY <2>2, <2>3
  <1>5. Directory'
    BY <1>1, <1>2 DEF DirectoryInv, Directory
  <1>. QED
    BY <1>3, <1>4, <1>5 DEF DirectoryInv

\* An account changes its activity or its freezing alone.
LEMMA TouchStep ==
    ASSUME Registry!AccountsAssumption, DirectoryInv, NEW a \in Addresses, NEW new \in Registry!Account, accounts[a] # None,
           new.identity = accounts[a].identity, new.key = accounts[a].key,
           new.version = accounts[a].version, new.created = accounts[a].created,
           new.meta = accounts[a].meta, new.active \in {accounts[a].active, height},
           accounts' = [accounts EXCEPT ![a] = new],
           UNCHANGED <<dids, lastRotation, params, signed, rotated, height>>
    PROVE  DirectoryInv'
  <1>1. /\ lastRotation \in [Addresses -> 0 .. MaxHeight] /\ rotated \in [Addresses -> Seq(Registry!Rotation)]
        /\ accounts[a] \in Registry!Account /\ height \in 1 .. MaxHeight /\ MaxHeight \in Nat
    BY DEF DirectoryInv, Registry!TypeOK, Registry!AccountsAssumption
  <1>2. /\ lastRotation' = [lastRotation EXCEPT ![a] = lastRotation[a]]
        /\ rotated' = [rotated EXCEPT ![a] = rotated[a]]
        /\ lastRotation[a] \in 0 .. MaxHeight /\ rotated[a] \in Seq(Registry!Rotation)
    BY <1>1
  <1>3. AccountOK(accounts[a], lastRotation[a], rotated[a], height, params.meta)
    BY DEF DirectoryInv, Rows, RowOK
  <1>4. HistoryOK(new, rotated[a])
    BY <1>3 DEF AccountOK, HistoryOK
  <1>5. /\ accounts[a].created \in Nat /\ accounts[a].active \in Nat
        /\ new.created <= new.active /\ new.active <= height /\ accounts[a].active <= new.active
        /\ new.created \in Nat /\ new.active \in Nat
    BY <1>1, <1>3 DEF AccountOK, Registry!Account
  <1>6. AccountOK(new, lastRotation[a], rotated[a], height, params.meta)
    <2>1. lastRotation[a] > 0 => lastRotation[a] \in new.created .. new.active
      BY <1>2, <1>3, <1>5 DEF AccountOK
    <2>. QED
      BY <1>3, <1>4, <1>5, <2>1 DEF AccountOK
  <1>. QED
    BY <1>2, <1>6, RowStep

\* ZeroneAccountDecorator notes the activity of a registered signer.
LEMMA NotedRecord ==
    ASSUME Registry!AccountsAssumption, DirectoryInv, NEW a \in Addresses, accounts[a] # None, NEW authz \in BOOLEAN
    PROVE  LET new == Registry!Noted(a, authz)
           IN  /\ new \in Registry!Account /\ new.identity = accounts[a].identity /\ new.key = accounts[a].key
               /\ new.version = accounts[a].version /\ new.created = accounts[a].created
               /\ new.meta = accounts[a].meta /\ new.active \in {accounts[a].active, height}
  <1>1. accounts[a] \in Registry!Account /\ height \in 1 .. MaxHeight
    BY DEF DirectoryInv, Registry!TypeOK
  <1>2. CASE authz
    BY <1>1, <1>2 DEF Registry!Noted
  <1>3. CASE ~authz
    <2>1. Registry!Noted(a, authz) = [accounts[a] EXCEPT !.active = height]
      BY <1>3 DEF Registry!Noted
    <2>. QED
      BY <1>1, <2>1 DEF Registry!Account
  <1>. QED
    BY <1>2, <1>3

\* A transaction that runs none of these messages.
LEMMA OtherKeeps ==
    ASSUME Registry!AccountsAssumption, DirectoryInv, NEW a \in Addresses, NEW granter \in Addresses,
           Registry!OtherTransaction(a, granter)
    PROVE  DirectoryInv'
  <1>1. /\ accounts' = [accounts EXCEPT ![a] = Registry!Noted(a, FALSE)]
        /\ UNCHANGED <<dids, lastRotation, params, signed, rotated, height>>
    BY DEF Registry!OtherTransaction
  <1>2. CASE accounts[a] = None
    <2>1. accounts' = accounts
      BY <1>1, <1>2 DEF Registry!Noted, DirectoryInv, Registry!TypeOK
    <2>. QED
      BY <1>1, <2>1 DEF DirectoryInv, Registry!TypeOK, Rows, Directory
  <1>3. CASE accounts[a] # None
    <2>. DEFINE new == Registry!Noted(a, FALSE)
    <2>1. /\ new \in Registry!Account /\ new.identity = accounts[a].identity /\ new.key = accounts[a].key
          /\ new.version = accounts[a].version /\ new.created = accounts[a].created
          /\ new.meta = accounts[a].meta /\ new.active \in {accounts[a].active, height}
      BY <1>3, NotedRecord
    <2>2. accounts' = [accounts EXCEPT ![a] = new]
      BY <1>1
    <2>. HIDE DEF new
    <2>. QED
      BY <1>1, <1>3, <2>1, <2>2, TouchStep
  <1>. QED
    BY <1>2, <1>3

\* FreezeAccount, by the owner or by the authority.
LEMMA FreezeKeeps ==
    ASSUME Registry!AccountsAssumption, DirectoryInv, NEW a \in Addresses, NEW authz \in BOOLEAN, Registry!FreezeAccount(a, authz)
    PROVE  DirectoryInv'
  <1>. DEFINE mid == Registry!Noted(a, authz)
              new == [mid EXCEPT !.frozen = TRUE]
  <1>1. /\ accounts' = [accounts EXCEPT ![a] = new] /\ accounts[a] # None
        /\ UNCHANGED <<dids, lastRotation, params, signed, rotated, height>>
    BY DEF Registry!FreezeAccount
  <1>2. /\ mid \in Registry!Account /\ mid.identity = accounts[a].identity /\ mid.key = accounts[a].key
        /\ mid.version = accounts[a].version /\ mid.created = accounts[a].created
        /\ mid.meta = accounts[a].meta /\ mid.active \in {accounts[a].active, height}
    BY <1>1, NotedRecord
  <1>. HIDE DEF mid
  <1>3. /\ new \in Registry!Account /\ new.identity = mid.identity /\ new.key = mid.key
        /\ new.version = mid.version /\ new.created = mid.created /\ new.meta = mid.meta
        /\ new.active = mid.active
    BY <1>2 DEF Registry!Account
  <1>. HIDE DEF new
  <1>. QED
    BY <1>1, <1>2, <1>3, TouchStep

\* UnfreezeAccount, by the authority.
LEMMA UnfreezeKeeps ==
    ASSUME Registry!AccountsAssumption, DirectoryInv, NEW a \in Addresses, Registry!UnfreezeAccount(a)
    PROVE  DirectoryInv'
  <1>. DEFINE old == accounts[a]
              new == [old EXCEPT !.frozen = FALSE]
  <1>1. /\ accounts' = [accounts EXCEPT ![a] = new] /\ old # None
        /\ UNCHANGED <<dids, lastRotation, params, signed, rotated, height>>
    BY DEF Registry!UnfreezeAccount, Registry!Frozen
  <1>2. old \in Registry!Account
    BY <1>1 DEF DirectoryInv, Registry!TypeOK
  <1>. HIDE DEF old
  <1>3. /\ new \in Registry!Account /\ new.identity = old.identity /\ new.key = old.key
        /\ new.version = old.version /\ new.created = old.created /\ new.meta = old.meta
        /\ new.active = old.active
    BY <1>2 DEF Registry!Account
  <1>. HIDE DEF new
  <1>. QED
    BY <1>1, <1>3, TouchStep DEF old

\* One more rotation, of the current generation and after the cool-down.
LEMMA HistoryGrows ==
    ASSUME NEW acc \in Registry!Account, NEW rots \in Seq(Registry!Rotation), NEW r \in Registry!Rotation, NEW last \in Nat,
           MaxVersion \in Nat, HistoryOK(acc, rots), r.by.version = acc.version,
           acc.version > 1 => rots[Len(rots)].at = last /\ r.at >= last + r.wait,
           NEW new \in Registry!Account, new.version = acc.version + 1
    PROVE  /\ Append(rots, r) \in Seq(Registry!Rotation)
           /\ HistoryOK(new, Append(rots, r))
           /\ Append(rots, r)[Len(Append(rots, r))] = r
  <1>. DEFINE more == Append(rots, r)
  <1>1. /\ more \in Seq(Registry!Rotation) /\ Len(more) = Len(rots) + 1 /\ Len(rots) \in Nat
        /\ \A i \in 1 .. Len(rots) : more[i] = rots[i]
        /\ more[Len(rots) + 1] = r
    OBVIOUS
  <1>2. acc.version \in Nat /\ Len(rots) = acc.version - 1
    BY DEF Registry!Account, HistoryOK
  <1>. HIDE DEF more
  <1>3. Len(more) = new.version - 1
    BY <1>1, <1>2
  <1>4. \A i \in 1 .. Len(more) : more[i].by.version = i
    <2>. SUFFICES ASSUME NEW i \in 1 .. Len(more)
                  PROVE  more[i].by.version = i
      OBVIOUS
    <2>1. CASE i \in 1 .. Len(rots)
      BY <1>1, <2>1 DEF HistoryOK
    <2>2. CASE i = Len(rots) + 1
      BY <1>1, <1>2, <2>2
    <2>. QED
      BY <1>1, <2>1, <2>2
  <1>5. \A i \in 2 .. Len(more) : more[i].at >= more[i-1].at + more[i].wait
    <2>. SUFFICES ASSUME NEW i \in 2 .. Len(more)
                  PROVE  more[i].at >= more[i-1].at + more[i].wait
      OBVIOUS
    <2>1. i - 1 \in 1 .. Len(rots) /\ more[i-1] = rots[i-1]
      BY <1>1
    <2>2. CASE i \in 2 .. Len(rots)
      BY <1>1, <2>1, <2>2 DEF HistoryOK
    <2>3. CASE i = Len(rots) + 1
      <3>1. acc.version > 1 /\ i - 1 = Len(rots) /\ more[i] = r
        BY <1>1, <1>2, <2>3
      <3>. QED
        BY <2>1, <3>1
    <2>. QED
      BY <1>1, <2>2, <2>3
  <1>. QED
    BY <1>1, <1>3, <1>4, <1>5 DEF HistoryOK, more

\* RotateKey: the authorization is of the current generation and ends it.
LEMMA RotateKeeps ==
    ASSUME Registry!AccountsAssumption, DirectoryInv, NEW a \in Addresses, NEW s \in signed, NEW authz \in BOOLEAN,
           Registry!RotateKey(a, s, authz)
    PROVE  DirectoryInv'
  <1>. DEFINE old == accounts[a]
              new == [old EXCEPT !.key = s.new, !.version = old.version + 1, !.active = height]
              r == [by |-> s, at |-> height, wait |-> params.cooldown]
              rots == Append(rotated[a], r)
              last == lastRotation[a]
  <1>1. /\ old # None /\ old.version < MaxVersion /\ s.version = old.version /\ s.new # old.key
        /\ last > 0 => height >= last + params.cooldown
        /\ accounts' = [accounts EXCEPT ![a] = new]
        /\ lastRotation' = [lastRotation EXCEPT ![a] = height]
        /\ rotated' = [rotated EXCEPT ![a] = rots]
        /\ UNCHANGED <<dids, params, signed, height>>
    BY DEF Registry!RotateKey, Registry!MayRotate, Registry!Rotated, DirectoryInv, Registry!TypeOK
  <1>2. /\ old \in Registry!Account /\ s \in Registry!Authorization /\ height \in 1 .. MaxHeight /\ MaxHeight \in Nat
        /\ rotated[a] \in Seq(Registry!Rotation) /\ last \in 0 .. MaxHeight /\ MaxVersion \in Nat
        /\ params \in Settings
    BY <1>1 DEF DirectoryInv, Registry!TypeOK, Registry!AccountsAssumption
  <1>3. params.cooldown \in Nat
    BY <1>2 DEF Registry!AccountsAssumption
  <1>4. r \in Registry!Rotation /\ r.by = s /\ r.at = height /\ r.wait = params.cooldown
    BY <1>2, <1>3 DEF Registry!Rotation
  <1>5. AccountOK(old, last, rotated[a], height, params.meta)
    BY <1>1 DEF DirectoryInv, Rows, RowOK
  <1>. HIDE DEF old, r, last
  <1>6. /\ new \in Registry!Account /\ new.identity = old.identity /\ new.version = old.version + 1
        /\ new.created = old.created /\ new.meta = old.meta /\ new.active = height
    <2>1. old.version + 1 \in 1 .. MaxVersion /\ s.new \in Keys
      BY <1>1, <1>2 DEF Registry!Account, Registry!Authorization
    <2>. QED
      BY <1>2, <2>1 DEF Registry!Account
  <1>. HIDE DEF new
  <1>7. HistoryOK(old, rotated[a]) /\ (old.version > 1 => rotated[a][Len(rotated[a])].at = last)
        /\ (old.version > 1 => last > 0) /\ old.created <= old.active /\ old.active <= height
        /\ old.meta <= params.meta
    BY <1>2, <1>5 DEF AccountOK
  <1>8. rots \in Seq(Registry!Rotation) /\ HistoryOK(new, rots) /\ rots[Len(rots)] = r
    <2>1. old \in Registry!Account /\ rotated[a] \in Seq(Registry!Rotation) /\ r \in Registry!Rotation /\ last \in Nat /\ new \in Registry!Account
      BY <1>2, <1>4, <1>6
    <2>2. /\ MaxVersion \in Nat /\ HistoryOK(old, rotated[a]) /\ r.by.version = old.version
          /\ new.version = old.version + 1
      BY <1>1, <1>2, <1>4, <1>6, <1>7
    <2>3. old.version > 1 => rotated[a][Len(rotated[a])].at = last /\ r.at >= last + r.wait
      BY <1>1, <1>4, <1>7
    <2>. QED
      BY <2>1, <2>2, <2>3, HistoryGrows
  <1>. HIDE DEF rots
  <1>9. AccountOK(new, height, rots, height, params.meta)
    <2>1. old.created \in Nat /\ old.active \in Nat /\ height \in Nat \ {0} /\ old.version \in Nat \ {0}
      BY <1>2 DEF Registry!Account
    <2>. QED
      BY <1>4, <1>6, <1>7, <1>8, <2>1 DEF AccountOK
  <1>. QED
    <2>1. height \in 0 .. MaxHeight
      BY <1>2
    <2>. QED
      BY <1>1, <1>6, <1>8, <1>9, <2>1, RowStep DEF old

\* RegisterAccount: address and identity key are both new.
LEMMA RegisterKeeps ==
    ASSUME Registry!AccountsAssumption, DirectoryInv, NEW a \in Addresses, NEW k \in Keys, NEW type \in Types,
           NEW len \in Lengths, Registry!RegisterAccount(a, k, type, len)
    PROVE  DirectoryInv'
  <1>. DEFINE new == Registry!NewAccount(k, type, len)
  <1>1. /\ accounts[a] = None /\ dids[k] = None /\ len <= params.meta
        /\ accounts' = [accounts EXCEPT ![a] = new]
        /\ dids' = [dids EXCEPT ![k] = a]
        /\ UNCHANGED <<lastRotation, params, signed, rotated, height>>
    BY DEF Registry!RegisterAccount
  <1>2. /\ accounts \in [Addresses -> {None} \cup Registry!Account] /\ None \notin Registry!Account /\ None \notin Addresses
        /\ dids \in [Keys -> Addresses \cup {None}] /\ height \in 1 .. MaxHeight
        /\ MaxVersion \in Nat /\ MaxVersion > 1 /\ MaxHeight \in Nat
    BY DEF DirectoryInv, Registry!TypeOK, Registry!AccountsAssumption
  <1>3. /\ new \in Registry!Account /\ new.identity = k /\ new.key = k /\ new.version = 1
        /\ new.created = height /\ new.active = height /\ new.meta = len
    BY <1>2 DEF Registry!NewAccount, Registry!Account
  <1>. HIDE DEF new
  <1>4. /\ accounts' \in [Addresses -> {None} \cup Registry!Account] /\ dids' \in [Keys -> Addresses \cup {None}]
        /\ \A b \in Addresses : accounts'[b] = IF b = a THEN new ELSE accounts[b]
        /\ \A x \in Keys : dids'[x] = IF x = k THEN a ELSE dids[x]
    BY <1>1, <1>2, <1>3
  <1>5. Registry!TypeOK'
    BY <1>1, <1>4 DEF DirectoryInv, Registry!TypeOK
  <1>6. Rows'
    <2>. SUFFICES ASSUME NEW b \in Addresses
                  PROVE  RowOK(accounts'[b], lastRotation[b], rotated[b], height, params.meta)
      BY <1>1 DEF Rows, RowOK, AccountOK, HistoryOK
    <2>1. CASE b = a
      <3>1. lastRotation[a] = 0 /\ rotated[a] = <<>>
        BY <1>1 DEF DirectoryInv, Rows, RowOK
      <3>2. AccountOK(new, 0, <<>>, height, params.meta)
        BY <1>1, <1>2, <1>3 DEF AccountOK, HistoryOK
      <3>. QED
        BY <1>2, <1>3, <1>4, <2>1, <3>1, <3>2 DEF RowOK
    <2>2. CASE b # a
      BY <1>4, <2>2 DEF DirectoryInv, Rows
    <2>. QED
      BY <2>1, <2>2
  <1>7. Directory'
    <2>1. \A x \in Keys : dids'[x] # None => dids'[x] \in Addresses /\ accounts'[dids'[x]] # None
                                             /\ accounts'[dids'[x]].identity = x
      BY <1>1, <1>2, <1>3, <1>4 DEF DirectoryInv, Directory
    <2>2. \A b \in Addresses : accounts'[b] # None => dids'[accounts'[b].identity] = b
      <3>. SUFFICES ASSUME NEW b \in Addresses, accounts'[b] # None
                    PROVE  dids'[accounts'[b].identity] = b
        OBVIOUS
      <3>1. CASE b = a
        BY <1>3, <1>4, <3>1
      <3>2. CASE b # a
        <4>1. accounts'[b] = accounts[b] /\ accounts[b] \in Registry!Account /\ accounts[b].identity \in Keys
          BY <1>2, <1>4, <3>2 DEF Registry!Account
        <4>2. dids[accounts[b].identity] = b /\ b # None
          BY <1>2, <4>1 DEF DirectoryInv, Directory
        <4>3. accounts[b].identity # k
          BY <1>1, <4>2
        <4>. QED
          BY <1>4, <4>1, <4>2, <4>3
      <3>. QED
        BY <3>1, <3>2
    <2>. QED
      BY <2>1, <2>2 DEF Directory
  <1>. QED
    BY <1>5, <1>6, <1>7 DEF DirectoryInv

\* Off chain, authorizations name the key and the version of the day.
LEMMA SignKeeps ==
    ASSUME Registry!AccountsAssumption, DirectoryInv, NEW a \in Addresses, NEW new \in Keys,
           NEW expires \in 1 .. (MaxHeight + TTL), Registry!Sign(a, new, expires)
    PROVE  DirectoryInv'
  <1>. DEFINE s == [addr |-> a, by |-> accounts[a].key, version |-> accounts[a].version,
                    new |-> new, expires |-> expires]
  <1>1. accounts[a] # None /\ signed' = signed \cup {s}
        /\ UNCHANGED <<accounts, dids, lastRotation, params, rotated, height>>
    BY DEF Registry!Sign
  <1>2. accounts[a] \in Registry!Account
    BY <1>1 DEF DirectoryInv, Registry!TypeOK
  <1>3. s \in Registry!Authorization
    BY <1>2 DEF Registry!Account, Registry!Authorization
  <1>. HIDE DEF s
  <1>4. Registry!TypeOK'
    BY <1>1, <1>3 DEF DirectoryInv, Registry!TypeOK
  <1>5. Rows' /\ Directory'
    BY <1>1 DEF DirectoryInv, Rows, RowOK, AccountOK, HistoryOK, Directory
  <1>. QED
    BY <1>4, <1>5 DEF DirectoryInv

\* UpdateParams refuses a bound that some account exceeds; time only passes.
LEMMA ParamsAndTimeKeep ==
    ASSUME Registry!AccountsAssumption, DirectoryInv, Registry!NextBlock \/ \E p \in Settings : Registry!UpdateParams(p)
    PROVE  DirectoryInv'
  <1>1. /\ UNCHANGED <<accounts, dids, lastRotation, signed, rotated>>
        /\ params' \in Settings /\ height' \in 1 .. MaxHeight /\ height <= height'
        /\ \A a \in Addresses : accounts[a] # None => accounts[a].meta <= params'.meta
    <2>1. CASE Registry!NextBlock
      <3>1. params' = params /\ height' = height + 1 /\ height < MaxHeight
            /\ UNCHANGED <<accounts, dids, lastRotation, signed, rotated>>
        BY <2>1 DEF Registry!NextBlock
      <3>2. \A a \in Addresses : accounts[a] # None => accounts[a].meta <= params.meta
        BY DEF DirectoryInv, Rows, RowOK, AccountOK
      <3>. QED
        BY <3>1, <3>2 DEF DirectoryInv, Registry!TypeOK, Registry!AccountsAssumption
    <2>2. CASE \E p \in Settings : Registry!UpdateParams(p)
      BY <2>2 DEF Registry!UpdateParams, DirectoryInv, Registry!TypeOK, Registry!AccountsAssumption
    <2>. QED
      BY <2>1, <2>2
  <1>2. Registry!TypeOK' /\ Directory'
    BY <1>1 DEF DirectoryInv, Registry!TypeOK, Directory
  <1>3. Rows'
    <2>. SUFFICES ASSUME NEW a \in Addresses
                  PROVE  RowOK(accounts[a], lastRotation[a], rotated[a], height', params'.meta)
      BY <1>1 DEF Rows, RowOK, AccountOK, HistoryOK
    <2>1. RowOK(accounts[a], lastRotation[a], rotated[a], height, params.meta)
      BY DEF DirectoryInv, Rows
    <2>2. CASE accounts[a] = None
      BY <2>1, <2>2 DEF RowOK
    <2>3. CASE accounts[a] # None
      <3>1. accounts[a] \in Registry!Account /\ height \in Nat
        BY <2>3 DEF DirectoryInv, Registry!TypeOK
      <3>2. accounts[a].active \in Nat /\ height' \in Nat
        BY <1>1, <3>1 DEF Registry!Account
      <3>3. AccountOK(accounts[a], lastRotation[a], rotated[a], height, params.meta)
        BY <2>1, <2>3 DEF RowOK
      <3>4. accounts[a].active <= height'
        BY <1>1, <3>1, <3>2, <3>3 DEF AccountOK
      <3>5. AccountOK(accounts[a], lastRotation[a], rotated[a], height', params'.meta)
        BY <1>1, <2>3, <3>3, <3>4 DEF AccountOK
      <3>. QED
        BY <2>3, <3>5 DEF RowOK
    <2>. QED
      BY <2>2, <2>3
  <1>. QED
    BY <1>2, <1>3 DEF DirectoryInv

-----------------------------------------------------------------------------
(* The theorems *)

\* An empty registry satisfies the invariant.
LEMMA DirectoryInitially ==
    ASSUME Registry!AccountsAssumption
    PROVE  Registry!Init => DirectoryInv
  <1>. SUFFICES ASSUME Registry!Init
                PROVE  DirectoryInv
    OBVIOUS
  <1>1. Registry!TypeOK
    BY DEF Registry!Init, Registry!TypeOK, Registry!AccountsAssumption
  <1>2. Rows
    BY DEF Registry!Init, Rows, RowOK
  <1>3. Directory
    BY DEF Registry!Init, Directory
  <1>. QED
    BY <1>1, <1>2, <1>3 DEF DirectoryInv

\* Every step keeps the invariant.
LEMMA NextKeepsDirectory ==
    ASSUME Registry!AccountsAssumption, DirectoryInv, [Registry!Next]_(Registry!vars)
    PROVE  DirectoryInv'
  <1>1. CASE UNCHANGED Registry!vars
    BY <1>1 DEF Registry!vars, DirectoryInv, Registry!TypeOK, Rows, RowOK, AccountOK, HistoryOK, Directory
  <1>2. CASE Registry!NextBlock \/ \E p \in Settings : Registry!UpdateParams(p)
    BY <1>2, ParamsAndTimeKeep
  <1>3. ASSUME NEW a \in Addresses,
               \/ Registry!UnfreezeAccount(a)
               \/ \E granter \in Addresses : Registry!OtherTransaction(a, granter)
               \/ \E k \in Keys, type \in Types, len \in Lengths : Registry!RegisterAccount(a, k, type, len)
               \/ \E new \in Keys, expires \in 1 .. (MaxHeight + TTL) : Registry!Sign(a, new, expires)
               \/ \E authz \in BOOLEAN : Registry!FreezeAccount(a, authz) \/ \E s \in signed : Registry!RotateKey(a, s, authz)
        PROVE  DirectoryInv'
    BY <1>3, UnfreezeKeeps, OtherKeeps, RegisterKeeps, SignKeeps, FreezeKeeps, RotateKeeps
  <1>. QED
    BY <1>1, <1>2, <1>3 DEF Registry!Next

\* The invariant holds throughout.
LEMMA DirectoryInvariant ==
    ASSUME Registry!AccountsAssumption
    PROVE  Registry!Spec => []DirectoryInv
  <1>1. Registry!Init => DirectoryInv
    BY DirectoryInitially
  <1>2. DirectoryInv /\ [Registry!Next]_(Registry!vars) => DirectoryInv'
    BY NextKeepsDirectory
  <1>. QED
    BY <1>1, <1>2, PTL DEF Registry!Spec

\* A step that writes the row of one address, which is not frozen before or
\* not after it.
LEMMA InertStep ==
    ASSUME accounts \in [Addresses -> {None} \cup Registry!Account],
           lastRotation \in [Addresses -> 0 .. MaxHeight],
           NEW a \in Addresses, ~Registry!Frozen(a) \/ ~Registry!Frozen(a)',
           NEW new, accounts' = [accounts EXCEPT ![a] = new],
           NEW last, lastRotation' = [lastRotation EXCEPT ![a] = last]
    PROVE  Registry!FrozenIsInert
  <1>1. \A b \in Addresses : b # a => accounts'[b] = accounts[b] /\ lastRotation'[b] = lastRotation[b]
    OBVIOUS
  <1>. QED
    BY <1>1 DEF Registry!FrozenIsInert

\* No step changes an account that is frozen before and after it.
LEMMA NextInert ==
    ASSUME Registry!AccountsAssumption, DirectoryInv, Registry!Next
    PROVE  Registry!FrozenIsInert
  <1>1. /\ accounts \in [Addresses -> {None} \cup Registry!Account] /\ None \notin Registry!Account
        /\ lastRotation \in [Addresses -> 0 .. MaxHeight]
    BY DEF DirectoryInv, Registry!TypeOK, Registry!AccountsAssumption
  <1>2. CASE UNCHANGED <<accounts, lastRotation>>
    BY <1>2 DEF Registry!FrozenIsInert
  <1>3. CASE Registry!NextBlock \/ \E p \in Settings : Registry!UpdateParams(p)
    BY <1>2, <1>3 DEF Registry!NextBlock, Registry!UpdateParams
  <1>4. ASSUME NEW a \in Addresses,
               \/ Registry!UnfreezeAccount(a)
               \/ \E granter \in Addresses : Registry!OtherTransaction(a, granter)
               \/ \E k \in Keys, type \in Types, len \in Lengths : Registry!RegisterAccount(a, k, type, len)
               \/ \E new \in Keys, expires \in 1 .. (MaxHeight + TTL) : Registry!Sign(a, new, expires)
               \/ \E authz \in BOOLEAN : Registry!FreezeAccount(a, authz) \/ \E s \in signed : Registry!RotateKey(a, s, authz)
        PROVE  Registry!FrozenIsInert
    <2>1. CASE \E new \in Keys, expires \in 1 .. (MaxHeight + TTL) : Registry!Sign(a, new, expires)
      BY <1>2, <2>1 DEF Registry!Sign
    <2>2. CASE Registry!UnfreezeAccount(a)
      <3>. DEFINE old == accounts[a]
                  new == [old EXCEPT !.frozen = FALSE]
      <3>1. old # None /\ accounts' = [accounts EXCEPT ![a] = new] /\ lastRotation' = lastRotation
        BY <2>2 DEF Registry!UnfreezeAccount, Registry!Frozen
      <3>2. old \in Registry!Account
        BY <1>1, <3>1
      <3>. HIDE DEF old
      <3>3. new.frozen = FALSE
        BY <3>2 DEF Registry!Account
      <3>. HIDE DEF new
      <3>4. ~Registry!Frozen(a)'
        BY <1>1, <3>1, <3>3 DEF Registry!Frozen
      <3>5. lastRotation' = [lastRotation EXCEPT ![a] = lastRotation[a]]
        BY <1>1, <3>1
      <3>. QED
        BY <1>1, <3>1, <3>4, <3>5, InertStep
    <2>3. CASE \/ \E granter \in Addresses : Registry!OtherTransaction(a, granter)
               \/ \E k \in Keys, type \in Types, len \in Lengths : Registry!RegisterAccount(a, k, type, len)
               \/ \E authz \in BOOLEAN : Registry!FreezeAccount(a, authz)
      <3>1. ~Registry!Frozen(a) /\ lastRotation' = lastRotation /\ \E new : accounts' = [accounts EXCEPT ![a] = new]
        BY <2>3 DEF Registry!OtherTransaction, Registry!RegisterAccount, Registry!FreezeAccount, Registry!Frozen
      <3>2. lastRotation' = [lastRotation EXCEPT ![a] = lastRotation[a]]
        BY <1>1, <3>1
      <3>. QED
        BY <1>1, <3>1, <3>2, InertStep
    <2>4. CASE \E authz \in BOOLEAN, s \in signed : Registry!RotateKey(a, s, authz)
      <3>1. /\ ~Registry!Frozen(a) /\ lastRotation' = [lastRotation EXCEPT ![a] = height]
            /\ \E new : accounts' = [accounts EXCEPT ![a] = new]
        BY <2>4 DEF Registry!RotateKey, Registry!MayRotate
      <3>. QED
        BY <1>1, <3>1, InertStep
    <2>. QED
      BY <1>4, <2>1, <2>2, <2>3, <2>4
  <1>. QED
    BY <1>3, <1>4 DEF Registry!Next

\* x/auth: the registry, the DID index and the rotation records keep their types.
THEOREM DirectoryTypeCorrect ==
    ASSUME Registry!AccountsAssumption
    PROVE  Registry!Spec => []Registry!TypeOK
  <1>1. DirectoryInv => Registry!TypeOK
    BY DEF DirectoryInv
  <1>. QED
    BY <1>1, DirectoryInvariant, PTL

\* GenesisState.validate: ExportGenesis accepts every state the messages reach.
THEOREM ExportNeverPanics ==
    ASSUME Registry!AccountsAssumption
    PROVE  Registry!Spec => []Registry!ExportAccepted
  <1>1. DirectoryInv => Registry!ExportAccepted
    BY InvariantSafe DEF Registry!AccountsSafe
  <1>. QED
    BY <1>1, DirectoryInvariant, PTL

\* RotateKey: an authorization is good for one rotation, of the key that signed
\* it, for any number of authorizations in circulation.
THEOREM NoReplay ==
    ASSUME Registry!AccountsAssumption
    PROVE  Registry!Spec => []Registry!AuthorizationUsedOnce
  <1>1. DirectoryInv => Registry!AuthorizationUsedOnce
    BY InvariantSafe DEF Registry!AccountsSafe
  <1>. QED
    BY <1>1, DirectoryInvariant, PTL

\* The accounts keep what they promise, in every state and in every step: also
\* the cool-down between rotations and the stillness of frozen accounts, which
\* a message under x/authz reaches past the ante handler.
THEOREM AccountsKeepPromise ==
    ASSUME Registry!AccountsAssumption
    PROVE  Registry!Spec => Registry!KeysRotateOnce
  <1>1. DirectoryInv => Registry!AccountsSafe
    BY InvariantSafe
  <1>2. DirectoryInv /\ [Registry!Next]_(Registry!vars) => [Registry!FrozenIsInert]_(Registry!vars)
    BY NextInert
  <1>3. Registry!Spec => []DirectoryInv
    BY DirectoryInvariant
  <1>. QED
    BY <1>1, <1>2, <1>3, PTL DEF Registry!Spec, Registry!KeysRotateOnce


-----------------------------------------------------------------------------
(* The inductive invariant of homes *)

Home == [status : Homes!Statuses, threshold : Nat, active : 1 .. MaxHeight]
HomeKey == [perms : SUBSET Permissions, revoked : BOOLEAN, expires : Nat]

\* What is stored is finite, and an alert is a record of an identifier and a mark.
HomeStored ==
    /\ IsFiniteSet(sessions) /\ IsFiniteSet(alerts)
    /\ \A a \in alerts : \E id, ack : a = [id |-> id, ack |-> ack]

\* A session lasts no longer than a timeout that was in force.
Lasts(s) == \E p \in ParamSets : s.expires <= s.start + p.timeout

\* The begin blocker has ended what expired; before its creation a home has no sessions.
Ended ==
    /\ home = None => sessions = {}
    /\ home # None /\ home.status # "archived" => \A s \in sessions : s.start < height => height <= s.expires

\* Only creation and configuration set a threshold.
Known(t) == t \in InitialThresholds \/ t = 0 \/ \E p \in ParamSets : t <= p.max
ThresholdKnown == home # None => Known(home.threshold)

HomeInv ==
    /\ Homes!TypeOK /\ HomeStored /\ (\A s \in sessions : Lasts(s))
    /\ Homes!SessionsUnderTheirKey /\ Ended /\ Homes!DeadmanFires /\ ThresholdKnown

\* The assumption, one fact at a time.
LEMMA HomeParams ==
    ASSUME Homes!AgentHomeAssumption
    PROVE  /\ MaxHeight \in Nat /\ Wrap \in Nat /\ 0 < MaxHeight /\ MaxHeight < Wrap
           /\ IsFiniteSet(Keys) /\ Grants \subseteq SUBSET Permissions
           /\ InitialThresholds \subseteq Nat /\ Expiries \subseteq Nat /\ None \notin Home
           /\ \A p \in ParamSets : /\ p.keys \in Nat /\ p.sessions \in Nat /\ p.alerts \in Nat
                                   /\ p.timeout \in Nat /\ p.min \in Nat /\ p.max \in Nat
  BY HomeCounts DEF Homes!AgentHomeAssumption, Homes!HomeRecord, Home

\* The smaller and the greater of two numbers.
LEMMA OfTwo ==
    ASSUME NEW a \in Int, NEW b \in Int
    PROVE  /\ Homes!Min({a, b}) \in {a, b} /\ Homes!Min({a, b}) <= a /\ Homes!Min({a, b}) <= b
           /\ Homes!Max({a, b}) \in {a, b} /\ Homes!Max({a, b}) >= a /\ Homes!Max({a, b}) >= b
  <1>1. \E x \in {a, b} : \A y \in {a, b} : x <= y
    OBVIOUS
  <1>2. \E x \in {a, b} : \A y \in {a, b} : x >= y
    OBVIOUS
  <1>3. Homes!Min({a, b}) \in {a, b} /\ \A y \in {a, b} : Homes!Min({a, b}) <= y
    BY <1>1 DEF Homes!Min
  <1>4. Homes!Max({a, b}) \in {a, b} /\ \A y \in {a, b} : Homes!Max({a, b}) >= y
    BY <1>2 DEF Homes!Max
  <1>. QED
    BY <1>3, <1>4

\* A sum that wraps is no greater than the sum, and is the sum where it does not wrap.
LEMMA Wraps ==
    ASSUME NEW n \in Nat, NEW w \in Nat, 0 < w
    PROVE  n % w \in Nat /\ n % w <= n /\ (n < w => n % w = n)
  <1>1. n % w \in 0 .. w - 1
    OBVIOUS
  <1>2. CASE n < w
    <2>1. n % w = n
      BY <1>2
    <2>. QED
      BY <2>1
  <1>3. CASE n >= w
    BY <1>1, <1>3
  <1>. QED
    BY <1>2, <1>3

\* One more element adds at most one to a finite set.
LEMMA OneMore ==
    ASSUME NEW S, IsFiniteSet(S), NEW x
    PROVE  /\ IsFiniteSet(S \cup {x}) /\ Cardinality(S) \in Nat /\ Cardinality(S \cup {x}) \in Nat
           /\ Cardinality(S \cup {x}) <= Cardinality(S) + 1
  <1>1. IsFiniteSet(S \cup {x}) /\ Cardinality(S \cup {x}) = IF x \in S THEN Cardinality(S) ELSE Cardinality(S) + 1
    BY FS_AddElement
  <1>2. Cardinality(S) \in Nat /\ Cardinality(S \cup {x}) \in Nat
    BY <1>1, FS_CardinalityType
  <1>. QED
    BY <1>1, <1>2

\* What is pending of two sets is what is pending of each; what is new is pending.
LEMMA PendingSplits ==
    /\ \A as, bs : Homes!Pending(as \cup bs) = Homes!Pending(as) \cup Homes!Pending(bs)
    /\ \A bs : (\A b \in bs : \E id : b = [id |-> id, ack |-> FALSE]) => Homes!Pending(bs) = bs
  <1>1. ASSUME NEW as, NEW bs
        PROVE  Homes!Pending(as \cup bs) = Homes!Pending(as) \cup Homes!Pending(bs)
    BY DEF Homes!Pending
  <1>2. ASSUME NEW bs, \A b \in bs : \E id : b = [id |-> id, ack |-> FALSE]
        PROVE  Homes!Pending(bs) = bs
    <2>1. \A b \in bs : ~b.ack
      BY <1>2
    <2>. QED
      BY <2>1 DEF Homes!Pending
  <1>. QED
    BY <1>1, <1>2

\* A set of alerts is finite and made of records.
AlertsOK(as) ==
    /\ IsFiniteSet(as)
    /\ \A a \in as : \E id, ack : a = [id |-> id, ack |-> ack]

\* Pending alerts are finitely many, and a set with fewer of them has no more.
LEMMA PendingFacts ==
    ASSUME NEW as, IsFiniteSet(as)
    PROVE  /\ IsFiniteSet(Homes!Pending(as)) /\ Cardinality(Homes!Pending(as)) \in Nat
           /\ \A bs : Homes!Pending(bs) \subseteq Homes!Pending(as) =>
                 Cardinality(Homes!Pending(bs)) <= Cardinality(Homes!Pending(as))
  <1>1. Homes!Pending(as) \in SUBSET as
    BY DEF Homes!Pending
  <1>2. IsFiniteSet(Homes!Pending(as))
    BY <1>1, FS_Subset
  <1>3. Cardinality(Homes!Pending(as)) \in Nat
    BY <1>2, FS_CardinalityType
  <1>4. ASSUME NEW bs, Homes!Pending(bs) \subseteq Homes!Pending(as)
        PROVE  Cardinality(Homes!Pending(bs)) <= Cardinality(Homes!Pending(as))
    BY <1>2, <1>4, FS_Subset
  <1>. QED
    BY <1>2, <1>3, <1>4

\* How many alerts are pending may grow up to the limit in force, from one set to the next.
AlertsWithin(as, bs) ==
    Homes!Within(Cardinality(Homes!Pending(as)), Cardinality(Homes!Pending(bs)), homeParams.alerts)

LEMMA AlertsChain ==
    ASSUME homeParams.alerts \in Nat, NEW as, AlertsOK(as), NEW bs, AlertsOK(bs), NEW cs, AlertsOK(cs),
           AlertsWithin(as, bs), AlertsWithin(bs, cs)
    PROVE  AlertsWithin(as, cs)
  <1>. DEFINE n == Cardinality(Homes!Pending(as))
              m == Cardinality(Homes!Pending(bs))
              l == Cardinality(Homes!Pending(cs))
  <1>1. n \in Nat /\ m \in Nat /\ l \in Nat
    BY PendingFacts DEF AlertsOK
  <1>2. (m <= n \/ m <= homeParams.alerts) /\ (l <= m \/ l <= homeParams.alerts)
    BY DEF AlertsWithin, Homes!Within
  <1>3. l <= n \/ l <= homeParams.alerts
    <2>. HIDE DEF n, m, l
    <2>. QED
      BY <1>1, <1>2
  <1>. QED
    BY <1>3 DEF AlertsWithin, Homes!Within

\* A set of alerts with no more pending than before is within the limit.
LEMMA AlertsShrink ==
    ASSUME NEW as, AlertsOK(as), NEW bs, Homes!Pending(bs) \subseteq Homes!Pending(as)
    PROVE  AlertsWithin(as, bs)
  BY PendingFacts DEF AlertsOK, AlertsWithin, Homes!Within

\* SetAlertWithLimit adds nothing past the limit.
LEMMA WithAlertKeeps ==
    ASSUME homeParams.alerts \in Nat, NEW as, AlertsOK(as), NEW id
    PROVE  AlertsOK(Homes!WithAlert(as, id)) /\ AlertsWithin(as, Homes!WithAlert(as, id))
  <1>1. CASE Cardinality(Homes!Pending(as)) >= homeParams.alerts
    <2>1. Homes!WithAlert(as, id) = as
      BY <1>1, HomeCounts DEF Homes!WithAlert
    <2>2. AlertsWithin(as, as)
      BY AlertsShrink
    <2>. QED
      BY <2>1, <2>2
  <1>2. CASE ~(Cardinality(Homes!Pending(as)) >= homeParams.alerts)
    <2>. DEFINE new == [id |-> id, ack |-> FALSE]
                old == {a \in as : a.id # id}
    <2>1. Homes!WithAlert(as, id) = old \cup {new}
      BY <1>2, HomeCounts DEF Homes!WithAlert
    <2>2. IsFiniteSet(old)
      BY FS_Subset DEF AlertsOK
    <2>3. IsFiniteSet(old \cup {new})
      BY <2>2, FS_AddElement
    <2>4. IsFiniteSet(Homes!Pending(old)) /\ Cardinality(Homes!Pending(old)) <= Cardinality(Homes!Pending(as))
      <3>1. Homes!Pending(old) \subseteq Homes!Pending(as)
        BY DEF Homes!Pending
      <3>. QED
        BY <2>2, <3>1, PendingFacts DEF AlertsOK
    <2>5. Homes!Pending(old \cup {new}) = Homes!Pending(old) \cup {new}
      <3>1. \A b \in {new} : \E i : b = [id |-> i, ack |-> FALSE]
        OBVIOUS
      <3>2. Homes!Pending({new}) = {new}
        <4>. HIDE DEF old, new
        <4>. QED
          BY <3>1, PendingSplits, Zenon
      <3>. HIDE DEF old, new
      <3>. QED
        BY <3>2, PendingSplits, Zenon
    <2>6. /\ Cardinality(Homes!Pending(old)) \in Nat /\ Cardinality(Homes!Pending(as)) \in Nat
          /\ Cardinality(Homes!Pending(old \cup {new})) <= Cardinality(Homes!Pending(old)) + 1
      <3>. HIDE DEF old, new
      <3>. QED
        BY <2>2, <2>4, <2>5, PendingFacts, OneMore DEF AlertsOK
    <2>7. Cardinality(Homes!Pending(old \cup {new})) <= homeParams.alerts
      <3>1. Cardinality(Homes!Pending(old \cup {new})) \in Nat
        <4>. HIDE DEF old, new
        <4>. QED
          BY <2>3, PendingFacts
      <3>. DEFINE n == Cardinality(Homes!Pending(old \cup {new}))
                  m == Cardinality(Homes!Pending(old))
                  l == Cardinality(Homes!Pending(as))
      <3>2. n \in Nat /\ m \in Nat /\ l \in Nat /\ n <= m + 1 /\ m <= l /\ ~(l >= homeParams.alerts)
        <4>. HIDE DEF old, new
        <4>. QED
          BY <1>2, <2>4, <2>6, <3>1
      <3>. HIDE DEF n, m, l
      <3>3. n <= homeParams.alerts
        BY <3>2
      <3>. QED
        BY <3>3 DEF n
    <2>8. \A a \in old \cup {new} : \E i, ack : a = [id |-> i, ack |-> ack]
      BY DEF AlertsOK
    <2>9. AlertsOK(old \cup {new}) /\ AlertsWithin(as, old \cup {new})
      <3>. HIDE DEF old, new
      <3>. QED
        BY <2>3, <2>7, <2>8 DEF AlertsOK, AlertsWithin, Homes!Within
    <2>. QED
      BY <2>1, <2>9
  <1>. QED
    BY <1>1, <1>2

\* The alerts of expired sessions fill what the limit leaves, if anything.
LEMMA ToldKeeps ==
    ASSUME homeParams.alerts \in Nat, NEW as, AlertsOK(as), NEW over, IsFiniteSet(over), NEW h, NEW some,
           some \in Homes!kSubset(Homes!Min({Cardinality(over), Homes!Max({0, homeParams.alerts - Cardinality(Homes!Pending(as))})}), over),
           NEW T, \A t : t \in T <=> \E s \in some : t = [id |-> <<"expired", s.id, h>>, ack |-> FALSE]
    PROVE  AlertsOK(as \cup T) /\ AlertsWithin(as, as \cup T)
  <1>. DEFINE f == [s \in some |-> [id |-> <<"expired", s.id, h>>, ack |-> FALSE]]
              room == homeParams.alerts - Cardinality(Homes!Pending(as))
  <1>1. Cardinality(Homes!Pending(as)) \in Nat /\ Cardinality(over) \in Nat /\ IsFiniteSet(as)
    BY PendingFacts, FS_CardinalityType DEF AlertsOK
  <1>2. some \in SUBSET over /\ Cardinality(some) = Homes!Min({Cardinality(over), Homes!Max({0, room})})
    BY HomeCounts DEF Homes!kSubset
  <1>3. IsFiniteSet(some) /\ Cardinality(some) \in Nat
    BY <1>2, FS_Subset, FS_CardinalityType
  <1>4. Cardinality(some) <= 0 \/ Cardinality(some) <= room
    <2>. DEFINE n == Cardinality(over)
                r == Homes!Max({0, room})
    <2>1. room \in Int
      <3>. DEFINE l == Cardinality(Homes!Pending(as))
      <3>1. l \in Nat
        BY <1>1
      <3>. HIDE DEF l
      <3>2. homeParams.alerts - l \in Int
        BY <3>1
      <3>. QED
        BY <3>2 DEF l
    <2>2. r \in {0, room}
      <3>. HIDE DEF room
      <3>1. 0 \in Int
        OBVIOUS
      <3>. QED
        BY <2>1, <3>1, OfTwo
    <2>3. n \in Int /\ r \in Int
      <3>. HIDE DEF room, r
      <3>. QED
        BY <1>1, <2>1, <2>2
    <2>4. Homes!Min({n, r}) <= r
      <3>. HIDE DEF n, r
      <3>. QED
        BY <2>3, OfTwo
    <2>5. Cardinality(some) <= r
      BY <1>2, <2>4
    <2>. HIDE DEF room, r
    <2>. QED
      BY <2>2, <2>5
  <1>5. IsFiniteSet(T) /\ Cardinality(T) <= Cardinality(some)
    <2>1. f \in Surjection(some, T)
      BY DEF Surjection
    <2>. HIDE DEF f
    <2>. QED
      BY <1>3, <2>1, FS_Surjection
  <1>6. Homes!Pending(as \cup T) = Homes!Pending(as) \cup T
    <2>1. \A b \in T : \E i : b = [id |-> i, ack |-> FALSE]
      OBVIOUS
    <2>2. Homes!Pending(T) = T
      BY <2>1, PendingSplits, Zenon
    <2>3. Homes!Pending(as \cup T) = Homes!Pending(as) \cup Homes!Pending(T)
      BY PendingSplits, Zenon
    <2>. QED
      BY <2>2, <2>3
  <1>7. IsFiniteSet(as \cup T) /\ \A a \in as \cup T : \E i, ack : a = [id |-> i, ack |-> ack]
    <2>1. \A a \in T : \E i, ack : a = [id |-> i, ack |-> ack]
      OBVIOUS
    <2>. QED
      BY <1>1, <1>5, <2>1, FS_Union DEF AlertsOK
  <1>8. AlertsWithin(as, as \cup T)
    <2>1. IsFiniteSet(Homes!Pending(as)) /\ IsFiniteSet(Homes!Pending(as) \cap T)
      BY <1>1, PendingFacts, FS_Subset
    <2>2. Cardinality(Homes!Pending(as) \cup T) = Cardinality(Homes!Pending(as)) + Cardinality(T) - Cardinality(Homes!Pending(as) \cap T)
      BY <1>5, <2>1, FS_Union
    <2>3. Cardinality(T) \in Nat /\ Cardinality(Homes!Pending(as) \cap T) \in Nat
      BY <1>5, <2>1, FS_CardinalityType
    <2>. DEFINE n == Cardinality(Homes!Pending(as) \cup T)
                l == Cardinality(Homes!Pending(as))
                d == Cardinality(Homes!Pending(as) \cap T)
                k == Cardinality(T)
                s == Cardinality(some)
    <2>4. l \in Nat /\ d \in Nat /\ k \in Nat /\ s \in Nat /\ n = l + k - d /\ k <= s /\ (s <= 0 \/ s <= homeParams.alerts - l)
      BY <1>1, <1>3, <1>4, <1>5, <2>2, <2>3
    <2>5. n <= l \/ n <= homeParams.alerts
      <3>. HIDE DEF n, l, d, k, s, room
      <3>. QED
        BY <2>4
    <2>. QED
      BY <1>6, <2>5 DEF AlertsWithin, Homes!Within
  <1>. QED
    BY <1>7, <1>8 DEF AlertsOK

\* Fewer or finished sessions of the same keys keep what holds of sessions.
SessionsOK(ss) ==
    /\ IsFiniteSet(ss)
    /\ \A s \in ss : /\ s.key \in Keys /\ s.perms \subseteq Permissions
                     /\ s.start \in 1 .. MaxHeight /\ s.expires \in Nat /\ Lasts(s)

LEMMA FewerSessions ==
    ASSUME NEW ss, SessionsOK(ss), NEW rest \in SUBSET ss
    PROVE  SessionsOK(rest)
  BY FS_Subset DEF SessionsOK

\* The invariant, part by part.
KeysOK == keys \in [Keys -> HomeKey \cup {None}]
LEMMA HomeParts ==
    HomeInv <=> /\ home \in Home \cup {None} /\ height \in 1 .. MaxHeight /\ homeParams \in ParamSets
                /\ KeysOK /\ SessionsOK(sessions) /\ AlertsOK(alerts)
                /\ Homes!SessionsUnderTheirKey /\ Ended /\ Homes!DeadmanFires /\ ThresholdKnown
  BY HomeCounts DEF HomeInv, Homes!TypeOK, HomeStored, KeysOK, SessionsOK, AlertsOK, Home, Homes!HomeRecord, HomeKey

\* The same of the next state.
LEMMA HomePartsNext ==
    HomeInv' <=> /\ home' \in Home \cup {None} /\ height' \in 1 .. MaxHeight /\ homeParams' \in ParamSets
                 /\ KeysOK' /\ SessionsOK(sessions') /\ AlertsOK(alerts')
                 /\ Homes!SessionsUnderTheirKey' /\ Ended' /\ Homes!DeadmanFires' /\ ThresholdKnown'
  BY HomeCounts DEF HomeInv, Homes!TypeOK, HomeStored, KeysOK, SessionsOK, AlertsOK, Home, Homes!HomeRecord, HomeKey, Homes!Pending, Lasts

\* The parameters in force are numbers.
LEMMA InForce ==
    ASSUME Homes!AgentHomeAssumption, HomeInv
    PROVE  /\ homeParams \in ParamSets /\ homeParams.keys \in Nat /\ homeParams.sessions \in Nat
           /\ homeParams.alerts \in Nat /\ homeParams.timeout \in Nat /\ homeParams.min \in Nat /\ homeParams.max \in Nat
  <1>1. homeParams \in ParamSets
    BY HomeParts
  <1>. QED
    BY <1>1, HomeParams

\* A session of a key that has expired is over within a timeout of that.
LEMMA EndsInTime ==
    ASSUME Homes!AgentHomeAssumption, HomeInv
    PROVE  Homes!SessionsEnd
  <1>. SUFFICES ASSUME home # None, home.status # "archived", NEW s \in sessions, s.start < height
                PROVE  /\ height <= s.expires
                       /\ keys[s.key].expires # 0 => \E p \in ParamSets : height <= keys[s.key].expires + p.timeout
    BY DEF Homes!SessionsEnd
  <1>1. height <= s.expires
    BY HomeParts DEF Ended
  <1>2. PICK p \in ParamSets : s.expires <= s.start + p.timeout
    BY HomeParts DEF SessionsOK, Lasts
  <1>3. keys[s.key].expires # 0 => s.start <= keys[s.key].expires
    BY HomeParts DEF Homes!SessionsUnderTheirKey
  <1>4. height \in Nat /\ s.start \in Nat /\ s.expires \in Nat /\ p.timeout \in Nat /\ keys[s.key].expires \in Nat
    <2>1. keys[s.key] # None /\ s.key \in Keys
      BY HomeParts DEF Homes!SessionsUnderTheirKey, SessionsOK
    <2>2. keys[s.key] \in HomeKey
      BY <2>1, HomeParts DEF KeysOK
    <2>. QED
      BY <1>2, <2>2, HomeParts, HomeParams DEF SessionsOK, HomeKey
  <1>5. keys[s.key].expires # 0 => height <= keys[s.key].expires + p.timeout
    <2>. DEFINE x == keys[s.key].expires
                y == s.expires
                z == s.start
                d == p.timeout
    <2>1. x \in Nat /\ y \in Nat /\ z \in Nat /\ d \in Nat /\ height \in Nat /\ height <= y /\ y <= z + d /\ (x # 0 => z <= x)
      BY <1>1, <1>2, <1>3, <1>4
    <2>. HIDE DEF x, y, z, d
    <2>2. x # 0 => height <= x + d
      BY <2>1
    <2>. QED
      BY <2>2 DEF x, d
  <1>. QED
    BY <1>1, <1>5

-----------------------------------------------------------------------------
(* Every step keeps it *)

\* Messages that touch the home alone, make it active now and do not bring it back from the archive.
LEMMA TouchKeeps ==
    ASSUME Homes!AgentHomeAssumption, HomeInv, UNCHANGED <<keys, sessions, alerts, homeParams, height>>,
           home' \in Home, home'.active = height, Known(home'.threshold),
           home # None /\ home.status = "archived" => home'.status = "archived"
    PROVE  HomeInv'
  <1>1. height \in Nat /\ home'.threshold \in Nat
    BY HomeParams, HomeParts DEF Home
  <1>2. Homes!DeadmanFires'
    BY <1>1 DEF Homes!DeadmanFires
  <1>3. ThresholdKnown'
    BY DEF ThresholdKnown, Known
  <1>4. Homes!SessionsUnderTheirKey' /\ KeysOK'
    BY HomeParts DEF Homes!SessionsUnderTheirKey, KeysOK
  <1>5. Ended'
    <2>1. home' # None
      BY HomeParams
    <2>. QED
      BY <2>1, HomeParts DEF Ended
  <1>. QED
    BY <1>2, <1>3, <1>4, <1>5, HomeParts, HomePartsNext

\* A new home is active with the threshold it was created with.
LEMMA CreateHomeKeeps ==
    ASSUME Homes!AgentHomeAssumption, HomeInv, NEW t \in InitialThresholds \cup {0}, Homes!CreateHome(t)
    PROVE  HomeInv'
  <1>1. t \in Nat /\ height \in 1 .. MaxHeight /\ Known(t)
    BY HomeParams, HomeParts DEF Known
  <1>2. /\ home = None /\ home' = [status |-> "active", threshold |-> t, active |-> height]
        /\ UNCHANGED <<keys, sessions, alerts, homeParams, height>>
    BY DEF Homes!CreateHome
  <1>3. home' \in Home
    BY <1>1, <1>2 DEF Home, Homes!Statuses
  <1>. QED
    BY <1>1, <1>2, <1>3, TouchKeeps

\* UpdateHome, UpdateMemoryCID and ConfigureGuardian are activity of the owner.
LEMMA OwnerKeeps ==
    ASSUME Homes!AgentHomeAssumption, HomeInv,
           \/ \E status \in Homes!Statuses : Homes!UpdateHome(status)
           \/ Homes!UpdateMemoryCID
           \/ \E t \in {0, homeParams.min, homeParams.max} : Homes!ConfigureGuardian(t)
    PROVE  HomeInv'
  <1>1. height \in 1 .. MaxHeight /\ (home # None => home \in Home)
    BY HomeParts
  <1>2. home # None => Known(home.threshold)
    BY HomeParts DEF ThresholdKnown
  <1>3. CASE \E status \in Homes!Statuses : Homes!UpdateHome(status)
    <2>1. /\ home' \in Home /\ home'.active = height /\ home'.threshold = home.threshold
          /\ home # None /\ UNCHANGED <<keys, sessions, alerts, homeParams, height>>
      BY <1>1, <1>3 DEF Homes!UpdateHome, Home
    <2>2. home.status # "archived"
      <3>1. PICK status \in Homes!Statuses : Homes!UpdateHome(status)
        BY <1>3
      <3>2. <<home.status, status>> \in Homes!ValidStatusTransitions
        BY <3>1 DEF Homes!UpdateHome
      <3>3. <<"archived", status>> \notin Homes!ValidStatusTransitions
        BY DEF Homes!ValidStatusTransitions
      <3>. QED
        BY <3>2, <3>3
    <2>. QED
      BY <1>2, <2>1, <2>2, TouchKeeps
  <1>4. CASE Homes!UpdateMemoryCID
    <2>1. /\ home' \in Home /\ home'.active = height /\ home'.threshold = home.threshold /\ home'.status = home.status
          /\ home # None /\ UNCHANGED <<keys, sessions, alerts, homeParams, height>>
      BY <1>1, <1>4 DEF Homes!UpdateMemoryCID, Home
    <2>. QED
      BY <1>2, <2>1, TouchKeeps
  <1>5. CASE \E t \in {0, homeParams.min, homeParams.max} : Homes!ConfigureGuardian(t)
    <2>1. PICK t \in {0, homeParams.min, homeParams.max} : Homes!ConfigureGuardian(t)
      BY <1>5
    <2>2. t \in Nat
      BY InForce
    <2>3. Known(t)
      <3>1. t = 0 \/ t <= homeParams.max
        BY <2>1, InForce DEF Homes!ConfigureGuardian
      <3>. QED
        BY <3>1, InForce DEF Known
    <2>4. /\ home' \in Home /\ home'.active = height /\ home'.threshold = t /\ home'.status = home.status
          /\ UNCHANGED <<keys, sessions, alerts, homeParams, height>>
      BY <1>1, <2>1, <2>2 DEF Homes!ConfigureGuardian, Home
    <2>. QED
      BY <2>3, <2>4, TouchKeeps
  <1>. QED
    BY <1>3, <1>4, <1>5

\* RegisterKey: a key that had no registration has no session either.
LEMMA RegisterKeyKeeps ==
    ASSUME Homes!AgentHomeAssumption, HomeInv, NEW k \in Keys, NEW perms \in Grants, NEW expires \in Expiries,
           Homes!RegisterKey(k, perms, expires)
    PROVE  HomeInv'
  <1>. DEFINE new == [perms |-> perms, revoked |-> FALSE, expires |-> expires]
  <1>1. /\ keys[k] = None /\ keys' = [keys EXCEPT ![k] = new]
        /\ UNCHANGED <<home, sessions, alerts, homeParams, height>>
    BY DEF Homes!RegisterKey
  <1>2. expires \in Nat /\ perms \subseteq Permissions /\ keys \in [Keys -> HomeKey \cup {None}]
    BY HomeParams, HomeParts DEF KeysOK
  <1>3. new \in HomeKey
    BY <1>2 DEF HomeKey
  <1>4. keys' \in [Keys -> HomeKey \cup {None}] /\ \A j \in Keys : j # k => keys'[j] = keys[j]
    <2>. HIDE DEF new
    <2>. QED
      BY <1>1, <1>2, <1>3
  <1>5. Homes!SessionsUnderTheirKey'
    <2>1. \A s \in sessions : s.key \in Keys /\ s.key # k
      BY <1>1, HomeParts DEF Homes!SessionsUnderTheirKey, SessionsOK
    <2>. QED
      BY <1>1, <1>4, <2>1, HomeParts DEF Homes!SessionsUnderTheirKey
  <1>6. KeysOK' /\ Ended' /\ Homes!DeadmanFires' /\ ThresholdKnown'
    BY <1>1, <1>4, HomeParts DEF KeysOK, Ended, Homes!DeadmanFires, ThresholdKnown
  <1>. QED
    BY <1>1, <1>5, <1>6, HomeParts, HomePartsNext

\* StartSession: the session starts while its key is valid and has no more than it grants, even where it
\* takes the identifier of another; where its end wraps, it ends the earlier.
LEMMA StartKeeps ==
    ASSUME Homes!AgentHomeAssumption, HomeInv, NEW k \in Keys, NEW requested \in SUBSET Permissions,
           Homes!StartSession(k, requested)
    PROVE  HomeInv'
  <1>. DEFINE id == <<Prefix[k], height>>
              end == (height + homeParams.timeout) % Wrap
              new == [id |-> id, key |-> k, perms |-> Homes!IntersectPermissions(keys[k].perms, requested),
                      start |-> height, expires |-> end]
              old == {s \in sessions : s.id # id}
  <1>1. /\ home # None /\ keys[k] # None /\ ~keys[k].revoked
        /\ keys[k].expires = 0 \/ height <= keys[k].expires
        /\ sessions' = old \cup {new} /\ home' = [home EXCEPT !.active = height]
        /\ UNCHANGED <<keys, alerts, homeParams, height>>
    BY DEF Homes!StartSession
  <1>2. height \in 1 .. MaxHeight /\ MaxHeight \in Nat /\ keys[k] \in HomeKey /\ home \in Home
    BY <1>1, HomeParams, HomeParts DEF KeysOK
  <1>3. end \in Nat /\ end <= height + homeParams.timeout
    <2>. DEFINE n == height + homeParams.timeout
    <2>1. n \in Nat /\ Wrap \in Nat /\ 0 < Wrap
      BY <1>2, InForce, HomeParams
    <2>2. n % Wrap \in Nat /\ n % Wrap <= n
      <3>. HIDE DEF n
      <3>. QED
        BY <2>1, Wraps
    <2>. QED
      BY <2>2
  <1>4. /\ new.perms \subseteq keys[k].perms /\ new.perms \subseteq Permissions /\ new.key = k
        /\ new.start = height /\ new.expires = end
    BY <1>2 DEF Homes!IntersectPermissions, HomeKey
  <1>5. home' \in Home /\ home'.active = height /\ home'.threshold = home.threshold /\ home'.status = home.status
    BY <1>1, <1>2 DEF Home
  <1>6. SessionsOK(sessions')
    <2>1. old \in SUBSET sessions
      OBVIOUS
    <2>2. SessionsOK(old)
      <3>. HIDE DEF old
      <3>. QED
        BY <2>1, HomeParts, FewerSessions
    <2>3. IsFiniteSet(old \cup {new})
      <3>. HIDE DEF old, new
      <3>. QED
        BY <2>2, FS_AddElement DEF SessionsOK
    <2>4. Lasts(new)
      <3>. HIDE DEF new, end
      <3>. QED
        BY <1>3, <1>4, InForce DEF Lasts
    <2>. HIDE DEF old, new, end
    <2>. QED
      BY <1>1, <1>2, <1>3, <1>4, <2>2, <2>3, <2>4 DEF SessionsOK
  <1>7. Homes!SessionsUnderTheirKey'
    <2>1. \A s \in old : /\ keys[s.key] # None /\ ~keys[s.key].revoked /\ s.perms \subseteq keys[s.key].perms
                         /\ keys[s.key].expires # 0 => s.start <= keys[s.key].expires
      BY HomeParts DEF Homes!SessionsUnderTheirKey
    <2>. HIDE DEF old, new, end
    <2>. QED
      BY <1>1, <1>4, <2>1 DEF Homes!SessionsUnderTheirKey
  <1>8. Ended'
    <2>1. \A s \in old : s \in sessions
      OBVIOUS
    <2>2. home' # None /\ ~(new.start < height)
      <3>. HIDE DEF new
      <3>. QED
        BY <1>2, <1>4, <1>5, HomeParams DEF Home
    <2>. HIDE DEF old, new, end
    <2>. QED
      BY <1>1, <1>5, <2>1, <2>2, HomeParts DEF Ended
  <1>9. Homes!DeadmanFires' /\ ThresholdKnown' /\ KeysOK'
    <2>1. home.threshold \in Nat /\ height \in Nat
      BY <1>2 DEF Home
    <2>. QED
      BY <1>1, <1>5, <2>1, HomeParts DEF Homes!DeadmanFires, ThresholdKnown, KeysOK
  <1>. QED
    BY <1>1, <1>2, <1>5, <1>6, <1>7, <1>8, <1>9, HomeParts, HomePartsNext

\* RevokeKey ends the sessions of its key.
LEMMA RevokeKeeps ==
    ASSUME Homes!AgentHomeAssumption, HomeInv, NEW k \in Keys, Homes!RevokeKey(k)
    PROVE  HomeInv'
  <1>1. /\ keys[k] # None /\ keys' = [keys EXCEPT ![k].revoked = TRUE]
        /\ sessions' = {s \in sessions : s.key # k}
        /\ alerts' = Homes!WithAlert(alerts, <<"revoked", Prefix[k], height>>)
        /\ UNCHANGED <<home, homeParams, height>>
    BY DEF Homes!RevokeKey
  <1>2. keys \in [Keys -> HomeKey \cup {None}] /\ keys[k] \in HomeKey
    BY <1>1, HomeParts DEF KeysOK
  <1>3. keys' \in [Keys -> HomeKey \cup {None}] /\ (\A j \in Keys : j # k => keys'[j] = keys[j])
    BY <1>1, <1>2 DEF HomeKey
  <1>4. SessionsOK(sessions') /\ AlertsOK(alerts')
    BY <1>1, HomeParts, InForce, FewerSessions, WithAlertKeeps
  <1>5. Homes!SessionsUnderTheirKey'
    <2>1. \A s \in sessions : s.key \in Keys
      BY HomeParts DEF SessionsOK
    <2>. QED
      BY <1>1, <1>3, <2>1, HomeParts DEF Homes!SessionsUnderTheirKey
  <1>6. KeysOK' /\ Ended' /\ Homes!DeadmanFires' /\ ThresholdKnown'
    BY <1>1, <1>3, HomeParts DEF KeysOK, Ended, Homes!DeadmanFires, ThresholdKnown
  <1>. QED
    BY <1>1, <1>4, <1>5, <1>6, HomeParts, HomePartsNext

\* AcknowledgeAlert marks an alert that stays.
LEMMA AcknowledgeKeeps ==
    ASSUME AlertsOK(alerts), \E a \in alerts : Homes!AcknowledgeAlert(a)
    PROVE  AlertsOK(alerts') /\ AlertsWithin(alerts, alerts') /\ UNCHANGED <<home, keys, sessions, homeParams, height>>
  <1>1. PICK a \in alerts : Homes!AcknowledgeAlert(a)
    OBVIOUS
  <1>2. PICK id, ack : a = [id |-> id, ack |-> ack]
    BY DEF AlertsOK
  <1>. DEFINE b == [id |-> id, ack |-> TRUE]
  <1>3. alerts' = (alerts \ {a}) \cup {b} /\ UNCHANGED <<home, keys, sessions, homeParams, height>>
    BY <1>1, <1>2 DEF Homes!AcknowledgeAlert
  <1>4. IsFiniteSet(alerts')
    BY <1>3, FS_RemoveElement, FS_AddElement DEF AlertsOK
  <1>5. Homes!Pending(alerts') \subseteq Homes!Pending(alerts)
    BY <1>3 DEF Homes!Pending
  <1>6. \A x \in alerts' : \E i, c : x = [id |-> i, ack |-> c]
    BY <1>3 DEF AlertsOK
  <1>7. AlertsWithin(alerts, alerts')
    BY <1>5, AlertsShrink
  <1>. QED
    BY <1>3, <1>4, <1>6, <1>7 DEF AlertsOK

\* Sessions end, alerts are acknowledged, parameters change.
LEMMA CloseKeeps ==
    ASSUME Homes!AgentHomeAssumption, HomeInv,
           \/ \E s \in sessions : Homes!EndSession(s)
           \/ \E a \in alerts : Homes!AcknowledgeAlert(a)
           \/ \E p \in ParamSets : Homes!UpdateParams(p)
    PROVE  HomeInv'
  <1>1. CASE \E s \in sessions : Homes!EndSession(s)
    <2>1. sessions' \in SUBSET sessions /\ UNCHANGED <<home, keys, alerts, homeParams, height>>
      BY <1>1 DEF Homes!EndSession
    <2>2. SessionsOK(sessions')
      BY <2>1, HomeParts, FewerSessions
    <2>3. Homes!SessionsUnderTheirKey' /\ Ended' /\ Homes!DeadmanFires' /\ ThresholdKnown' /\ KeysOK'
      BY <2>1, HomeParts DEF Homes!SessionsUnderTheirKey, Ended, Homes!DeadmanFires, ThresholdKnown, KeysOK
    <2>. QED
      BY <2>1, <2>2, <2>3, HomeParts, HomePartsNext
  <1>2. CASE \E a \in alerts : Homes!AcknowledgeAlert(a)
    <2>1. AlertsOK(alerts') /\ UNCHANGED <<home, keys, sessions, homeParams, height>>
      BY <1>2, AcknowledgeKeeps, HomeParts
    <2>2. Homes!SessionsUnderTheirKey' /\ Ended' /\ Homes!DeadmanFires' /\ ThresholdKnown' /\ KeysOK'
      BY <2>1, HomeParts DEF Homes!SessionsUnderTheirKey, Ended, Homes!DeadmanFires, ThresholdKnown, KeysOK
    <2>. QED
      BY <2>1, <2>2, HomeParts, HomePartsNext
  <1>3. CASE \E p \in ParamSets : Homes!UpdateParams(p)
    <2>1. homeParams' \in ParamSets /\ UNCHANGED <<home, keys, sessions, alerts, height>>
      BY <1>3 DEF Homes!UpdateParams
    <2>2. Homes!SessionsUnderTheirKey' /\ Ended' /\ Homes!DeadmanFires' /\ ThresholdKnown' /\ KeysOK'
      BY <2>1, HomeParts DEF Homes!SessionsUnderTheirKey, Ended, Homes!DeadmanFires, ThresholdKnown, KeysOK
    <2>. QED
      BY <2>1, <2>2, HomeParts, HomePartsNext
  <1>. QED
    BY <1>1, <1>2, <1>3

\* CheckDeadmanSwitches: a home left alone for longer than its threshold trips, however its sum wraps.
LEMMA TripsInTime ==
    ASSUME Homes!AgentHomeAssumption, NEW h \in Home, NEW now \in Nat
    PROVE  /\ h.threshold # 0 /\ now > h.active + h.threshold /\ h.status # "archived" => Homes!Trips(h, now)
           /\ Homes!Trips(h, now) /\ h.active + h.threshold < Wrap => now > h.active + h.threshold
  <1>. DEFINE n == h.active + h.threshold
  <1>1. n \in Nat /\ Wrap \in Nat /\ 0 < Wrap
    BY HomeParams DEF Home
  <1>. HIDE DEF n
  <1>2. n % Wrap \in Nat /\ n % Wrap <= n /\ (n < Wrap => n % Wrap = n)
    BY <1>1, Wraps
  <1>3. now > n => now > n % Wrap
    BY <1>1, <1>2
  <1>4. n < Wrap /\ now > n % Wrap => now > n
    BY <1>2
  <1>. QED
    BY <1>3, <1>4 DEF Homes!Trips, n

\* What the begin blocker raises stays within the limit.
LEMMA BlockAlerts ==
    ASSUME Homes!AgentHomeAssumption, HomeInv, Homes!NextBlock
    PROVE  AlertsOK(alerts') /\ AlertsWithin(alerts, alerts')
  <1>1. AlertsOK(alerts) /\ homeParams.alerts \in Nat
    BY HomeParts, InForce
  <1>2. CASE alerts' = alerts
    BY <1>1, <1>2, AlertsShrink
  <1>3. CASE home # None
    <2>. DEFINE trips == Homes!Trips(home, height')
                warned == IF trips THEN Homes!WithAlert(alerts, <<"deadman", height'>>) ELSE alerts
                over == IF home.status = "archived" THEN {} ELSE {s \in sessions : height' > s.expires}
    <2>1. \E some \in Homes!kSubset(Homes!Min({Cardinality(over), Homes!Max({0, homeParams.alerts - Cardinality(Homes!Pending(warned))})}), over) :
             alerts' = warned \cup {[id |-> <<"expired", s.id, height'>>, ack |-> FALSE] : s \in some}
      BY <1>3, HomeCounts DEF Homes!NextBlock
    <2>2. AlertsOK(warned) /\ AlertsWithin(alerts, warned)
      BY <1>1, WithAlertKeeps, AlertsShrink
    <2>3. IsFiniteSet(over)
      <3>1. over \in SUBSET sessions
        OBVIOUS
      <3>. QED
        BY <3>1, HomeParts, FS_Subset DEF SessionsOK
    <2>4. PICK some \in Homes!kSubset(Homes!Min({Cardinality(over), Homes!Max({0, homeParams.alerts - Cardinality(Homes!Pending(warned))})}), over) :
             alerts' = warned \cup {[id |-> <<"expired", s.id, height'>>, ack |-> FALSE] : s \in some}
      BY <2>1
    <2>. DEFINE told == {[id |-> <<"expired", s.id, height'>>, ack |-> FALSE] : s \in some}
    <2>5. \A t : t \in told <=> \E s \in some : t = [id |-> <<"expired", s.id, height'>>, ack |-> FALSE]
      OBVIOUS
    <2>6. AlertsOK(warned \cup told) /\ AlertsWithin(warned, warned \cup told)
      <3>. HIDE DEF warned, over, trips, told
      <3>. QED
        BY <1>1, <2>2, <2>3, <2>4, <2>5, ToldKeeps, Zenon
    <2>7. alerts' = warned \cup told
      BY <2>4
    <2>. HIDE DEF warned, told
    <2>. QED
      BY <1>1, <2>2, <2>6, <2>7, AlertsChain
  <1>. QED
    BY <1>2, <1>3 DEF Homes!NextBlock

\* The begin blocker guards the homes left alone, ends sessions and tells of them within the limit.
LEMMA NextBlockKeeps ==
    ASSUME Homes!AgentHomeAssumption, HomeInv, Homes!NextBlock
    PROVE  HomeInv'
  <1>1. height < MaxHeight /\ height' = height + 1 /\ keys' = keys /\ homeParams' = homeParams
    BY DEF Homes!NextBlock
  <1>2. height \in 1 .. MaxHeight /\ MaxHeight \in Nat
    BY HomeParams, HomeParts
  <1>3. height' \in 1 .. MaxHeight /\ height' \in Nat
    BY <1>1, <1>2
  <1>4. KeysOK' /\ AlertsOK(alerts')
    BY <1>1, BlockAlerts, HomeParts DEF KeysOK
  <1>5. CASE home = None
    <2>1. UNCHANGED <<home, sessions, alerts>>
      BY <1>5 DEF Homes!NextBlock
    <2>2. Homes!SessionsUnderTheirKey' /\ Ended' /\ Homes!DeadmanFires' /\ ThresholdKnown'
      BY <1>1, <1>5, <2>1, HomeParts DEF Homes!SessionsUnderTheirKey, Ended, Homes!DeadmanFires, ThresholdKnown
    <2>. QED
      BY <1>1, <1>3, <1>4, <2>1, <2>2, HomeParts, HomePartsNext
  <1>6. CASE home # None
    <2>. DEFINE trips == Homes!Trips(home, height')
                over == IF home.status = "archived" THEN {} ELSE {s \in sessions : height' > s.expires}
    <2>1. /\ home' = IF trips THEN [home EXCEPT !.status = "guarded"] ELSE home
          /\ sessions' = sessions \ over
      BY <1>6 DEF Homes!NextBlock
    <2>2. home \in Home
      BY <1>6, HomeParts
    <2>3. /\ home' \in Home /\ home'.threshold = home.threshold /\ home'.active = home.active
          /\ (trips => home'.status = "guarded") /\ (~trips => home'.status = home.status)
      <3>. HIDE DEF trips
      <3>. QED
        BY <2>1, <2>2 DEF Home, Homes!Statuses
    <2>4. sessions' \in SUBSET sessions
      BY <2>1
    <2>5. SessionsOK(sessions')
      BY <2>4, HomeParts, FewerSessions
    <2>6. Homes!DeadmanFires'
      <3>. SUFFICES ASSUME home'.threshold # 0, height' > home'.active + home'.threshold
                    PROVE  home'.status \in {"guarded", "archived"}
        BY DEF Homes!DeadmanFires
      <3>1. home.status # "archived" => trips
        BY <1>3, <2>2, <2>3, TripsInTime
      <3>. QED
        BY <2>3, <3>1
    <2>7. Ended'
      <3>1. home' # None
        BY <2>3, HomeParams DEF Home
      <3>2. home'.status # "archived" => home.status # "archived"
        BY <2>1, <2>3 DEF Homes!Trips
      <3>3. ASSUME home.status # "archived", NEW s \in sessions'
            PROVE  height' <= s.expires
        <4>1. s \in sessions /\ ~(height' > s.expires)
          BY <2>1, <3>3
        <4>2. s.expires \in Nat
          BY <4>1, HomeParts DEF SessionsOK
        <4>. QED
          BY <1>3, <4>1, <4>2
      <3>. QED
        BY <3>1, <3>2, <3>3 DEF Ended
    <2>8. Homes!SessionsUnderTheirKey' /\ ThresholdKnown'
      BY <1>1, <1>6, <2>3, <2>4, HomeParts DEF Homes!SessionsUnderTheirKey, ThresholdKnown
    <2>. QED
      BY <1>1, <1>3, <1>4, <2>3, <2>5, <2>6, <2>7, <2>8, HomeParts, HomePartsNext
  <1>. QED
    BY <1>5, <1>6

\* Nothing is stored at first.
LEMMA HomeStarts ==
    ASSUME Homes!AgentHomeAssumption, Homes!Init
    PROVE  HomeInv
  <1>1. IsFiniteSet({}) /\ 1 \in 1 .. MaxHeight
    BY FS_EmptySet, HomeParams
  <1>2. homeParams \in ParamSets
    BY DEF Homes!Init
  <1>3. KeysOK /\ SessionsOK(sessions) /\ AlertsOK(alerts)
    BY <1>1 DEF Homes!Init, KeysOK, SessionsOK, AlertsOK
  <1>. QED
    BY <1>1, <1>2, <1>3, HomeParts DEF Homes!Init, Homes!SessionsUnderTheirKey, Ended, Homes!DeadmanFires, ThresholdKnown

\* Every step of a home keeps the invariant.
LEMMA HomeNextKeeps ==
    ASSUME Homes!AgentHomeAssumption, HomeInv, [Homes!Next]_(Homes!vars)
    PROVE  HomeInv'
  <1>1. CASE UNCHANGED Homes!vars
    <2>1. UNCHANGED <<home, keys, sessions, alerts, homeParams, height>>
      BY <1>1 DEF Homes!vars
    <2>2. Homes!SessionsUnderTheirKey' /\ Ended' /\ Homes!DeadmanFires' /\ ThresholdKnown' /\ KeysOK'
      BY <2>1, HomeParts DEF Homes!SessionsUnderTheirKey, Ended, Homes!DeadmanFires, ThresholdKnown, KeysOK
    <2>. QED
      BY <2>1, <2>2, HomeParts, HomePartsNext
  <1>2. CASE \E t \in InitialThresholds \cup {0} : Homes!CreateHome(t)
    BY <1>2, CreateHomeKeeps
  <1>3. CASE \/ \E status \in Homes!Statuses : Homes!UpdateHome(status)
             \/ Homes!UpdateMemoryCID
             \/ \E t \in {0, homeParams.min, homeParams.max} : Homes!ConfigureGuardian(t)
    BY <1>3, OwnerKeeps
  <1>4. ASSUME NEW k \in Keys,
               \/ \E perms \in Grants, expires \in Expiries : Homes!RegisterKey(k, perms, expires)
               \/ \E requested \in SUBSET Permissions : Homes!StartSession(k, requested)
               \/ Homes!RevokeKey(k)
        PROVE  HomeInv'
    BY <1>4, RegisterKeyKeeps, StartKeeps, RevokeKeeps
  <1>5. CASE \/ \E s \in sessions : Homes!EndSession(s)
             \/ \E a \in alerts : Homes!AcknowledgeAlert(a)
             \/ \E p \in ParamSets : Homes!UpdateParams(p)
    BY <1>5, CloseKeeps
  <1>6. CASE Homes!NextBlock
    BY <1>6, NextBlockKeeps
  <1>. QED
    BY <1>1, <1>2, <1>3, <1>4, <1>5, <1>6 DEF Homes!Next

-----------------------------------------------------------------------------
(* What a step may not do *)

\* Only StartSession adds a session, and at most one.
LEMMA SessionsGrow ==
    ASSUME Homes!AgentHomeAssumption, HomeInv, [Homes!Next]_(Homes!vars)
    PROVE  Homes!Within(Cardinality(sessions), Cardinality(sessions'), homeParams.sessions)
  <1>1. IsFiniteSet(sessions)
    BY HomeParts DEF SessionsOK
  <1>2. CASE sessions' \in SUBSET sessions
    <2>1. Cardinality(sessions') <= Cardinality(sessions)
      BY <1>1, <1>2, FS_Subset
    <2>. QED
      BY <2>1 DEF Homes!Within
  <1>3. ASSUME NEW k \in Keys, NEW requested \in SUBSET Permissions, Homes!StartSession(k, requested)
        PROVE  Homes!Within(Cardinality(sessions), Cardinality(sessions'), homeParams.sessions)
    <2>1. PICK new : sessions' = {s \in sessions : s.id # <<Prefix[k], height>>} \cup {new}
      BY <1>3 DEF Homes!StartSession
    <2>. DEFINE old == {s \in sessions : s.id # <<Prefix[k], height>>}
    <2>2. IsFiniteSet(old) /\ Cardinality(old) <= Cardinality(sessions)
      <3>1. old \in SUBSET sessions
        OBVIOUS
      <3>. HIDE DEF old
      <3>. QED
        BY <1>1, <3>1, FS_Subset
    <2>3. Cardinality(sessions) < homeParams.sessions
      BY <1>3, HomeCounts DEF Homes!StartSession
    <2>4. /\ Cardinality(old) \in Nat /\ Cardinality(sessions) \in Nat /\ Cardinality(sessions') \in Nat
          /\ Cardinality(sessions') <= Cardinality(old) + 1
      <3>1. sessions' = old \cup {new}
        BY <2>1
      <3>. HIDE DEF old
      <3>. QED
        BY <1>1, <2>2, <3>1, OneMore, FS_CardinalityType
    <2>5. Cardinality(sessions') <= homeParams.sessions
      <3>. DEFINE a == Cardinality(old)
                  b == Cardinality(sessions)
                  c == Cardinality(sessions')
      <3>1. a \in Nat /\ b \in Nat /\ c \in Nat /\ a <= b /\ b < homeParams.sessions /\ c <= a + 1 /\ homeParams.sessions \in Nat
        BY <2>2, <2>3, <2>4, InForce
      <3>. HIDE DEF a, b, c
      <3>2. c <= homeParams.sessions
        BY <3>1
      <3>. QED
        BY <3>2 DEF c
    <2>. QED
      BY <2>5 DEF Homes!Within
  <1>4. CASE Homes!NextBlock
    BY <1>2, <1>4 DEF Homes!NextBlock
  <1>. QED
    BY <1>2, <1>3, <1>4
    DEF Homes!Next, Homes!vars, Homes!CreateHome, Homes!UpdateHome, Homes!UpdateMemoryCID, Homes!ConfigureGuardian, Homes!RegisterKey, Homes!RevokeKey,
        Homes!EndSession, Homes!AcknowledgeAlert, Homes!UpdateParams

\* Only RegisterKey adds a key in use, and it adds one.
LEMMA KeysGrow ==
    ASSUME Homes!AgentHomeAssumption, HomeInv, [Homes!Next]_(Homes!vars)
    PROVE  Homes!Within(Homes!CountActiveKeys, Homes!CountActiveKeys', homeParams.keys)
  <1>. DEFINE A == {j \in Keys : keys[j] # None /\ ~keys[j].revoked}
              B == {j \in Keys : keys'[j] # None /\ ~keys'[j].revoked}
  <1>1. /\ IsFiniteSet(A) /\ IsFiniteSet(B) /\ Cardinality(A) \in Nat /\ Cardinality(B) \in Nat
        /\ Homes!CountActiveKeys = Cardinality(A) /\ Homes!CountActiveKeys' = Cardinality(B)
    BY HomeParams, HomeCounts, FS_Subset, FS_CardinalityType DEF Homes!CountActiveKeys
  <1>2. CASE B \in SUBSET A
    <2>1. Cardinality(B) <= Cardinality(A)
      BY <1>1, <1>2, FS_Subset
    <2>. QED
      BY <1>1, <2>1 DEF Homes!Within
  <1>3. CASE keys' = keys
    BY <1>2, <1>3
  <1>4. keys \in [Keys -> HomeKey \cup {None}]
    BY HomeParts DEF KeysOK
  <1>5. ASSUME NEW k \in Keys, NEW perms, NEW expires, Homes!RegisterKey(k, perms, expires)
        PROVE  Homes!Within(Homes!CountActiveKeys, Homes!CountActiveKeys', homeParams.keys)
    <2>1. Homes!CountActiveKeys < homeParams.keys /\ \A j \in Keys : j # k => keys'[j] = keys[j]
      BY <1>4, <1>5 DEF Homes!RegisterKey
    <2>2. B \in SUBSET (A \cup {k})
      BY <2>1
    <2>3. IsFiniteSet(A \cup {k}) /\ Cardinality(A \cup {k}) <= Cardinality(A) + 1 /\ Cardinality(A \cup {k}) \in Nat
      <3>. HIDE DEF A, B
      <3>. QED
        BY <1>1, OneMore
    <2>4. Cardinality(B) <= Cardinality(A \cup {k})
      <3>. HIDE DEF A, B
      <3>. QED
        BY <2>2, <2>3, FS_Subset
    <2>5. Cardinality(B) <= homeParams.keys
      <3>. HIDE DEF A, B
      <3>. QED
        BY <1>1, <2>1, <2>3, <2>4, InForce
    <2>. QED
      BY <1>1, <2>5 DEF Homes!Within
  <1>6. ASSUME NEW k \in Keys, Homes!RevokeKey(k)
        PROVE  Homes!Within(Homes!CountActiveKeys, Homes!CountActiveKeys', homeParams.keys)
    <2>1. keys[k] \in HomeKey /\ keys' = [keys EXCEPT ![k].revoked = TRUE]
      BY <1>4, <1>6 DEF Homes!RevokeKey
    <2>2. (\A j \in Keys : j # k => keys'[j] = keys[j]) /\ keys'[k].revoked
      BY <1>4, <2>1 DEF HomeKey
    <2>. QED
      BY <1>2, <2>2
  <1>. HIDE DEF A, B
  <1>. QED
    BY <1>3, <1>5, <1>6
    DEF Homes!Next, Homes!vars, Homes!CreateHome, Homes!UpdateHome, Homes!UpdateMemoryCID, Homes!ConfigureGuardian, Homes!StartSession,
        Homes!EndSession, Homes!AcknowledgeAlert, Homes!UpdateParams, Homes!NextBlock

\* A revoked key and the begin blocker raise alerts within the limit; nothing else raises any.
LEMMA AlertsGrow ==
    ASSUME Homes!AgentHomeAssumption, HomeInv, [Homes!Next]_(Homes!vars)
    PROVE  AlertsWithin(alerts, alerts')
  <1>1. AlertsOK(alerts) /\ homeParams.alerts \in Nat
    BY HomeParts, InForce
  <1>2. CASE alerts' = alerts
    BY <1>1, <1>2, AlertsShrink
  <1>3. ASSUME NEW k \in Keys, Homes!RevokeKey(k)
        PROVE  AlertsWithin(alerts, alerts')
    <2>1. alerts' = Homes!WithAlert(alerts, <<"revoked", Prefix[k], height>>)
      BY <1>3 DEF Homes!RevokeKey
    <2>. QED
      BY <1>1, <2>1, WithAlertKeeps
  <1>4. CASE \E a \in alerts : Homes!AcknowledgeAlert(a)
    BY <1>1, <1>4, AcknowledgeKeeps
  <1>5. CASE Homes!NextBlock
    BY <1>5, BlockAlerts
  <1>. QED
    BY <1>2, <1>3, <1>4, <1>5
    DEF Homes!Next, Homes!vars, Homes!CreateHome, Homes!UpdateHome, Homes!UpdateMemoryCID, Homes!ConfigureGuardian, Homes!RegisterKey,
        Homes!StartSession, Homes!EndSession, Homes!UpdateParams

\* The limits, together.
LEMMA LimitsKept ==
    ASSUME Homes!AgentHomeAssumption, HomeInv, [Homes!Next]_(Homes!vars)
    PROVE  Homes!GrowsWithinLimits
  <1>1. Homes!Within(Homes!Cardinality(sessions), Homes!Cardinality(sessions'), homeParams.sessions)
    BY SessionsGrow, HomeCounts DEF Homes!Within
  <1>2. Homes!Within(Homes!CountActiveKeys, Homes!CountActiveKeys', homeParams.keys)
    BY KeysGrow
  <1>3. Homes!Within(Homes!Cardinality(Homes!Pending(alerts)), Homes!Cardinality(Homes!Pending(alerts')), homeParams.alerts)
    BY AlertsGrow, HomeCounts DEF AlertsWithin, Homes!Within
  <1>. QED
    BY <1>1, <1>2, <1>3 DEF Homes!GrowsWithinLimits

\* What an archived home may still do: nothing that changes its status.
LEMMA ArchivedKept ==
    ASSUME Homes!AgentHomeAssumption, HomeInv, [Homes!Next]_(Homes!vars)
    PROVE  Homes!ArchivedIsTerminal
  <1>. SUFFICES ASSUME home # None, home.status = "archived"
                PROVE  home'.status = "archived"
    BY DEF Homes!ArchivedIsTerminal
  <1>1. home \in Home
    BY HomeParts
  <1>2. CASE home' = home
    BY <1>2
  <1>3. ASSUME NEW x, home' = [home EXCEPT !.active = x]
        PROVE  home'.status = "archived"
    BY <1>1, <1>3 DEF Home
  <1>4. CASE Homes!NextBlock
    <2>1. home' = home
      BY <1>4 DEF Homes!NextBlock, Homes!Trips
    <2>. QED
      BY <2>1
  <1>5. ASSUME NEW t, Homes!ConfigureGuardian(t)
        PROVE  home'.status = "archived"
    BY <1>1, <1>5 DEF Home, Homes!ConfigureGuardian
  <1>6. ASSUME NEW status \in Homes!Statuses, Homes!UpdateHome(status)
        PROVE  FALSE
    BY <1>6 DEF Homes!UpdateHome, Homes!ValidStatusTransitions
  <1>. QED
    BY <1>2, <1>3, <1>4, <1>5, <1>6
    DEF Homes!Next, Homes!vars, Homes!CreateHome, Homes!UpdateMemoryCID, Homes!RegisterKey, Homes!StartSession, Homes!RevokeKey, Homes!EndSession, Homes!AcknowledgeAlert, Homes!UpdateParams

\* Where no threshold wraps, the begin blocker guards nobody early.
ThresholdsFit == (\A t \in InitialThresholds : t + MaxHeight < Wrap) /\ \A p \in ParamSets : p.max + MaxHeight < Wrap
LEMMA NotEarly ==
    ASSUME Homes!AgentHomeAssumption, ThresholdsFit, HomeInv, [Homes!Next]_(Homes!vars)
    PROVE  Homes!DeadmanNotEarly
  <1>. SUFFICES ASSUME home # None, height' > height, home'.status # home.status
                PROVE  height' > home.active + home.threshold
    BY DEF Homes!DeadmanNotEarly
  <1>1. height \in Nat /\ home \in Home /\ MaxHeight \in Nat /\ Wrap \in Nat
    BY HomeParams, HomeParts
  <1>2. Homes!NextBlock
    <2>1. height' # height
      BY <1>1
    <2>. QED
      BY <2>1 DEF Homes!Next, Homes!vars, Homes!CreateHome, Homes!UpdateHome, Homes!UpdateMemoryCID, Homes!ConfigureGuardian, Homes!RegisterKey, Homes!StartSession,
                  Homes!RevokeKey, Homes!EndSession, Homes!AcknowledgeAlert, Homes!UpdateParams
  <1>3. Homes!Trips(home, height') /\ height' \in Nat
    BY <1>1, <1>2 DEF Homes!NextBlock
  <1>4. home.active + home.threshold < Wrap
    <2>1. home.active \in 0 .. MaxHeight /\ home.threshold \in Nat
      BY <1>1 DEF Home
    <2>2. home.threshold + MaxHeight < Wrap
      <3>1. CASE home.threshold \in InitialThresholds \/ home.threshold = 0
        BY <1>1, <3>1, HomeParams DEF ThresholdsFit
      <3>2. CASE \E p \in ParamSets : home.threshold <= p.max
        <4>1. PICK p \in ParamSets : home.threshold <= p.max
          BY <3>2
        <4>2. p.max \in Nat /\ p.max + MaxHeight < Wrap
          BY HomeParams DEF ThresholdsFit
        <4>. QED
          BY <1>1, <2>1, <4>1, <4>2
      <3>. QED
        BY <1>1, <3>1, <3>2, HomeParts, HomeParams DEF ThresholdKnown, Known, Home
    <2>. QED
      BY <1>1, <2>1, <2>2
  <1>. QED
    BY <1>1, <1>3, <1>4, TripsInTime

-----------------------------------------------------------------------------
(* The theorems *)

\* x/home: a session starts under a valid key and has no more than it grants, no
\* session of a revoked key is left, and in a home that is not archived none
\* outlives its own expiry nor its key's by more than a timeout; a home left alone
\* for longer than its threshold is guarded; an archived home stays archived; and
\* sessions, keys in use and pending alerts grow only within the limits in force,
\* which a vote may lower below what is stored.
THEOREM HomesStaySafe ==
    ASSUME Homes!AgentHomeAssumption
    PROVE  Homes!Spec => /\ [](Homes!TypeOK /\ Homes!SessionsUnderTheirKey /\ Homes!SessionsEnd /\ Homes!DeadmanFires)
                         /\ [][Homes!ArchivedIsTerminal /\ Homes!GrowsWithinLimits]_(Homes!vars)
  <1>1. Homes!Init => HomeInv
    BY HomeStarts
  <1>2. HomeInv /\ [Homes!Next]_(Homes!vars) => HomeInv'
    BY HomeNextKeeps
  <1>3. HomeInv /\ [Homes!Next]_(Homes!vars) => [Homes!ArchivedIsTerminal /\ Homes!GrowsWithinLimits]_(Homes!vars)
    BY ArchivedKept, LimitsKept
  <1>4. HomeInv => Homes!TypeOK /\ Homes!SessionsUnderTheirKey /\ Homes!SessionsEnd /\ Homes!DeadmanFires
    BY EndsInTime DEF HomeInv
  <1>. QED
    BY <1>1, <1>2, <1>3, <1>4, PTL DEF Homes!Spec

\* CheckDeadmanSwitches guards no home early, if no threshold that homes are
\* created with comes near 2^64; the code checks only those configured later.
THEOREM GuardedNotEarly ==
    ASSUME Homes!AgentHomeAssumption, ThresholdsFit
    PROVE  Homes!Spec => [][Homes!DeadmanNotEarly]_(Homes!vars)
  <1>1. Homes!Init => HomeInv
    BY HomeStarts
  <1>2. HomeInv /\ [Homes!Next]_(Homes!vars) => HomeInv'
    BY HomeNextKeeps
  <1>3. HomeInv /\ [Homes!Next]_(Homes!vars) => [Homes!DeadmanNotEarly]_(Homes!vars)
    BY NotEarly
  <1>. QED
    BY <1>1, <1>2, <1>3, PTL DEF Homes!Spec

===============================================================================
