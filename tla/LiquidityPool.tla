--------------------------- MODULE LiquidityPool ---------------------------
(***************************************************************************)
(* x/liquiditypool: governed constant-product pools of uzrn and one other  *)
(* denom, their LP shares as bank coins, the lifecycle of a pool, the      *)
(* secondary indexes, and the time-weighted price with its bounded history *)
(* and clean-up. A message is one transaction: it happens whole or not at  *)
(* all, so the lock that is set and cleared inside one is never seen.      *)
(* Prices are kept for one direction, the other is its mirror image.       *)
(***************************************************************************)
EXTENDS PoolMath, FiniteSetsExt

CONSTANTS Users, Denoms,  \* accounts; the denoms paired with uzrn
          MaxRecords,     \* MaxPoolRecordsCap
          MaxHeight,      \* bound: blocks
          MaxReserve,     \* bound: reserves and shares
          Amounts,        \* inputs: amounts of a message
          ParamChoices,   \* inputs: parameter sets governance may install
          LegacyPools,    \* inputs: version 3 records of pool 1 an upgrade may find
          TwapScale, QuoteScale,  \* precision of the accumulator and of a price
          GcDeletes       \* twapGCDeletesPerBlock

VARIABLES pool,     \* pool records
          nextId,   \* number of the next pool
          denomIdx, \* denom index: the open pool of a denom, 0 for none
          openIdx,  \* open-pool index
          custody,  \* uzrn and counter coins of the module account
          lp,       \* LP coins each user holds
          acc,      \* TWAP accumulators
          obs,      \* TWAP observations
          gcQueue,  \* closed pools whose observations await deletion
          params, version, height,
          disabled, \* denoms whose transfers the bank module refuses
          closing   \* history: the price at the end of each block
poolVars == <<pool, nextId, denomIdx, openIdx>>
bankVars == <<custody, lp>>
twapVars == <<acc, obs, gcQueue>>
vars == <<poolVars, bankVars, twapVars, params, version, height, disabled, closing>>

Pools == 1..MaxRecords
OpenStatus == {"ACTIVE", "SWAPS_PAUSED", "EXIT_ONLY"}
NoPool == [status |-> "NONE", denom |-> "none", z |-> 0, c |-> 0, fee |-> 0, supply |-> 0]
NoAcc == [start |-> 0, last |-> 0, cum |-> 0]
Open == {p \in Pools : pool[p].status \in OpenStatus}
Price(q) == (q.c * TwapScale) \div q.z
Held(p) == MapThenSumSet(LAMBDA u : lp[p][u], Users)

-----------------------------------------------------------------------------
AccAt(p, q, h) ==
    IF acc[p] = NoAcc THEN [start |-> h, last |-> h, cum |-> 0]
    ELSE IF h <= acc[p].last THEN acc[p]
    ELSE [acc[p] EXCEPT !.last = h, !.cum = @ + Price(q) * (h - acc[p].last)]
ObsAt(p, q, h) ==
    IF acc[p] # NoAcc /\ h <= acc[p].last THEN obs[p]
    ELSE {o \in obs[p] : o.h >= h - params.window} \cup {[h |-> h, cum |-> AccAt(p, q, h).cum]}

UpdateTWAP(p, q) == /\ acc' = [acc EXCEPT ![p] = AccAt(p, q, height)]
                    /\ obs' = [obs EXCEPT ![p] = ObsAt(p, q, height)]

(* SetPool: the record, and the indexes rebuilt for it. *)
SetPool(p, q) ==
    /\ pool' = [pool EXCEPT ![p] = q]
    /\ denomIdx' = [d \in Denoms |-> IF d = q.denom THEN IF q.status = "CLOSED" THEN 0 ELSE p ELSE denomIdx[d]]
    /\ openIdx' = IF q.status = "CLOSED" THEN openIdx \ {p} ELSE openIdx \cup {p}
(* The module account after dz uzrn and dc of denom d have come in. *)
Moved(d, dz, dc) == [custody EXCEPT !.z = @ + dz, !.c[d] = @ + dc]

-----------------------------------------------------------------------------
Init ==
    /\ \/ version = 5 /\ pool = [p \in Pools |-> NoPool]
       \/ version = 3 /\ \E q \in LegacyPools : pool = [p \in Pools |-> IF p = 1 THEN q ELSE NoPool]
    /\ nextId = 1
    /\ denomIdx = [d \in Denoms |-> 0] /\ openIdx = {}
    /\ custody = [z |-> pool[1].z, c |-> [d \in Denoms |-> IF d = pool[1].denom THEN pool[1].c ELSE 0]]
    /\ \E u \in Users : lp = [p \in Pools |-> [v \in Users |-> IF v = u THEN pool[p].supply ELSE 0]]
    /\ acc = [p \in Pools |-> NoAcc] /\ obs = [p \in Pools |-> {}] /\ gcQueue = {}
    /\ params \in ParamChoices /\ height = 1 /\ disabled = {}
    /\ closing = [p \in Pools |-> [h \in 1..MaxHeight |-> 0]]

(* Migrate3to4 and 4to5: a pool with coins on both sides may only be left, *)
(* an empty one is closed, anything else stops the upgrade.                *)
Migrated(q) == CASE q.status = "NONE" -> q
                 [] q.z > 0 /\ q.c > 0 /\ q.supply > 0 -> [q EXCEPT !.status = "EXIT_ONLY"]
                 [] OTHER -> [q EXCEPT !.status = "CLOSED"]
Consistent(q) == (q.z > 0 /\ q.c > 0 /\ q.supply > 0) \/ (q.z = 0 /\ q.c = 0 /\ q.supply = 0)
Migrate3to4 ==
    LET new == [p \in Pools |-> Migrated(pool[p])]
        live == {p \in Pools : new[p].status \in OpenStatus}
        stored == {p \in Pools : pool[p].status # "NONE"}
    IN /\ version = 3
       /\ \A p \in stored : Consistent(pool[p])
       /\ pool' = new
       /\ openIdx' = live
       /\ denomIdx' = [d \in Denoms |-> Max({0} \cup {p \in live : new[p].denom = d})]
       /\ acc' = [p \in Pools |-> IF p \in live THEN [start |-> height, last |-> height, cum |-> 0] ELSE NoAcc]
       /\ obs' = [p \in Pools |-> IF p \in live THEN {[h |-> height, cum |-> 0]} ELSE {}]
       /\ nextId' = Max({nextId, Max({0} \cup stored) + 1})
       /\ params' = [params EXCEPT !.maxPools = Max({@, Cardinality(live)})]
       /\ version' = 5
       /\ UNCHANGED <<bankVars, gcQueue, height, disabled, closing>>

(* MsgCreatePool of an allowlisted creator; the grant of the denom is used *)
(* up, so a pair is not made again without governance.                     *)
CreatePool(u, d, z, c) ==
    LET q == [status |-> "ACTIVE", denom |-> d, z |-> z, c |-> c, fee |-> params.fee, supply |-> Sqrt(z * c)]
    IN /\ version = 5
       /\ d \in params.allowed
       /\ Cardinality(openIdx) < params.maxPools
       /\ denomIdx[d] = 0
       /\ z >= params.minInitial
       /\ nextId <= MaxRecords
       /\ q.supply > 0
       /\ d \notin disabled
       /\ SetPool(nextId, q)
       /\ nextId' = nextId + 1
       /\ custody' = Moved(d, z, c)
       /\ lp' = [lp EXCEPT ![nextId][u] = @ + q.supply]
       /\ params' = [params EXCEPT !.allowed = @ \ {d}]
       /\ UpdateTWAP(nextId, q)
       /\ UNCHANGED <<gcQueue, version, height, disabled, closing>>

(* MsgSwap: the quote, its floor, the transfers, the new reserves. *)
Swap(p, zIn, amount) ==
    LET q == pool[p]
        out == IF zIn THEN CalculateSwapOutput(q.z, q.c, amount, q.fee) ELSE CalculateSwapOutput(q.c, q.z, amount, q.fee)
        dz == IF zIn THEN amount ELSE -out
        dc == IF zIn THEN -out ELSE amount
    IN /\ version = 5
       /\ q.status = "ACTIVE"
       /\ out > 0
       /\ (IF zIn THEN q.c ELSE q.z) - out >= params.minReserve
       /\ q.denom \notin disabled
       /\ UpdateTWAP(p, q)
       /\ custody' = Moved(q.denom, dz, dc)
       /\ SetPool(p, [q EXCEPT !.z = @ + dz, !.c = @ + dc])
       /\ UNCHANGED <<nextId, lp, gcQueue, params, version, height, disabled, closing>>

(* MsgAddLiquidity: only what the shares cost is taken. *)
AddLiquidity(p, u, z, c) ==
    LET q == pool[p]
        d == CalculateDepositForShares(q.z, q.c, z, c, q.supply)
    IN /\ version = 5
       /\ q.status \in {"ACTIVE", "SWAPS_PAUSED"}
       /\ d.lp > 0
       /\ q.denom \notin disabled
       /\ UpdateTWAP(p, q)
       /\ custody' = Moved(q.denom, d.a, d.b)
       /\ SetPool(p, [q EXCEPT !.z = @ + d.a, !.c = @ + d.b, !.supply = @ + d.lp])
       /\ lp' = [lp EXCEPT ![p][u] = @ + d.lp]
       /\ UNCHANGED <<nextId, gcQueue, params, version, height, disabled, closing>>

CanRemoveLiquidity(q) == q.status \in OpenStatus

(* MsgRemoveLiquidity: open in every status but CLOSED, also for a denom   *)
(* whose transfers are disabled; the last share closes the pool and queues *)
(* its price history for deletion.                                         *)
RemoveLiquidity(p, u, shares) ==
    LET q == pool[p]
        z == Withdrawn(q.z, shares, q.supply)
        c == Withdrawn(q.c, shares, q.supply)
        last == shares = q.supply
    IN /\ version = 5
       /\ CanRemoveLiquidity(q)
       /\ shares <= lp[p][u]
       /\ z > 0 /\ c > 0
       /\ last => z = q.z /\ c = q.c
       /\ custody' = Moved(q.denom, -z, -c)
       /\ SetPool(p, [q EXCEPT !.z = @ - z, !.c = @ - c, !.supply = @ - shares,
                               !.status = IF last THEN "CLOSED" ELSE @])
       /\ lp' = [lp EXCEPT ![p][u] = @ - shares]
       /\ acc' = [acc EXCEPT ![p] = IF last THEN NoAcc ELSE AccAt(p, q, height)]
       /\ obs' = [obs EXCEPT ![p] = ObsAt(p, q, height)]
       /\ gcQueue' = IF last THEN gcQueue \cup {p} ELSE gcQueue
       /\ UNCHANGED <<nextId, params, version, height, disabled, closing>>

(* MsgSetPoolStatus, by governance. *)
SetPoolStatus(p, status) ==
    /\ version = 5
    /\ pool[p].status \in OpenStatus
    /\ UpdateTWAP(p, pool[p])
    /\ SetPool(p, [pool[p] EXCEPT !.status = status])
    /\ UNCHANGED <<nextId, bankVars, gcQueue, params, version, height, disabled, closing>>

(* MsgUpdateParams: the window of retained prices never shrinks. *)
UpdateParams(new) ==
    /\ version = 5
    /\ Cardinality(openIdx) <= new.maxPools
    /\ new.window >= params.window
    /\ params' = new
    /\ UNCHANGED <<poolVars, bankVars, twapVars, version, height, disabled, closing>>

(* ProcessTWAPGarbageCollection: the observations a block deletes, oldest  *)
(* first and the lowest pool number first, up to the budget.               *)
Before(x, y) == x[1] < y[1] \/ (x[1] = y[1] /\ x[2].h < y[2].h)
Collected ==
    LET queued == UNION {{<<p, o>> : o \in obs[p]} : p \in gcQueue}
    IN {x \in queued : Cardinality({y \in queued : Before(y, x)}) < GcDeletes}
ObsLeft(p) == {o \in obs[p] : <<p, o>> \notin Collected}

(* A queue entry is removed when its pool was reached within the budget    *)
(* and nothing of it is left.                                              *)
Finished == {p \in gcQueue : ObsLeft(p) = {} /\
                Cardinality(UNION {{<<r, o>> : o \in obs[r]} : r \in {r \in gcQueue : r < p}}) < GcDeletes}

(* BeginBlock of the next block: clean-up, then every open pool's price. *)
NextBlock ==
    LET h == height + 1
    IN /\ version = 5
       /\ height < MaxHeight
       /\ height' = h
       /\ gcQueue' = gcQueue \ Finished
       /\ acc' = [p \in Pools |-> IF p \in openIdx THEN AccAt(p, pool[p], h) ELSE acc[p]]
       /\ obs' = [p \in Pools |-> IF p \in openIdx THEN ObsAt(p, pool[p], h) ELSE ObsLeft(p)]
       /\ closing' = [p \in Pools |-> IF p \in Open THEN [closing[p] EXCEPT ![height] = Price(pool[p])] ELSE closing[p]]
       /\ UNCHANGED <<poolVars, bankVars, params, version, disabled>>

(* External: the bank module turns transfers of a denom off and on. *)
SetSendEnabled(d) ==
    /\ disabled' = IF d \in disabled THEN disabled \ {d} ELSE disabled \cup {d}
    /\ UNCHANGED <<poolVars, bankVars, twapVars, params, version, height, closing>>

(* External: LP shares are bearer coins that anyone may pass on. *)
SendShares(p, u, v) ==
    /\ u # v /\ lp[p][u] > 0
    /\ lp' = [lp EXCEPT ![p][u] = 0, ![p][v] = @ + lp[p][u]]
    /\ UNCHANGED <<poolVars, custody, twapVars, params, version, height, disabled, closing>>

Bounded(p) == pool[p].z <= MaxReserve /\ pool[p].c <= MaxReserve

Next == \/ Migrate3to4
        \/ \E u \in Users, d \in Denoms, z \in Amounts, c \in Amounts : CreatePool(u, d, z, c)
        \/ \E p \in Pools, zIn \in BOOLEAN, amount \in Amounts : Bounded(p) /\ Swap(p, zIn, amount)
        \/ \E p \in Pools, u \in Users, z \in Amounts, c \in Amounts : Bounded(p) /\ AddLiquidity(p, u, z, c)
        \/ \E p \in Pools, u \in Users : \E shares \in 1..lp[p][u] : RemoveLiquidity(p, u, shares)
        \/ \E p \in Pools, status \in OpenStatus : SetPoolStatus(p, status)
        \/ \E new \in ParamChoices : UpdateParams(new)
        \/ NextBlock
        \/ \E d \in Denoms : SetSendEnabled(d)
        \/ \E p \in Pools, u, v \in Users : SendShares(p, u, v)

Spec == Init /\ [][Next]_vars

-----------------------------------------------------------------------------
(* GetTWAP over the configured window: the average since the oldest        *)
(* observation inside it, with the number of blocks it really covers; the  *)
(* spot price, covering none, when there is no such observation.           *)
Oldest(p) ==
    LET inside == {o \in obs[p] : o.h >= acc[p].last - params.window}
    IN CHOOSE o \in inside : \A r \in inside : o.h <= r.h
GetTWAP(p) ==
    LET o == Oldest(p)
        span == acc[p].last - o.h
    IN IF span = 0 THEN [price |-> (pool[p].c * QuoteScale) \div pool[p].z, span |-> 0]
       ELSE [price |-> ((acc[p].cum - o.cum) * QuoteScale) \div (span * TwapScale), span |-> span]

(* GetZRNPrice answers for the pool of an allowlisted quote denom that     *)
(* trades, is deep enough and has a full window of prices.                 *)
Answers(p) ==
    /\ pool[p].status = "ACTIVE" /\ pool[p].denom \in params.quotes \ disabled
    /\ denomIdx[pool[p].denom] = p
    /\ pool[p].z >= params.minReserve /\ pool[p].c >= params.minReserve
    /\ GetTWAP(p).span >= params.window /\ GetTWAP(p).price > 0

-----------------------------------------------------------------------------
TypeOK ==
    /\ pool \in [Pools -> [status : OpenStatus \cup {"NONE", "CLOSED", "UNSPECIFIED"}, denom : Denoms \cup {"none"},
                           z : Nat, c : Nat, fee : 0..BpsBasis, supply : Nat]]
    /\ nextId \in Nat /\ denomIdx \in [Denoms -> Nat] /\ openIdx \subseteq Pools
    /\ custody \in [z : Nat, c : [Denoms -> Nat]] /\ lp \in [Pools -> [Users -> Nat]]
    /\ acc \in [Pools -> [start : Nat, last : Nat, cum : Nat]] /\ gcQueue \subseteq Pools
    /\ \A p \in Pools : obs[p] \subseteq [h : 1..MaxHeight, cum : Nat]

(* The module account covers the reserves of all pools together, and the   *)
(* LP coins in circulation are the shares each pool has recorded.          *)
Solvent ==
    /\ custody.z >= MapThenSumSet(LAMBDA p : pool[p].z, Pools)
    /\ \A d \in Denoms : custody.c[d] >= MapThenSumSet(LAMBDA p : pool[p].c, {p \in Pools : pool[p].denom = d})
    /\ \A p \in Pools : Held(p) = pool[p].supply

(* The two indexes name the open pools and no other, one per denom, though *)
(* a denom may have had pools before; an open pool is never empty on one   *)
(* side and a closed one holds nothing.                                    *)
IndexExact ==
    version = 5 =>
        /\ openIdx = Open
        /\ \A p \in Open : denomIdx[pool[p].denom] = p
        /\ \A d \in Denoms : denomIdx[d] # 0 => denomIdx[d] \in Open /\ pool[denomIdx[d]].denom = d
        /\ \A p \in Open : pool[p].z > 0 /\ pool[p].c > 0 /\ pool[p].supply > 0
        /\ \A p \in Pools : pool[p].status = "CLOSED" => pool[p].z = 0 /\ pool[p].c = 0 /\ pool[p].supply = 0

(* The price history is what an exported genesis may hold: one accumulator *)
(* per open pool, observations inside its window that end at it, and every *)
(* observation of a closed pool on its way out.                            *)
HistoryClean ==
    version = 5 =>
        /\ \A p \in Pools : acc[p] # NoAcc <=> p \in Open
        /\ \A p \in Pools : obs[p] # {} => p \in Open \cup gcQueue
        /\ \A p \in gcQueue : pool[p].status = "CLOSED"
        /\ \A p \in Open :
            /\ [h |-> acc[p].last, cum |-> acc[p].cum] \in obs[p]
            /\ Cardinality(obs[p]) <= params.window + 1
            /\ \A o \in obs[p] : o.h \in acc[p].start..acc[p].last /\ o.h >= acc[p].last - params.window
            /\ \A o, r \in obs[p] : o.h < r.h => o.cum <= r.cum

(* When the oracle answers, its price lies between the lowest and the      *)
(* highest price at which a block of the whole window ended: trades inside *)
(* a block that are undone in it leave no trace, nor does any rounding.    *)
OracleHonest ==
    \A p \in Open : Answers(p) =>
        LET ends == {closing[p][h] : h \in (acc[p].last - params.window)..(acc[p].last - 1)}
        IN /\ GetTWAP(p).price >= (Min(ends) * QuoteScale) \div TwapScale
           /\ GetTWAP(p).price * TwapScale <= Max(ends) * QuoteScale

(* No step of anybody lowers the value of a share: the product of the      *)
(* reserves grows at least as fast as the square of the shares.            *)
ShareValueKept ==
    \A p \in Open : pool'[p].supply > 0 =>
     pool[p].z * pool[p].c * pool'[p].supply * pool'[p].supply
         <= pool'[p].z * pool'[p].c * pool[p].supply * pool[p].supply

(* A holder whose shares are worth a coin of each side can always leave,   *)
(* in any status and when a denom's transfers are disabled ("a disabled    *)
(* asset must never trap LPs").                                            *)
ExitOpen ==
    \A p \in Open, u \in Users :
        version = 5 /\ lp[p][u] > 0 /\ Withdrawn(pool[p].z, lp[p][u], pool[p].supply) > 0
            /\ Withdrawn(pool[p].c, lp[p][u], pool[p].supply) > 0
        => ENABLED RemoveLiquidity(p, u, lp[p][u])

=============================================================================
