---------------------------- MODULE Sponsorship ----------------------------
(***************************************************************************)
(* x/sponsorship: a sponsor locks price times target coins behind an       *)
(* order; each verified fact of the order's domain, submitted while the    *)
(* order runs, takes one price out of it. Anyone may bring the fact, the   *)
(* submitter is paid. Facts belong to x/knowledge and change their         *)
(* standing on their own.                                                  *)
(***************************************************************************)
EXTENDS Integers, Totals

CONSTANTS Sponsors, Facts, Domains,
          Offers,             \* inputs: [price, target, duration] of an order
          MinTargetCount, MinDurationBlocks, MaxActiveBountiesPerSponsor,
          Funds,              \* coins each sponsor starts with
          MaxOrders,          \* bound: orders
          MaxHeight           \* bound: blocks

OffersAssumption ==
    /\ IsFiniteSet(Sponsors) /\ IsFiniteSet(Facts)
    /\ Offers \subseteq [price : Nat \ {0}, target : Nat \ {0}, duration : Nat \ {0}]
    /\ {MaxActiveBountiesPerSponsor, Funds, MaxOrders, MaxHeight} \subseteq Nat

VARIABLES order,     \* bounty orders by number
          fulfilled, \* fulfilment records: order and fact
          counter,   \* number of the last order
          escrow,    \* balance of the module account
          coins,     \* balance of each sponsor
          earned,    \* what the submitter of each fact has been paid
          fact,      \* facts of x/knowledge
          height
vars == <<order, fulfilled, counter, escrow, coins, earned, fact, height>>

Ids == 1..MaxOrders
NoOrder == [status |-> "NONE"]
Made == {i \in Ids : order[i].status # "NONE"}
Open == {i \in Made : order[i].status \in {"ACTIVE", "EXPIRED"}}
Paid(f) == {i \in Made : <<i, f>> \in fulfilled}

-----------------------------------------------------------------------------
(* Slip: a fulfilled or expired order expires again.                      *)
ExpiringUnlessCanceled(h) == {i \in Made : order[i].status # "CANCELED" /\ h >= order[i].end}

-----------------------------------------------------------------------------
CountActiveBountiesBySponsor(s) ==
    Cardinality({i \in Made : order[i].status = "ACTIVE" /\ order[i].sponsor = s})

(* The fact is verified, of the order's domain and not older than it. *)
Eligible(i, f) ==
    /\ fact[f].status = "VERIFIED"
    /\ fact[f].domain = order[i].domain
    /\ fact[f].at >= order[i].start

AfterPayout(o) ==
    [o EXCEPT !.done = o.done + 1, !.left = o.left - o.price,
              !.status = IF o.done + 1 >= o.target THEN "FULFILLED" ELSE o.status]

Recorded(i, f) == fulfilled \cup {<<i, f>>}

Canceled(o) == [o EXCEPT !.status = "CANCELED", !.left = 0]

Expiring(h) == {i \in Made : order[i].status = "ACTIVE" /\ h >= order[i].end}

(* The genesis carries the next number; the counter is set to one less. *)
Imported == counter

-----------------------------------------------------------------------------
Init ==
    /\ order = [i \in Ids |-> NoOrder]
    /\ fulfilled = {}
    /\ counter = 0
    /\ escrow = 0
    /\ coins = [s \in Sponsors |-> Funds]
    /\ earned = [f \in Facts |-> 0]
    /\ fact = [f \in Facts |-> [status |-> "NONE"]]
    /\ height = 1

CreateBountyOrder(s, d, x) ==
    LET total == x.price * x.target IN
    /\ counter < MaxOrders
    /\ x.target >= MinTargetCount
    /\ x.duration >= MinDurationBlocks
    /\ CountActiveBountiesBySponsor(s) < MaxActiveBountiesPerSponsor
    /\ coins[s] >= total
    /\ coins' = [coins EXCEPT ![s] = @ - total]
    /\ escrow' = escrow + total
    /\ counter' = counter + 1
    /\ order' = [order EXCEPT ![counter + 1] =
                   [status |-> "ACTIVE", sponsor |-> s, domain |-> d, price |-> x.price, target |-> x.target,
                    done |-> 0, left |-> total, start |-> height, end |-> height + x.duration]]
    /\ UNCHANGED <<fulfilled, earned, fact, height>>

FulfillBounty(i, f) ==
    /\ order[i].status = "ACTIVE"
    /\ height < order[i].end
    /\ <<i, f>> \notin fulfilled
    /\ Eligible(i, f)
    /\ escrow >= order[i].price
    /\ escrow' = escrow - order[i].price
    /\ earned' = [earned EXCEPT ![f] = @ + order[i].price]
    /\ order' = [order EXCEPT ![i] = AfterPayout(@)]
    /\ fulfilled' = Recorded(i, f)
    /\ UNCHANGED <<counter, coins, fact, height>>

CancelBountyOrder(i) ==
    LET o == order[i] IN
    /\ o.status \in {"ACTIVE", "EXPIRED"}
    /\ escrow >= o.left
    /\ escrow' = escrow - o.left
    /\ coins' = [coins EXCEPT ![o.sponsor] = @ + o.left]
    /\ order' = [order EXCEPT ![i] = Canceled(o)]
    /\ UNCHANGED <<fulfilled, counter, earned, fact, height>>

(* The next block opens with ProcessBountyExpiry. *)
BeginBlock ==
    /\ height < MaxHeight
    /\ height' = height + 1
    /\ order' = [i \in Ids |-> IF i \in Expiring(height + 1) THEN [order[i] EXCEPT !.status = "EXPIRED"] ELSE order[i]]
    /\ UNCHANGED <<fulfilled, counter, escrow, coins, earned, fact>>

(* A fact enters x/knowledge, and is verified, challenged or restored. *)
SubmitFact(f, d) ==
    /\ fact[f].status = "NONE"
    /\ fact' = [fact EXCEPT ![f] = [status |-> "PROVISIONAL", domain |-> d, at |-> height]]
    /\ UNCHANGED <<order, fulfilled, counter, escrow, coins, earned, height>>
ChangeStanding(f) ==
    /\ fact[f].status # "NONE"
    /\ fact' = [fact EXCEPT ![f].status = IF @ = "VERIFIED" THEN "CHALLENGED" ELSE "VERIFIED"]
    /\ UNCHANGED <<order, fulfilled, counter, escrow, coins, earned, height>>

(* Export of the state and import into a new chain. *)
ExportImport ==
    /\ counter' = Imported
    /\ UNCHANGED <<order, fulfilled, escrow, coins, earned, fact, height>>

Next ==
    \/ \E s \in Sponsors, d \in Domains, x \in Offers : CreateBountyOrder(s, d, x)
    \/ \E i \in Made : (\E f \in Facts : FulfillBounty(i, f)) \/ CancelBountyOrder(i)
    \/ \E f \in Facts : (\E d \in Domains : SubmitFact(f, d)) \/ ChangeStanding(f)
    \/ BeginBlock
    \/ ExportImport

Spec == Init /\ [][Next]_vars

-----------------------------------------------------------------------------
(* Every store holds what its code writes. *)
TypeOK ==
    /\ \A i \in Made :
         /\ order[i].status \in {"ACTIVE", "FULFILLED", "EXPIRED", "CANCELED"}
         /\ order[i].sponsor \in Sponsors /\ order[i].domain \in Domains
         /\ order[i].done \in 0..order[i].target /\ order[i].left \in Nat
    /\ fulfilled \subseteq Made \X Facts
    /\ counter \in 0..MaxOrders /\ escrow \in Nat
    /\ coins \in [Sponsors -> Nat] /\ earned \in [Facts -> Nat]

(* The module account holds exactly what is left of the orders; an order that
   is still open is left the price of every artifact it still wants, any other
   one nothing ("FULFILLED or CANCELED bounties have no escrow to return"), and
   what sponsors had is theirs, in escrow or was earned. *)
EscrowExact ==
    /\ Total([s \in Sponsors |-> Funds]) = Total(coins) + escrow + Total(earned)
    /\ escrow = Total([i \in Made |-> order[i].left])
    /\ \A i \in Made : order[i].left =
         IF i \in Open THEN order[i].price * (order[i].target - order[i].done) ELSE 0

(* Each fact is paid once by each order that took it and by no other order,
   whatever its standing did since. *)
PaidByRecord ==
    /\ \A f \in Facts : earned[f] = Total([i \in Paid(f) |-> order[i].price])
    /\ \A i \in Made : order[i].done = Cardinality({f \in Facts : <<i, f>> \in fulfilled})

(* No order pays for work done before it was opened or after it ended. *)
WorkInsideOrder ==
    \A r \in fulfilled : fact[r[2]].at \in order[r[1]].start..(order[r[1]].end - 1)

(* An order that takes facts has not passed its end, and no sponsor has more
   such orders than allowed, though orders leave that state on three paths. *)
ActiveIsCurrent ==
    /\ \A i \in Made : order[i].status = "ACTIVE" => height < order[i].end
    /\ \A s \in Sponsors : CountActiveBountiesBySponsor(s) <= MaxActiveBountiesPerSponsor

(* The orders on record are the numbers given out so far, so a new order never
   overwrites an old one and its escrow, also after an export and import. *)
NumbersFresh == Made = 1..counter

(* An order that stopped for good is never touched again. *)
ClosedStaysClosed ==
    \A i \in Made : order[i].status \in {"FULFILLED", "CANCELED"} => order'[i] = order[i]

(* What is true of every state, and the promise of the module. *)
BountiesSafe == TypeOK /\ EscrowExact /\ PaidByRecord /\ WorkInsideOrder /\ ActiveIsCurrent /\ NumbersFresh
BountiesPaidOnce == []BountiesSafe /\ [][ClosedStaysClosed]_vars
=============================================================================
