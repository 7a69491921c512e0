---------------------------- MODULE ReviewEscrow ----------------------------
(***************************************************************************)
(* What the knowledge module promises about the money of a claim: it is    *)
(* held from admission on, a verdict fixes who gets it, and all of it      *)
(* leaves in one step, once.  Blocks, phases, votes, the retry queue and   *)
(* the other tenants of the module account do not appear.                  *)
(***************************************************************************)
EXTENDS Naturals

CONSTANTS Ids, Amounts

VARIABLES state, held

escrowVars == <<state, held>>

Init ==
    /\ state = [i \in Ids |-> "none"]
    /\ held = [i \in Ids |-> 0]

\* A claim is admitted with its money.
Open(i, amount) ==
    /\ state[i] = "none"
    /\ state' = [state EXCEPT ![i] = "open"]
    /\ held' = [held EXCEPT ![i] = amount]

\* A verdict whose obligations the bank has not paid yet.
Decide(i) ==
    /\ state[i] = "open"
    /\ state' = [state EXCEPT ![i] = "decided"]
    /\ UNCHANGED held

\* Everything held leaves, with the verdict or after it.
Settle(i) ==
    /\ state[i] \in {"open", "decided"}
    /\ state' = [state EXCEPT ![i] = "settled"]
    /\ held' = [held EXCEPT ![i] = 0]

Next == \E i \in Ids : (\E amount \in Amounts : Open(i, amount)) \/ Decide(i) \/ Settle(i)

Spec == Init /\ [][Next]_escrowVars

=============================================================================
