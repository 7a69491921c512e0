------------------------------- MODULE Tokens -------------------------------
(***************************************************************************)
(* x/tokens: a secondary token with allowances, delegated voting power and *)
(* wrapping into bank coins, and the emission periods by which governance  *)
(* mints the native coin block by block.  Handlers of one token touch no   *)
(* other, so the module has one token.                                     *)
(***************************************************************************)
EXTENDS SupplyCap, Sequences, SequencesExt, Totals

CONSTANTS Accounts, Gov, Void,
          FeatureSets,      \* what a token may allow: subsets of {"mintable", "burnable", "pausable", "wrappable"}
          Initials, Maxima, \* initial supplies, maximal supplies (0: no limit)
          Amounts,
          Ranges, Rates,    \* <<start, end>> and coins per block of emission periods
          Blocked,          \* recipients the bank refuses
          StartSupply,      \* native coins at the start
          MaxTokens, MaxHeight \* bounds

Token == [creator : Accounts, features : SUBSET UNION FeatureSets, supply : Nat, max : Nat, paused : BOOLEAN]
TokensAssumption ==
    /\ IsFiniteSet(Accounts) /\ Blocked \subseteq Accounts /\ Void \notin Token
    /\ Initials \cup Maxima \cup Amounts \cup Rates \subseteq Nat
    /\ IsFiniteSet(Ranges) /\ Ranges \subseteq Nat \X Nat
    /\ StartSupply \in 0..MaxSupply /\ MaxHeight \in Nat

VARIABLES tok,     \* the token, or Void
          bal,     \* balances
          allow,   \* allowance of <<owner, spender>>
          deleg,   \* voting power of <<delegator, delegate>>
          tot,     \* power an account delegated in total
          wrapped, \* wrapped coins of the accounts
          periods, \* emission periods by range, the preimage of the id
          latch,   \* emissions are enabled
          supply,  \* native coins
          got,     \* native coins emission paid to the accounts
          height
vars == <<tok, bal, allow, deleg, tot, wrapped, periods, latch, supply, got, height>>
emission == <<periods, latch, supply, got, height>>

Live == tok # Void /\ ~tok.paused
Undelegated(a) == IF bal[a] > tot[a] THEN bal[a] - tot[a] ELSE 0
Managers == {tok.creator, Gov}

-----------------------------------------------------------------------------
(* The token.                                                              *)
CreateToken(a, features, initial, max) ==
    /\ tok = Void
    /\ max > 0 => initial <= max
    /\ tok' = [creator |-> a, features |-> features, supply |-> initial, max |-> max, paused |-> FALSE]
    /\ bal' = [bal EXCEPT ![a] = initial]
    /\ UNCHANGED <<allow, deleg, tot, wrapped, emission>>

MintToken(who, to, amount) ==
    /\ Live /\ "mintable" \in tok.features /\ who \in Managers /\ tok.supply + amount <= MaxTokens
    /\ tok.max > 0 => tok.supply + amount <= tok.max
    /\ tok' = [tok EXCEPT !.supply = @ + amount]
    /\ bal' = [bal EXCEPT ![to] = @ + amount]
    /\ UNCHANGED <<allow, deleg, tot, wrapped, emission>>

BurnToken(a, amount) ==
    /\ Live /\ "burnable" \in tok.features /\ Undelegated(a) >= amount
    /\ tok' = [tok EXCEPT !.supply = @ - amount]
    /\ bal' = [bal EXCEPT ![a] = @ - amount]
    /\ UNCHANGED <<allow, deleg, tot, wrapped, emission>>

TransferToken(a, to, amount) ==
    /\ Live /\ a # to /\ Undelegated(a) >= amount
    /\ bal' = [bal EXCEPT ![a] = @ - amount, ![to] = @ + amount]
    /\ UNCHANGED <<tok, allow, deleg, tot, wrapped, emission>>

ApproveToken(a, spender, amount) ==
    /\ tok # Void /\ a # spender
    /\ allow' = [allow EXCEPT ![<<a, spender>>] = amount]
    /\ UNCHANGED <<tok, bal, deleg, tot, wrapped, emission>>

TransferFrom(spender, a, to, amount) ==
    /\ Live /\ a # to /\ allow[<<a, spender>>] >= amount /\ Undelegated(a) >= amount
    /\ allow' = [allow EXCEPT ![<<a, spender>>] = @ - amount]
    /\ bal' = [bal EXCEPT ![a] = @ - amount, ![to] = @ + amount]
    /\ UNCHANGED <<tok, deleg, tot, wrapped, emission>>

SetPaused(who, paused) == \* PauseToken, UnpauseToken
    /\ tok # Void /\ "pausable" \in tok.features /\ who \in Managers /\ tok.paused # paused
    /\ tok' = [tok EXCEPT !.paused = paused]
    /\ UNCHANGED <<bal, allow, deleg, tot, wrapped, emission>>

(* Sets the power delegated to one delegate, up or down. *)
DelegatePower(a, to, amount) ==
    /\ Live /\ a # to /\ amount # deleg[<<a, to>>]
    /\ Undelegated(a) >= amount - deleg[<<a, to>>]
    /\ deleg' = [deleg EXCEPT ![<<a, to>>] = amount]
    /\ tot' = [tot EXCEPT ![a] = @ + amount - deleg[<<a, to>>]]
    /\ UNCHANGED <<tok, bal, allow, wrapped, emission>>

UndelegatePower(a, to, amount) == \* works while the token is paused
    /\ tok # Void /\ a # to /\ deleg[<<a, to>>] >= amount
    /\ deleg' = [deleg EXCEPT ![<<a, to>>] = @ - amount]
    /\ tot' = [tot EXCEPT ![a] = @ - amount]
    /\ UNCHANGED <<tok, bal, allow, wrapped, emission>>

WrapToken(a, amount) ==
    /\ Live /\ "wrappable" \in tok.features /\ Undelegated(a) >= amount
    /\ bal' = [bal EXCEPT ![a] = @ - amount]
    /\ wrapped' = [wrapped EXCEPT ![a] = @ + amount]
    /\ UNCHANGED <<tok, allow, deleg, tot, emission>>

UnwrapWhilePaused(a, amount) == \* a slip of UnwrapToken
    /\ tok # Void /\ wrapped[a] >= amount
    /\ wrapped' = [wrapped EXCEPT ![a] = @ - amount]
    /\ bal' = [bal EXCEPT ![a] = @ + amount]
    /\ UNCHANGED <<tok, allow, deleg, tot, emission>>
UnwrapToken(a, amount) ==
    /\ Live /\ wrapped[a] >= amount
    /\ wrapped' = [wrapped EXCEPT ![a] = @ - amount]
    /\ bal' = [bal EXCEPT ![a] = @ + amount]
    /\ UNCHANGED <<tok, allow, deleg, tot, emission>>

BankSend(a, to, amount) == \* wrapped coins are bank coins
    /\ a # to /\ wrapped[a] >= amount
    /\ wrapped' = [wrapped EXCEPT ![a] = @ - amount, ![to] = @ + amount]
    /\ UNCHANGED <<tok, bal, allow, deleg, tot, emission>>

-----------------------------------------------------------------------------
(* Emission periods.                                                       *)
(* A second period of the same range replaces the first. *)
CreateEmissionPeriod(range, rate, to) ==
    /\ latch /\ range[1] < range[2]
    /\ periods' = [r \in DOMAIN periods \cup {range} |->
                     IF r = range THEN [rate |-> rate, to |-> to, active |-> TRUE, emitted |-> 0] ELSE periods[r]]
    /\ UNCHANGED <<tok, bal, allow, deleg, tot, wrapped, latch, supply, got, height>>

CancelEmissionPeriod(range) ==
    /\ periods[range].active
    /\ periods' = [periods EXCEPT ![range].active = FALSE]
    /\ UNCHANGED <<tok, bal, allow, deleg, tot, wrapped, latch, supply, got, height>>

UpdateParams(on) ==
    /\ latch' = on /\ on # latch
    /\ UNCHANGED <<tok, bal, allow, deleg, tot, wrapped, periods, supply, got, height>>

(* One period at block h.  Minting and paying are undone together when the bank refuses the recipient. *)
Ends(range, h) == h > range[2]
Emit(s, range, h) ==
    LET p == s.periods[range]
        minted == MintWithCap(s.supply, p.rate)
    IN IF ~p.active \/ h < range[1] THEN s
       ELSE IF Ends(range, h) THEN [s EXCEPT !.periods[range].active = FALSE]
       ELSE IF minted = 0 \/ p.to \in Blocked THEN s
       ELSE [supply |-> s.supply + minted, got |-> [s.got EXCEPT ![p.to] = @ + minted],
             periods |-> [s.periods EXCEPT ![range].emitted = @ + minted]]

\* What the first n periods of an order leave.
After(order, h) ==
    LET s[n \in 0..Len(order)] == IF n = 0 THEN [supply |-> supply, got |-> got, periods |-> periods]
                                  ELSE Emit(s[n - 1], order[n], h)
    IN s

NextBlock == \* BeginBlocker; the order of the periods is the order of their hashed ids
    /\ height < MaxHeight
    /\ height' = height + 1
    /\ \E order \in SetToSeqs(DOMAIN periods) :
         LET done == After(order, height + 1)[IF latch THEN Len(order) ELSE 0]
         IN supply' = done.supply /\ got' = done.got /\ periods' = done.periods
    /\ UNCHANGED <<tok, bal, allow, deleg, tot, wrapped, latch>>

Init ==
    /\ tok = Void /\ bal = [a \in Accounts |-> 0] /\ allow = [p \in Accounts \X Accounts |-> 0]
    /\ deleg = [p \in Accounts \X Accounts |-> 0] /\ tot = [a \in Accounts |-> 0] /\ wrapped = [a \in Accounts |-> 0]
    /\ periods = [r \in {} |-> 0] /\ latch = FALSE /\ supply = StartSupply /\ got = [a \in Accounts |-> 0] /\ height = 1

Next ==
    \/ \E a \in Accounts, f \in FeatureSets, initial \in Initials, max \in Maxima : CreateToken(a, f, initial, max)
    \/ \E who \in Accounts \cup {Gov}, to \in Accounts, n \in Amounts : MintToken(who, to, n)
    \/ \E who \in Accounts \cup {Gov}, paused \in BOOLEAN : SetPaused(who, paused)
    \/ \E a \in Accounts, n \in Amounts : BurnToken(a, n) \/ WrapToken(a, n) \/ UnwrapToken(a, n)
    \/ \E a, to \in Accounts, n \in Amounts :
         TransferToken(a, to, n) \/ UndelegatePower(a, to, n) \/ BankSend(a, to, n)
    \/ \E a, to \in Accounts, n \in Amounts \cup {0} : ApproveToken(a, to, n) \/ DelegatePower(a, to, n)
    \/ \E spender, a, to \in Accounts, n \in Amounts : TransferFrom(spender, a, to, n)
    \/ \E range \in Ranges, rate \in Rates, to \in Accounts : CreateEmissionPeriod(range, rate, to)
    \/ \E range \in DOMAIN periods : CancelEmissionPeriod(range)
    \/ \E on \in BOOLEAN : Ranges # {} /\ UpdateParams(on)
    \/ NextBlock

Spec == Init /\ [][Next]_vars

-----------------------------------------------------------------------------
(* Properties.                                                             *)
TypeOK ==
    /\ {bal, tot, wrapped, got} \subseteq [Accounts -> Nat] /\ {allow, deleg} \subseteq [Accounts \X Accounts -> Nat]
    /\ supply \in Nat /\ tok # Void => tok.supply \in Nat

(* The recorded supply is what holders have, plain or wrapped, and stays within the token's maximum. *)
SupplyAccounted ==
    tok # Void => /\ tok.supply = Total([a \in Accounts |-> bal[a] + wrapped[a]])
                  /\ tok.max > 0 => tok.supply <= tok.max

(* Delegated power is always backed by a balance, whatever is burned, spent by others or wrapped after the delegation. *)
PowerBacked ==
    \A a \in Accounts : tot[a] = Total([to \in Accounts |-> deleg[<<a, to>>]]) /\ tot[a] <= bal[a]

(* While a token is paused nobody's balance and no supply changes. *)
PauseHolds == tok # Void /\ tok' # Void /\ tok.paused /\ tok'.paused => bal' = bal /\ tok'.supply = tok.supply

(* Emission never exceeds the cap of the chain, and every minted coin reached a recipient. *)
NothingStranded == supply <= MaxSupply /\ supply = StartSupply + Total(got)

(* A period pays at most its rate for each block of its range, whatever is cancelled, re-created or switched off. *)
WithinSchedule ==
    \A r \in DOMAIN periods : periods[r].emitted <= periods[r].rate * (r[2] - r[1] + 1)

(* keeper.go: "Track total emitted (actually-minted, honouring the supply cap)": the periods account for all that was minted. *)
EmissionsTracked == supply - StartSupply = Total([r \in DOMAIN periods |-> periods[r].emitted])
=============================================================================
