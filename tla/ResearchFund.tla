--------------------------- MODULE ResearchFund ---------------------------
(***************************************************************************)
(* x/gov: the committee of the research fund. Two core voters and, from    *)
(* the second phase on, elected community seats approve spends; seats are  *)
(* filled by nomination, acceptance and a stake-weighted vote. Changes of  *)
(* phase are decided by LIPs (GovLIP); here one may activate in any block, *)
(* as the last step of the begin blocker.                                  *)
(***************************************************************************)
EXTENDS Integers, Sequences, FiniteSetsExt

CONSTANTS Nobody,           \* the empty address of a vacant seat
          Pairs,            \* core voters the authority may appoint: pairs of addresses
          Candidates,       \* addresses that satisfy tier and voting history
          Voters, Bonded,   \* voters of elections and their bonded stake
          Options,          \* options they choose from
          Quorum, Support, RunoffMargin,
          AcceptBlocks, SeatDiscussion, SeatVoting, SeatTerm, Stagger,
          SpendDiscussion, SpendVoting,
          Amounts, InitialBalance,
          FirstPhases, Moves, \* phases to start from, and changes of phase a block may activate
          Holds,            \* whether an emergency hold can come
          MaxNominations,   \* bound: nominations
          MaxSpends,        \* bound: spend proposals
          OpenUntil,        \* bound: last block that opens a nomination or a spend
          MaxHeight         \* bound: blocks

Scale == 1000000
GenesisPair == 1
Observer == 2
Balanced == 3
FullGovernance == 4

VARIABLES phase,
          seats,    \* community seats
          terms,    \* block at which the term of each seat ends, 0 if none
          pair,     \* the core voters, <<>> before they are appointed
          el,       \* seat elections in the order of their numbers
          cast,     \* who has voted in which election
          sp,       \* spend proposals in the order of their numbers
          cvote,    \* votes of community seats on spends
          balance,  \* of the research fund
          hold,     \* emergency transition hold of x/emergency
          height
vars == <<phase, seats, terms, pair, el, cast, sp, cvote, balance, hold, height>>
elected == <<phase, seats, terms, el, cast>>
funded == <<sp, cvote, balance>>

Total == MapThenSumSet(LAMBDA v : Bonded[v], Voters)
Appointed == {<<>>} \cup Pairs
MaxSeats(p) == CASE p = Observer -> 1 [] p = Balanced -> 3 [] OTHER -> 0
Threshold(p) == CASE p \in {GenesisPair, Observer} -> 2 [] p = Balanced -> 3 [] OTHER -> 0

-----------------------------------------------------------------------------
(* Slip: the window of a vote is not checked.                             *)
MayVoteLate(i) == sp[i].stage = "voting"

-----------------------------------------------------------------------------
(* Elections. s stands for the part of the state they change: seats, terms and elections. *)
Quorate(e) == Total > 0 /\ ((e.yes + e.no + e.abstain) * Scale) \div Total >= Quorum
Elected(e) == Quorate(e) /\ e.yes + e.no > 0 /\ (e.yes * Scale) \div (e.yes + e.no) >= Support

(* Most approved first; of equals, the lower number. *)
Leader(S, e) == {f \in S : \A g \in S : e[f].yes > e[g].yes \/ (e[f].yes = e[g].yes /\ f <= g)}

InstallCommunitySeat(s, k, who, h) ==
    [s EXCEPT !.seats = [j \in 1..Max({Len(s.seats), k}) |-> IF j = k THEN who ELSE IF j <= Len(s.seats) THEN s.seats[j] ELSE Nobody],
              !.terms = [j \in 1..Max({Len(s.terms), k}) |-> IF j = k THEN h + SeatTerm ELSE IF j <= Len(s.terms) THEN s.terms[j] ELSE 0]]

Staged(e, S, st) == [i \in DOMAIN e |-> IF i \in S THEN [e[i] EXCEPT !.stage = st] ELSE e[i]]
Won(s, k, w, group, h) ==
    InstallCommunitySeat([s EXCEPT !.el = Staged(Staged(@, group, "failed"), {w}, "passed")], k, s.el[w].cand, h)
Lost(s, group) == [s EXCEPT !.el = Staged(@, group, "failed")]

NewElection(who, k, h) ==
    [cand |-> who, seat |-> k, stage |-> "nominated", yes |-> 0, no |-> 0, abstain |-> 0,
     accept |-> h + AcceptBlocks, discuss |-> 0, end |-> 0, runoff |-> FALSE, opened |-> h]
CreateRunoff(s, k, first, second, group, h) ==
    LET again(i) == [NewElection(s.el[i].cand, k, h) EXCEPT !.stage = "voting", !.accept = 0, !.end = h + SeatVoting, !.runoff = TRUE]
    IN [s EXCEPT !.el = Staged(@, group, "runoff") \o <<again(first), again(second)>>]

(* resolveContestedSeat, resolveRunoff and the single candidate of TallySeatElections. *)
ResolveContestedSeat(s, k, group, h) ==
    LET eligible == {i \in group : Elected(s.el[i])}
        first == CHOOSE i \in Leader(eligible, s.el) : TRUE
        second == CHOOSE i \in Leader(eligible \ {first}, s.el) : TRUE
    IN CASE eligible = {} -> Lost(s, group)
         [] Cardinality(eligible) = 1 -> Won(s, k, first, group, h)
         [] OTHER -> IF s.el[first].yes - s.el[second].yes > (s.el[first].yes * RunoffMargin) \div Scale
                     THEN Won(s, k, first, group, h) ELSE CreateRunoff(s, k, first, second, group, h)
ResolveRunoff(s, k, group, h) ==
    LET eligible == {i \in group : Elected(s.el[i]) /\ s.el[i].yes > 0} IN
    IF eligible = {} THEN Lost(s, group) ELSE Won(s, k, CHOOSE i \in Leader(eligible, s.el) : TRUE, group, h)
TallySeat(s, k, group, h) ==
    CASE Cardinality(group) = 1 ->
             LET i == CHOOSE j \in group : TRUE IN IF Elected(s.el[i]) THEN Won(s, k, i, group, h) ELSE Lost(s, group)
      [] Cardinality(group) > 1 /\ s.el[Min(group)].runoff -> ResolveRunoff(s, k, group, h)
      [] OTHER -> ResolveContestedSeat(s, k, group, h)

DueFor(e, k, h) == {i \in DOMAIN e : e[i].seat = k /\ e[i].stage = "voting" /\ e[i].end > 0 /\ h >= e[i].end}
DueSeats(e, h) == {k \in 1..3 : DueFor(e, k, h) # {}}

(* The seats are taken in the order of a range over a Go map: any order. *)
TallySeatElections(s, order, h) ==
    LET after[n \in 0..Len(order)] ==
            IF n = 0 THEN s ELSE TallySeat(after[n - 1], order[n], DueFor(s.el, order[n], h), h)
    IN after[Len(order)]
Orders(S) == {o \in [1..Cardinality(S) -> S] : \A k \in S : \E n \in DOMAIN o : o[n] = k}

(* ProcessSeatElectionExpiry *)
ElectionMoved(e, h) ==
    CASE e.stage = "nominated" /\ h > e.accept -> [e EXCEPT !.stage = "expired"]
      [] e.stage = "discussion" /\ e.discuss > 0 /\ h >= e.discuss -> [e EXCEPT !.stage = "voting", !.end = h + SeatVoting]
      [] OTHER -> e

(* CheckSeatTermExpiry *)
TermsExpired(s, h) ==
    LET over == {j \in DOMAIN s.terms : s.terms[j] > 0 /\ h >= s.terms[j]} IN
    [s EXCEPT !.seats = [j \in DOMAIN @ |-> IF j \in over THEN Nobody ELSE @[j]],
              !.terms = [j \in DOMAIN @ |-> IF j \in over THEN 0 ELSE @[j]]]

-----------------------------------------------------------------------------
(* Changes of phase.                                                       *)
AdvancePhase(s, h) ==
    CASE s.phase = GenesisPair -> [s EXCEPT !.phase = Observer, !.seats = <<Nobody>>, !.terms = <<0>>]
      [] s.phase = Observer ->
             [s EXCEPT !.phase = Balanced,
                       !.seats = <<IF Len(@) > 0 THEN @[1] ELSE Nobody, Nobody, Nobody>>,
                       !.terms = [j \in 1..3 |-> h + j * Stagger]]
      [] OTHER -> [s EXCEPT !.phase = FullGovernance, !.seats = <<>>, !.terms = <<>>]
ExecuteRollback(s, h) ==
    CASE s.phase = Observer -> [s EXCEPT !.phase = GenesisPair, !.seats = <<>>, !.terms = <<>>]
      [] s.phase = Balanced /\ Len(s.seats) > 1 ->
             [s EXCEPT !.phase = Observer, !.seats = SubSeq(@, 1, 1), !.terms = SubSeq(@, 1, 1)]
      [] OTHER -> [s EXCEPT !.phase = @ - 1]
Moved(s, move, h) ==
    CASE move = "advance" /\ s.phase < FullGovernance -> AdvancePhase(s, h)
      [] move = "rollback" /\ s.phase > GenesisPair -> ExecuteRollback(s, h)
      [] OTHER -> s

-----------------------------------------------------------------------------
(* Messages of elections; refused under a hold.                            *)
NominateSeatElection(who, k) ==
    /\ ~hold /\ k <= MaxSeats(phase)
    /\ height <= OpenUntil /\ Cardinality({i \in DOMAIN el : ~el[i].runoff}) < MaxNominations
    /\ el' = Append(el, NewElection(who, k, height))
    /\ UNCHANGED <<phase, seats, terms, pair, cast, funded, hold, height>>

AcceptSeatNomination(i) ==
    /\ ~hold /\ el[i].stage = "nominated" /\ height <= el[i].accept
    /\ \A j \in DOMAIN seats : seats[j] # el[i].cand
    /\ el' = [el EXCEPT ![i].stage = "discussion", ![i].discuss = height + SeatDiscussion]
    /\ UNCHANGED <<phase, seats, terms, pair, cast, funded, hold, height>>

VoteSeatElection(i, v, option) ==
    /\ ~hold /\ el[i].stage = "voting" /\ height <= el[i].end
    /\ <<i, v>> \notin cast
    /\ cast' = cast \cup {<<i, v>>}
    /\ el' = [el EXCEPT ![i][option] = @ + Bonded[v]]
    /\ UNCHANGED <<phase, seats, terms, pair, funded, hold, height>>

-----------------------------------------------------------------------------
(* Spends.                                                                 *)
Designated(v) == (\E n \in DOMAIN pair : pair[n] = v) \/ (\E j \in DOMAIN seats : seats[j] = v)

(* The deadline is checked again because a hold suppresses the begin blocker. *)
MayVote(i) == height < sp[i].end /\ sp[i].stage = "voting"

(* countResearchSpendApprovals: core votes stay with the slot, those of seats count by seat. *)
Approvals(x, votes, i) ==
    Cardinality({n \in {1, 2} : x.core[n] = "yes"}) + Cardinality({j \in DOMAIN seats : <<i, seats[j], "yes">> \in votes})

SetResearchVoters(p) ==
    /\ ~hold /\ height <= OpenUntil /\ p # pair
    /\ pair' = p
    /\ UNCHANGED <<elected, funded, hold, height>>

SubmitResearchSpend(v, amount) ==
    /\ ~hold /\ pair # <<>> /\ phase # FullGovernance /\ Designated(v)
    /\ height <= OpenUntil /\ Len(sp) < MaxSpends
    /\ sp' = Append(sp, [amount |-> amount, stage |-> "discussion", core |-> <<"", "">>,
                         start |-> height + SpendDiscussion, end |-> height + SpendDiscussion + SpendVoting])
    /\ UNCHANGED <<elected, pair, cvote, balance, hold, height>>

(* A vote that completes the approval pays at once; what cannot be paid stays in voting. *)
VoteResearchSpend(i, v, vote) ==
    LET slot == IF v = pair[1] THEN 1 ELSE IF v = pair[2] THEN 2 ELSE 0
        x == IF slot = 0 THEN sp[i] ELSE [sp[i] EXCEPT !.core[slot] = vote]
        votes == IF slot = 0 THEN cvote \cup {<<i, v, vote>>} ELSE cvote
        vetoed == \E n \in {1, 2} : x.core[n] = "no"
        paid == ~vetoed /\ Approvals(x, votes, i) >= Threshold(phase) /\ balance >= x.amount
    IN /\ ~hold /\ pair # <<>> /\ Designated(v) /\ MayVote(i)
       /\ IF slot = 0 THEN \A w \in {"yes", "no"} : <<i, v, w>> \notin cvote ELSE sp[i].core[slot] = ""
       /\ sp' = [sp EXCEPT ![i] = [x EXCEPT !.stage = IF vetoed THEN "rejected" ELSE IF paid THEN "executed" ELSE @]]
       /\ cvote' = votes
       /\ balance' = IF paid THEN balance - x.amount ELSE balance
       /\ UNCHANGED <<elected, pair, hold, height>>

(* ProcessResearchSpendExpiry: both changes may happen in one pass. *)
SpendMoved(x, h) ==
    LET y == IF x.stage = "discussion" /\ h >= x.start THEN [x EXCEPT !.stage = "voting"] ELSE x IN
    IF y.stage = "voting" /\ h >= y.end THEN [y EXCEPT !.stage = "expired"] ELSE y

-----------------------------------------------------------------------------
(* The begin blocker, which a hold suppresses.                             *)
State == [phase |-> phase, seats |-> seats, terms |-> terms, el |-> el]
BeginBlocker(order, move, h) ==
    LET opened == [State EXCEPT !.el = [i \in DOMAIN el |-> ElectionMoved(el[i], h)]]
        last == Moved(TermsExpired(TallySeatElections(opened, order, h), h), move, h)
    IN /\ sp' = [i \in DOMAIN sp |-> SpendMoved(sp[i], h)]
       /\ phase' = last.phase /\ seats' = last.seats /\ terms' = last.terms /\ el' = last.el
       /\ UNCHANGED <<pair, cast, cvote, balance, hold>>
NextBlock ==
    /\ height < MaxHeight
    /\ height' = height + 1
    /\ IF hold THEN UNCHANGED <<elected, pair, funded, hold>>
       ELSE \E order \in Orders(DueSeats(el, height + 1)), move \in Moves : BeginBlocker(order, move, height + 1)

ChangeHold ==
    /\ Holds /\ hold' = ~hold
    /\ UNCHANGED <<elected, pair, funded, height>>

Init ==
    /\ phase \in FirstPhases
    /\ seats = [j \in 1..MaxSeats(phase) |-> Nobody] /\ terms = [j \in 1..MaxSeats(phase) |-> 0]
    /\ pair \in Appointed
    /\ el = <<>> /\ cast = {} /\ sp = <<>> /\ cvote = {}
    /\ balance = InitialBalance /\ hold = FALSE /\ height = 1

Next ==
    \/ \E who \in Candidates, k \in 1..3 : NominateSeatElection(who, k)
    \/ \E i \in DOMAIN el : AcceptSeatNomination(i)
    \/ \E i \in DOMAIN el, v \in Voters, option \in Options : VoteSeatElection(i, v, option)
    \/ \E p \in Pairs : SetResearchVoters(p)
    \/ \E v \in Candidates \cup UNION {{p[1], p[2]} : p \in Pairs}, amount \in Amounts : SubmitResearchSpend(v, amount)
    \/ \E i \in DOMAIN sp, v \in Candidates \cup UNION {{p[1], p[2]} : p \in Pairs}, vote \in {"yes", "no"} : VoteResearchSpend(i, v, vote)
    \/ NextBlock
    \/ ChangeHold

Spec == Init /\ [][Next]_vars
BlockPasses == height < MaxHeight /\ height' = height + 1

-----------------------------------------------------------------------------
(* Properties.                                                             *)

(* Seats and their terms stay the same length through elections, expiries, advances and rollbacks, *)
(* which ExpireSeat relies on when it indexes both.                                                *)
TypeOK ==
    /\ phase \in GenesisPair..FullGovernance /\ pair \in Appointed /\ height \in 1..MaxHeight
    /\ Len(seats) = Len(terms) /\ Len(seats) <= 3
    /\ \A j \in DOMAIN seats : seats[j] \in Candidates \cup {Nobody} /\ terms[j] \in Nat
    /\ balance \in 0..InitialBalance /\ hold \in BOOLEAN

(* Nobody sits in a seat without a term, whatever elections and changes of phase filled or moved it, *)
(* nor beyond the term unless a hold has suppressed the begin blocker.                               *)
SeatedHasTerm == \A j \in DOMAIN seats : seats[j] # Nobody => terms[j] > (IF Holds THEN 0 ELSE height)

(* What left the fund is the sum of the spends marked executed: none is paid twice, by a late vote, *)
(* a changed pair or a changed threshold, and none is marked without being paid.                    *)
PaidOnce ==
    balance + MapThenSumSet(LAMBDA i : sp[i].amount, {i \in DOMAIN sp : sp[i].stage = "executed"}) = InitialBalance

(* A spend is paid inside its voting window only, also when a hold kept the begin blocker from expiring it. *)
PaidInTime ==
    \A i \in DOMAIN sp : sp[i].stage # "executed" /\ sp'[i].stage = "executed" => height \in sp[i].start..(sp[i].end - 1)

(* Whoever wins a seat met quorum and support, was beaten by no rival that met them in the same tally, *)
(* and led the second by more than the margin unless the tally was a runoff.                           *)
WinnersRank ==
    \A i \in DOMAIN el :
      LET rivals == {j \in DueFor(el, el[i].seat, height') \ {i} : Elected(el[j])} IN
      (el[i].stage = "voting" /\ el'[i].stage = "passed") =>
         /\ Elected(el[i])
         /\ \A j \in rivals :
              /\ el[i].yes >= el[j].yes
              /\ el[Min(DueFor(el, el[i].seat, height'))].runoff
                 \/ el[i].yes - el[j].yes > (el[i].yes * RunoffMargin) \div Scale

(* What fairness brings about where no hold suppresses the begin blocker: every nomination comes to an end, *)
(* refused, decided, or in a runoff.                                                                       *)
ElectionsEnd == \A i \in DOMAIN el : el[i].stage \in {"expired", "passed", "failed", "runoff"}

(* Likewise every spend, also one that was approved and could not be paid. *)
SpendsEnd == \A i \in DOMAIN sp : sp[i].stage \in {"executed", "rejected", "expired"}

(* types.go on the threshold of full governance: "not used - standard LIP". *)
NoCommitteeInFull ==
    \A i \in DOMAIN sp : sp[i].stage # "executed" /\ sp'[i].stage = "executed" => phase # FullGovernance

(* GOVERNANCE-MIGRATION.md: "both approvals are required for a Phase 0 spend". *)
PairDecides ==
    \A i \in DOMAIN sp : (sp[i].stage # "executed" /\ sp'[i].stage = "executed" /\ phase = GenesisPair) => sp'[i].core = <<"yes", "yes">>

(* ValidateSeatCandidate: "Must not already hold a community seat". *)
OneSeatEach == \A j, k \in DOMAIN seats : j # k /\ seats[j] = seats[k] => seats[j] = Nobody

(* Validators compute identical state: the tally of a block does not depend on the order of a range over a map. *)
TallyOrderIrrelevant ==
    \A o1, o2 \in Orders(DueSeats(el, height + 1)) :
        TallySeatElections(State, o1, height + 1) = TallySeatElections(State, o2, height + 1)
=============================================================================
