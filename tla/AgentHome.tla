------------------------------ MODULE AgentHome ------------------------------
(***************************************************************************)
(* x/home: an agent's home with its keys, the sessions started under them, *)
(* alerts, the dead man's switch, and the parameters a vote may change.    *)
(* Homes share nothing but the id counter and the parameters, so the       *)
(* module has one home.  Only its owner (for alerts its guardian too) may  *)
(* change it, and messages of anyone else fail and are left out; but       *)
(* StartSession and EndSession ask for no owner and no holder of the key:  *)
(* any account may start a session of a registered key, which counts as    *)
(* activity of the home, and end any session.  Left out too are memory     *)
(* contents, names and spending limits, which nothing reads.               *)
(***************************************************************************)
EXTENDS Integers, FiniteSets, FiniteSetsExt

CONSTANTS Keys, None,
          Prefix,             \* first eight characters of a key hash
          Permissions,
          Grants,             \* permission sets keys are registered with
          Expiries,           \* last blocks keys are registered with, not validated; 0: never
          InitialThresholds,  \* of the dead man's switch at creation, not validated either
          ParamSets,          \* [keys, sessions, alerts: limits, timeout: of sessions, min, max: thresholds]
          Wrap,               \* 2^64 in the code
          MaxHeight           \* bound

VARIABLES home,     \* [status, threshold (0: switch off), active: last active block] or None
          keys,     \* key -> registration or None
          sessions, \* [id, key, perms, start, expires]
          alerts,   \* [id, ack]
          params, height
vars == <<home, keys, sessions, alerts, params, height>>

Statuses == {"active", "dormant", "guarded", "recovery", "archived"}
HomeRecord == [status : Statuses, threshold : Nat, active : 1..MaxHeight]
AgentHomeAssumption ==
    /\ {MaxHeight, Wrap} \subseteq Nat /\ 0 < MaxHeight /\ MaxHeight < Wrap
    /\ IsFiniteSet(Keys) /\ Grants \subseteq SUBSET Permissions
    /\ InitialThresholds \subseteq Nat /\ Expiries \subseteq Nat
    /\ ParamSets \subseteq [keys : Nat, sessions : Nat, alerts : Nat, timeout : Nat, min : Nat, max : Nat]
    /\ None \notin HomeRecord

Pending(as) == {a \in as : ~a.ack}
CountActiveKeys == Cardinality({k \in Keys : keys[k] # None /\ ~keys[k].revoked})

\* SetAlertWithLimit: a new alert replaces one of the same id, unless as many are pending as allowed.
WithAlert(as, id) ==
    IF Cardinality(Pending(as)) >= params.alerts THEN as
    ELSE {a \in as : a.id # id} \cup {[id |-> id, ack |-> FALSE]}

-----------------------------------------------------------------------------
(* The home.                                                               *)
CreateHome(threshold) ==
    /\ home = None
    /\ home' = [status |-> "active", threshold |-> threshold, active |-> height]
    /\ UNCHANGED <<keys, sessions, alerts, params, height>>

ValidStatusTransitions ==
    {<<"active", to>> : to \in Statuses \ {"active"}} \cup
    {<<from, to>> : from \in {"dormant", "guarded", "recovery"}, to \in {"active", "archived"}}

UpdateHome(status) ==
    /\ home # None /\ <<home.status, status>> \in ValidStatusTransitions
    /\ home' = [home EXCEPT !.status = status, !.active = height]
    /\ UNCHANGED <<keys, sessions, alerts, params, height>>

UpdateMemoryCID == \* or UpdateHome with a name only
    /\ home # None
    /\ home' = [home EXCEPT !.active = height]
    /\ UNCHANGED <<keys, sessions, alerts, params, height>>

ConfigureGuardian(threshold) == \* 0: disabled
    /\ home # None
    /\ threshold # 0 => threshold \in params.min..params.max
    /\ home' = [home EXCEPT !.threshold = threshold, !.active = height]
    /\ UNCHANGED <<keys, sessions, alerts, params, height>>

-----------------------------------------------------------------------------
(* Keys and sessions.                                                      *)
RegisterKey(k, perms, expires) ==
    /\ home # None /\ keys[k] = None
    /\ CountActiveKeys < params.keys
    /\ keys' = [keys EXCEPT ![k] = [perms |-> perms, revoked |-> FALSE, expires |-> expires]]
    /\ UNCHANGED <<home, sessions, alerts, params, height>>

IntersectPermissions(available, requested) ==
    IF requested = {} THEN available ELSE available \cap requested

StartSession(k, requested) == \* by any account
    /\ home # None /\ keys[k] # None
    /\ ~keys[k].revoked
    /\ keys[k].expires = 0 \/ height <= keys[k].expires
    /\ Cardinality(sessions) < params.sessions
    /\ LET id == <<Prefix[k], height>>
       IN  sessions' = {s \in sessions : s.id # id} \cup
                       {[id |-> id, key |-> k, perms |-> IntersectPermissions(keys[k].perms, requested),
                         start |-> height, expires |-> (height + params.timeout) % Wrap]}
    /\ home' = [home EXCEPT !.active = height]
    /\ UNCHANGED <<keys, alerts, params, height>>

EndSession(s) == \* by any account
    /\ s \in sessions
    /\ sessions' = sessions \ {s}
    /\ UNCHANGED <<home, keys, alerts, params, height>>

RevokeKey(k) ==
    /\ home # None /\ keys[k] # None
    /\ keys' = [keys EXCEPT ![k].revoked = TRUE]
    /\ sessions' = {s \in sessions : s.key # k}
    /\ alerts' = WithAlert(alerts, <<"revoked", Prefix[k], height>>)
    /\ UNCHANGED <<home, params, height>>

AcknowledgeAlert(a) ==
    /\ a \in alerts
    /\ alerts' = (alerts \ {a}) \cup {[a EXCEPT !.ack = TRUE]}
    /\ UNCHANGED <<home, keys, sessions, params, height>>

-----------------------------------------------------------------------------
(* A vote on the parameters.  What is stored beyond a lowered limit stays. *)
ValidParams(p) ==
    /\ p.keys > 0 /\ p.sessions > 0 /\ p.alerts > 0 /\ p.timeout > 0
    /\ 0 < p.min /\ p.min < p.max

UpdateParams(p) ==
    /\ ValidParams(p)
    /\ params' = p
    /\ UNCHANGED <<home, keys, sessions, alerts, height>>

-----------------------------------------------------------------------------
(* The begin blocker.                                                      *)
TripsArchived(h, now) == h.threshold # 0 /\ now > (h.active + h.threshold) % Wrap \* a slip
Trips(h, now) == \* CheckDeadmanSwitches
    /\ h.status # "archived" /\ h.threshold # 0
    /\ now > (h.active + h.threshold) % Wrap

NextBlock ==
    /\ height < MaxHeight
    /\ height' = height + 1
    /\ IF home = None THEN UNCHANGED <<home, sessions, alerts>>
       ELSE LET trips == Trips(home, height')
                warned == IF trips THEN WithAlert(alerts, <<"deadman", height'>>) ELSE alerts
                \* CleanupExpiredSessions passes over an archived home
                over == IF home.status = "archived" THEN {} ELSE {s \in sessions : height' > s.expires}
                told == Min({Cardinality(over), Max({0, params.alerts - Cardinality(Pending(warned))})})
            IN  /\ home' = IF trips THEN [home EXCEPT !.status = "guarded"] ELSE home
                /\ sessions' = sessions \ over
                /\ \E some \in kSubset(told, over) :
                      alerts' = warned \cup {[id |-> <<"expired", s.id, height'>>, ack |-> FALSE] : s \in some}
    /\ UNCHANGED <<keys, params>>

-----------------------------------------------------------------------------
Init ==
    /\ home = None /\ keys = [k \in Keys |-> None]
    /\ sessions = {} /\ alerts = {} /\ height = 1
    /\ params \in {p \in ParamSets : ValidParams(p)}

Next ==
    \/ \E t \in InitialThresholds \cup {0} : CreateHome(t)
    \/ \E status \in Statuses : UpdateHome(status)
    \/ UpdateMemoryCID
    \/ \E t \in {0, params.min, params.max} : ConfigureGuardian(t)
    \/ \E k \in Keys :
          \/ \E perms \in Grants, expires \in Expiries : RegisterKey(k, perms, expires)
          \/ \E requested \in SUBSET Permissions : StartSession(k, requested)
          \/ RevokeKey(k)
    \/ \E s \in sessions : EndSession(s)
    \/ \E a \in alerts : AcknowledgeAlert(a)
    \/ \E p \in ParamSets : UpdateParams(p)
    \/ NextBlock

Spec == Init /\ [][Next]_vars

-----------------------------------------------------------------------------
TypeOK ==
    /\ home \in HomeRecord \cup {None}
    /\ keys \in [Keys -> [perms : SUBSET Permissions, revoked : BOOLEAN, expires : Nat] \cup {None}]
    /\ \A s \in sessions : s.key \in Keys /\ s.perms \subseteq Permissions /\ s.start \in 1..MaxHeight /\ s.expires \in Nat
    /\ params \in ParamSets /\ height \in 1..MaxHeight

\* The keys under a session: a revoked key has no session, and a session was started no later than in the
\* last block of its key and has no permission the key lacks, even where two keys whose hashes begin alike
\* open sessions in one block and the second takes the id of the first.
SessionsUnderTheirKey ==
    \A s \in sessions :
       LET key == keys[s.key]
       IN  /\ key # None /\ ~key.revoked /\ s.perms \subseteq key.perms
           /\ key.expires # 0 => s.start <= key.expires

\* The expiry of a key is checked when a session starts and never again, so a session may outlive its key;
\* how long is bounded: in a home that is not archived every session of an earlier block is within its own
\* expiry, and within a timeout that was once in force after its key's.
SessionsEnd ==
    home # None /\ home.status # "archived" =>
       \A s \in sessions : s.start < height =>
          /\ height <= s.expires
          /\ keys[s.key].expires # 0 => \E p \in ParamSets : height <= keys[s.key].expires + p.timeout

\* The limits on sessions, keys in use and pending alerts. A vote may lower one below what a home stores;
\* from then on what exceeds it stays or shrinks, and no message, begin blocker or replaced session or
\* alert takes a number past the limit in force.
Within(old, new, max) == new <= old \/ new <= max
GrowsWithinLimits ==
    /\ Within(Cardinality(sessions), Cardinality(sessions'), params.sessions)
    /\ Within(CountActiveKeys, CountActiveKeys', params.keys)
    /\ Within(Cardinality(Pending(alerts)), Cardinality(Pending(alerts')), params.alerts)

\* The switch fires: a home left alone for longer than its threshold is guarded or archived, whatever was
\* done before and however full its alerts are. Left alone means by everyone: a session that anyone starts
\* holds the switch off.
DeadmanFires ==
    home # None => (home.threshold # 0 /\ height > home.active + home.threshold => home.status \in {"guarded", "archived"})

\* The alert of the switch says how long the home was inactive: the begin blocker guards no home that was
\* left alone for its threshold or less.
DeadmanNotEarly ==
    home # None /\ home' # None /\ height' > height /\ home'.status # home.status
     => height' > home.active + home.threshold

\* The comment of isValidStatusTransition: archived is terminal, for the owner and for the switch.
ArchivedIsTerminal == home # None /\ home.status = "archived" => home'.status = "archived"

\* What the package says of the begin blocker: it removes expired sessions.
ExpiredSessionsRemoved == \A s \in sessions : height <= s.expires
=============================================================================
