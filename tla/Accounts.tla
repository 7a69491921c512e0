------------------------------ MODULE Accounts ------------------------------
(***************************************************************************)
(* x/auth and the account decorators of app/ante_zerone.go: registration   *)
(* of an address under an identity key, rotation of its operational key by *)
(* an authorization signed off chain, freezing, and the genesis checks an  *)
(* export repeats.  A DID is its identity key's name, so the DID index is  *)
(* a function on keys.  Blocks stand for block time.                       *)
(***************************************************************************)
EXTENDS Integers, Sequences, FiniteSets

CONSTANTS Addresses, Keys, None,
          Types,        \* account types registrations ask for
          Lengths,      \* lengths of metadata
          Settings,     \* parameters governance may choose: [meta, cooldown]
          TTL,          \* KeyRotationAuthorizationMaxTTL
          MaxVersion,   \* math.MaxUint32 in the code
          MaxSigned,    \* bound on authorizations signed
          MaxHeight     \* bound

Account == [type : Types, identity : Keys, key : Keys, version : 1..MaxVersion, created : 1..MaxHeight,
            active : 1..MaxHeight, frozen : BOOLEAN, meta : Lengths]

AccountsAssumption == /\ TTL \in Nat \ {0} /\ MaxVersion \in Nat /\ MaxVersion > 1 /\ MaxHeight \in Nat \ {0}
                      /\ Types \subseteq {"agent", "human", "contract", "system"}
                      /\ Lengths \subseteq Nat /\ Settings \subseteq [meta : Nat \ {0}, cooldown : Nat]
                      /\ None \notin Addresses /\ None \notin Account

VARIABLES accounts,     \* address -> account or None
          dids,         \* identity key -> address or None
          lastRotation, \* address -> block, 0: never
          params,
          signed,       \* rotation authorizations, each with the new key's acceptance, off chain
          rotated,      \* history: address -> the rotations executed
          height
vars == <<accounts, dids, lastRotation, params, signed, rotated, height>>

-----------------------------------------------------------------------------
(* The ante handler.  A message under x/authz runs in the transaction of   *)
(* its grantee, where the decorators look at the grantee only.             *)
Frozen(a) == IF accounts[a] = None THEN FALSE ELSE accounts[a].frozen

\* ZeroneAccountDecorator: no frozen signer, and a registered signer's activity is noted.
Admitted(a, authz) == authz \/ ~Frozen(a)
Noted(a, authz) == IF authz \/ accounts[a] = None THEN accounts[a] ELSE [accounts[a] EXCEPT !.active = height]

\* Any other message, or one that fails: only what the decorator wrote remains.
\* A fee granter must not be frozen either (ZeroneFeeGranterDecorator).
OtherTransaction(a, granter) ==
    /\ ~Frozen(a) /\ ~Frozen(granter)
    /\ accounts' = [accounts EXCEPT ![a] = Noted(a, FALSE)]
    /\ UNCHANGED <<dids, lastRotation, params, signed, rotated, height>>

-----------------------------------------------------------------------------
(* Messages.                                                               *)
NewAccount(k, type, len) ==
    [type |-> type, identity |-> k, key |-> k, version |-> 1, created |-> height, active |-> height,
     frozen |-> type = "system", meta |-> len]

RegisterAccount(a, k, type, len) == \* the identity key's proof is taken for granted
    /\ accounts[a] = None /\ dids[k] = None
    /\ len <= params.meta
    /\ accounts' = [accounts EXCEPT ![a] = NewAccount(k, type, len)]
    /\ dids' = [dids EXCEPT ![k] = a]
    /\ UNCHANGED <<lastRotation, params, signed, rotated, height>>

\* Off chain: the holder of the current key signs, and the new key accepts.
Sign(a, new, expires) ==
    /\ accounts[a] # None /\ Cardinality(signed) < MaxSigned
    /\ signed' = signed \cup {[addr |-> a, by |-> accounts[a].key, version |-> accounts[a].version,
                               new |-> new, expires |-> expires]}
    /\ UNCHANGED <<accounts, dids, lastRotation, params, rotated, height>>

MayRotateFrozen(a, s) == \* a slip: leaves freezing to the ante handler
    /\ accounts[a].version < MaxVersion
    /\ s.addr = a /\ s.by = accounts[a].key /\ s.version = accounts[a].version
    /\ s.new # accounts[a].key
    /\ s.expires > height /\ s.expires <= height + TTL
    /\ lastRotation[a] > 0 => height >= lastRotation[a] + params.cooldown

MayRotate(a, s) ==
    /\ ~Frozen(a) /\ accounts[a].version < MaxVersion
    /\ s.addr = a /\ s.by = accounts[a].key /\ s.version = accounts[a].version
    /\ s.new # accounts[a].key
    /\ s.expires > height /\ s.expires <= height + TTL
    /\ lastRotation[a] > 0 => height >= lastRotation[a] + params.cooldown

Rotated(a, s) == [accounts[a] EXCEPT !.key = s.new, !.version = @ + 1, !.active = height]

RotateKey(a, s, authz) ==
    /\ accounts[a] # None /\ Admitted(a, authz)
    /\ MayRotate(a, s)
    /\ accounts' = [accounts EXCEPT ![a] = Rotated(a, s)]
    /\ lastRotation' = [lastRotation EXCEPT ![a] = height]
    /\ rotated' = [rotated EXCEPT ![a] = Append(@, [by |-> s, at |-> height, wait |-> params.cooldown])]
    /\ UNCHANGED <<dids, params, signed, height>>

FreezeAccount(a, authz) == \* by its owner, or by the authority: the latter is no signer, as under authz
    /\ accounts[a] # None /\ ~Frozen(a)
    /\ accounts' = [accounts EXCEPT ![a] = [Noted(a, authz) EXCEPT !.frozen = TRUE]]
    /\ UNCHANGED <<dids, lastRotation, params, signed, rotated, height>>

UnfreezeAccount(a) == \* by the authority
    /\ Frozen(a)
    /\ accounts' = [accounts EXCEPT ![a] = [accounts[a] EXCEPT !.frozen = FALSE]]
    /\ UNCHANGED <<dids, lastRotation, params, signed, rotated, height>>

UpdateParams(p) ==
    /\ \A a \in Addresses : accounts[a] # None => accounts[a].meta <= p.meta
    /\ params' = p
    /\ UNCHANGED <<accounts, dids, lastRotation, signed, rotated, height>>

NextBlock ==
    /\ height < MaxHeight
    /\ height' = height + 1
    /\ UNCHANGED <<accounts, dids, lastRotation, params, signed, rotated>>

-----------------------------------------------------------------------------
Init == /\ accounts = [a \in Addresses |-> None]
        /\ dids = [k \in Keys |-> None]
        /\ lastRotation = [a \in Addresses |-> 0]
        /\ params \in Settings
        /\ signed = {}
        /\ rotated = [a \in Addresses |-> <<>>]
        /\ height = 1

Next == \/ NextBlock
        \/ \E p \in Settings : UpdateParams(p)
        \/ \E a \in Addresses :
              \/ UnfreezeAccount(a)
              \/ \E granter \in Addresses : OtherTransaction(a, granter)
              \/ \E k \in Keys, type \in Types, len \in Lengths : RegisterAccount(a, k, type, len)
              \/ \E new \in Keys, expires \in 1..(MaxHeight + TTL) : Sign(a, new, expires)
              \/ \E authz \in BOOLEAN : FreezeAccount(a, authz) \/ \E s \in signed : RotateKey(a, s, authz)

Spec == Init /\ [][Next]_vars

-----------------------------------------------------------------------------
(* What must hold.                                                         *)
Known == {a \in Addresses : accounts[a] # None}

Authorization == [addr : Addresses, by : Keys, version : 1..MaxVersion, new : Keys, expires : 1..(MaxHeight + TTL)]
Rotation == [by : Authorization, at : 1..MaxHeight, wait : Nat]

TypeOK ==
    /\ accounts \in [Addresses -> {None} \cup Account]
    /\ dids \in [Keys -> Addresses \cup {None}]
    /\ lastRotation \in [Addresses -> 0..MaxHeight]
    /\ params \in Settings
    /\ signed \subseteq Authorization
    /\ rotated \in [Addresses -> Seq(Rotation)]
    /\ height \in 1..MaxHeight

\* Every state the messages reach passes the checks of GenesisState.validate,
\* without which ExportGenesis panics: DIDs and accounts match one to one, an
\* unrotated account's key is its identity key, rotations are recorded exactly
\* for rotated accounts and lie within the account's activity, and no account
\* has more metadata than the parameters allow.
ExportAccepted ==
    /\ \A a \in Known : /\ accounts[a].meta <= params.meta
                        /\ accounts[a].active >= accounts[a].created
                        /\ accounts[a].version = 1 => accounts[a].key = accounts[a].identity
                        /\ accounts[a].version > 1 <=> lastRotation[a] > 0
                        /\ lastRotation[a] > 0 => lastRotation[a] \in accounts[a].created .. accounts[a].active
    /\ \A k \in Keys : dids[k] # None => dids[k] \in Known /\ accounts[dids[k]].identity = k
    /\ \A a \in Known : dids[accounts[a].identity] = a

\* An authorization rotates the key it was signed with and no other, at most
\* once, however often and late it is delivered: the version signed is that of
\* the key generation it ended (KeyRotationAuthorizationSignBytes).
AuthorizationUsedOnce ==
    \A a \in Addresses : \A i, j \in DOMAIN rotated[a] : rotated[a][i].by = rotated[a][j].by => i = j

\* Rotations of one account keep the cool-down in force at the later one,
\* whatever governance changes in between.
RotationsSpaced ==
    \A a \in Addresses : \A i \in 2..Len(rotated[a]) :
        rotated[a][i].at >= rotated[a][i-1].at + rotated[a][i].wait

\* While an account is frozen nothing of it changes, neither by its own
\* transactions nor by ones a grantee sends for it.
FrozenIsInert ==
    \A a \in Addresses : Frozen(a) /\ Frozen(a)' =>
       accounts'[a] = accounts[a] /\ lastRotation'[a] = lastRotation[a]

\* What x/auth promises: an authorization rotates one key once, however often
\* and late it is delivered, rotations keep the cool-down, a frozen account
\* does not change, and every state passes the checks of its own genesis.
AccountsSafe == TypeOK /\ ExportAccepted /\ AuthorizationUsedOnce /\ RotationsSpaced
KeysRotateOnce == []AccountsSafe /\ [][FrozenIsInert]_vars

=============================================================================
