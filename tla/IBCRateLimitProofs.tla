------------------------- MODULE IBCRateLimitProofs -------------------------
(* Proofs about IBCRateLimit, for any channels, denoms, amounts and limits.  *)
EXTENDS IBCRateLimit, TotalsProofs

-----------------------------------------------------------------------------
(* What a window of one limit is charged with *)

\* Whether a packet uses quota of key k in a window that began at s.
Charges(p, k, s) == <<p.ch, p.denom>> = k /\ p.under /\ p.at >= s /\ p.state # "BACK"
Charge(p, k, s) == IF Charges(p, k, s) THEN p.amt ELSE 0

ChargedIn(P, k, s) == {p \in P : Charges(p, k, s)}
Load(P, k, s) == Total([p \in ChargedIn(P, k, s) |-> p.amt])

\* The load of finitely many packets is an amount.
LEMMA LoadNat ==
    ASSUME AmountsAssumption, NEW P \in SUBSET PacketRecord, IsFiniteSet(P), NEW k, NEW s
    PROVE  Load(P, k, s) \in Nat
  <1>. DEFINE C == ChargedIn(P, k, s)
              f == [p \in C |-> p.amt]
  <1>1. C \in SUBSET P
    BY DEF ChargedIn
  <1>2. IsFiniteSet(C)
    <2>. HIDE DEF C
    <2>. QED
      BY <1>1, FS_Subset
  <1>3. f \in [C -> Nat]
    <2>. HIDE DEF C
    <2>. QED
      BY <1>1 DEF AmountsAssumption, PacketRecord
  <1>. HIDE DEF C, f
  <1>4. Total(f) \in Nat
    BY <1>2, <1>3, TotalNat
  <1>. QED
    BY <1>4 DEF Load, f, C

\* A new packet adds its charge.
LEMMA LoadAdd ==
    ASSUME AmountsAssumption, NEW P \in SUBSET PacketRecord, IsFiniteSet(P),
           NEW x \in PacketRecord, x \notin P, NEW k, NEW s
    PROVE  Load(P \cup {x}, k, s) = Load(P, k, s) + Charge(x, k, s)
  <1>. DEFINE C == ChargedIn(P, k, s)
              f == [p \in C |-> p.amt]
  <1>1. C \in SUBSET P
    BY DEF ChargedIn
  <1>2. IsFiniteSet(C) /\ x \notin C
    <2>. HIDE DEF C
    <2>. QED
      BY <1>1, FS_Subset
  <1>3. f \in [C -> Nat]
    <2>. HIDE DEF C
    <2>. QED
      BY <1>1 DEF AmountsAssumption, PacketRecord
  <1>4. x.amt \in Nat
    BY DEF AmountsAssumption, PacketRecord
  <1>5. CASE Charges(x, k, s)
    <2>. DEFINE g == [p \in C \cup {x} |-> p.amt]
    <2>1. ChargedIn(P \cup {x}, k, s) = C \cup {x}
      BY <1>5 DEF ChargedIn
    <2>2. g \in [C \cup {x} -> Nat] /\ (\A y \in C : g[y] = f[y]) /\ g[x] = x.amt
      <3>1. \A y \in C : f[y] = y.amt /\ f[y] \in Nat
        BY <1>3
      <3>. HIDE DEF C, f
      <3>. QED
        BY <1>4, <3>1
    <2>3. Load(P \cup {x}, k, s) = Total(g) /\ Load(P, k, s) = Total(f)
      BY <2>1 DEF Load
    <2>5. Charge(x, k, s) = x.amt
      BY <1>5 DEF Charge
    <2>. HIDE DEF C, f, g
    <2>4. Total(g) = Total(f) + g[x]
      BY <1>2, <1>3, <2>2, TotalExtend
    <2>. QED
      BY <2>2, <2>3, <2>4, <2>5
  <1>6. CASE ~Charges(x, k, s)
    <2>1. ChargedIn(P \cup {x}, k, s) = C
      BY <1>6 DEF ChargedIn
    <2>2. Load(P, k, s) \in Nat
      BY LoadNat
    <2>3. Load(P \cup {x}, k, s) = Load(P, k, s)
      BY <2>1 DEF Load
    <2>4. Charge(x, k, s) = 0
      BY <1>6 DEF Charge
    <2>. HIDE DEF C, f
    <2>. QED
      BY <2>2, <2>3, <2>4
  <1>. QED
    BY <1>5, <1>6

\* A packet that is replaced changes the load by the difference of the charges.
LEMMA LoadReplace ==
    ASSUME AmountsAssumption, NEW P \in SUBSET PacketRecord, IsFiniteSet(P), NEW p \in P,
           NEW q \in PacketRecord, q \notin P \ {p}, NEW k, NEW s
    PROVE  /\ Load((P \ {p}) \cup {q}, k, s) = Load(P, k, s) - Charge(p, k, s) + Charge(q, k, s)
           /\ Charge(p, k, s) <= Load(P, k, s)
  <1>. DEFINE R == P \ {p}
  <1>1. R \in SUBSET PacketRecord /\ p \in PacketRecord /\ p \notin R /\ P = R \cup {p}
    OBVIOUS
  <1>2. IsFiniteSet(R)
    BY FS_RemoveElement
  <1>. HIDE DEF R
  <1>3. Load(P, k, s) = Load(R, k, s) + Charge(p, k, s)
    BY <1>1, <1>2, LoadAdd
  <1>4. Load(R \cup {q}, k, s) = Load(R, k, s) + Charge(q, k, s)
    BY <1>1, <1>2, LoadAdd DEF R
  <1>5. Load(R, k, s) \in Nat /\ Charge(p, k, s) \in Nat /\ Charge(q, k, s) \in Nat
    BY <1>1, <1>2, LoadNat DEF Charge, AmountsAssumption, PacketRecord
  <1>. QED
    BY <1>3, <1>4, <1>5 DEF R

-----------------------------------------------------------------------------
(* The inductive invariant *)

\* Core IBC numbers the packets of a channel.
Numbered ==
    /\ IsFiniteSet(packets)
    /\ \A p \in packets : p.seq < seq[p.ch]
    /\ \A p, q \in packets : p.ch = q.ch /\ p.seq = q.seq => p = q

\* What the counters of limit l of key k say of the histories g, r and c of its
\* window, of the packets P and of height h.
Honest(l, k, g, r, c, P, h) ==
    /\ l \in LimitRecord
    /\ l.start <= h
    /\ g - r <= l.send /\ l.send <= l.maxSend
    /\ l.recv = c /\ l.recv <= l.maxRecv
    /\ l.send <= Load(P, k, l.start)

AllHonest ==
    \A k \in Keys : \A l \in limit[k] :
        Honest(l, k, gross[k], refunded[k], received[k], packets, height)

IInv == TypeOK /\ Numbered /\ FlowsTrackPackets /\ AllHonest

\* A key has at most one limit.
LEMMA OneLimitPerKey ==
    ASSUME TypeOK, NEW k \in Keys, Limited(k)
    PROVE  The(k) \in limit[k] /\ limit[k] = {The(k)} /\ The(k) \in LimitRecord
  <1>1. The(k) \in limit[k]
    BY DEF The, Limited
  <1>. QED
    BY <1>1 DEF TypeOK

\* A window that runs out leaves an honest limit.
LEMMA ResetHonest ==
    ASSUME AmountsAssumption, NEW P \in SUBSET PacketRecord, IsFiniteSet(P), NEW k, NEW l,
           NEW g \in Nat, NEW r \in Nat, NEW c \in Nat, NEW h \in Nat, NEW n \in Nat, h <= n,
           Honest(l, k, g, r, c, P, h)
    PROVE  /\ Expired(l, n) => Honest(maybeResetWindow(l, n), k, 0, 0, 0, P, n)
           /\ ~Expired(l, n) => Honest(maybeResetWindow(l, n), k, g, r, c, P, n)
  <1>1. CASE Expired(l, n)
    <2>. DEFINE m == maybeResetWindow(l, n)
    <2>0. l \in LimitRecord
      BY DEF Honest
    <2>1. m = [l EXCEPT !.send = 0, !.recv = 0, !.start = n]
      BY <1>1 DEF maybeResetWindow
    <2>. HIDE DEF m
    <2>2. m \in LimitRecord /\ m.send = 0 /\ m.recv = 0 /\ m.start = n /\ m.maxSend \in Nat /\ m.maxRecv \in Nat
      BY <2>0, <2>1 DEF LimitRecord
    <2>3. Load(P, k, m.start) \in Nat
      BY LoadNat
    <2>4. Honest(m, k, 0, 0, 0, P, n)
      BY <2>2, <2>3 DEF Honest
    <2>. QED
      BY <1>1, <2>4 DEF m
  <1>2. CASE ~Expired(l, n)
    <2>1. maybeResetWindow(l, n) = l
      BY <1>2 DEF maybeResetWindow
    <2>2. Honest(l, k, g, r, c, P, n)
      BY DEF Honest, LimitRecord
    <2>. QED
      BY <1>2, <2>1, <2>2
  <1>. QED
    BY <1>1, <1>2

\* A limit stays honest when the packets change without changing its load.
LEMMA SameLoadHonest ==
    ASSUME NEW P, NEW Q, NEW k, NEW l, NEW g, NEW r, NEW c, NEW h,
           Honest(l, k, g, r, c, P, h), Load(Q, k, l.start) = Load(P, k, l.start)
    PROVE  Honest(l, k, g, r, c, Q, h)
  BY DEF Honest

\* A chain without packets satisfies the invariant.
LEMMA InitHolds ==
    ASSUME AmountsAssumption, Init
    PROVE  IInv
  <1>1. TypeOK
    BY DEF Init, TypeOK
  <1>2. Numbered
    BY FS_EmptySet DEF Init, Numbered
  <1>3. FlowsTrackPackets /\ AllHonest
    BY DEF Init, FlowsTrackPackets, AllHonest
  <1>. QED
    BY <1>1, <1>2, <1>3 DEF IInv

-----------------------------------------------------------------------------
(* The actions, one by one *)

\* What every lemma below uses of the packets.
LEMMA PacketsTyped ==
    ASSUME IInv
    PROVE  /\ packets \in SUBSET PacketRecord /\ IsFiniteSet(packets) /\ height \in Nat
           /\ \A k \in Keys : gross[k] \in Nat /\ refunded[k] \in Nat /\ received[k] \in Nat
  BY DEF IInv, TypeOK, Numbered

\* A limit that is added starts honest.
LEMMA AddKeeps ==
    ASSUME AmountsAssumption, LimitsAssumption, IInv, NEW k \in Keys, NEW c \in Limits,
           AddRateLimit(k, c)
    PROVE  IInv'
  <1>. DEFINE n == [maxSend |-> c.maxSend, maxRecv |-> c.maxRecv, window |-> c.window,
                    send |-> 0, recv |-> 0, start |-> 0]
  <1>1. n \in LimitRecord /\ n.send = 0 /\ n.recv = 0 /\ n.start = 0
    BY DEF LimitsAssumption, LimitRecord
  <1>2. limit' = [limit EXCEPT ![k] = {n}]
    BY DEF AddRateLimit
  <1>. HIDE DEF n
  <1>3. TypeOK'
    <2>1. limit' \in [Keys -> SUBSET LimitRecord]
      BY <1>1, <1>2 DEF IInv, TypeOK
    <2>2. \A j \in Keys : \A l, m \in limit'[j] : l = m
      BY <1>2 DEF IInv, TypeOK
    <2>. QED
      BY <2>1, <2>2 DEF IInv, TypeOK, AddRateLimit
  <1>4. Numbered'
    BY DEF IInv, Numbered, AddRateLimit
  <1>5. FlowsTrackPackets'
    BY DEF IInv, FlowsTrackPackets, Flying, AddRateLimit
  <1>6. Load(packets, k, n.start) \in Nat
    BY PacketsTyped, LoadNat
  <1>7. Honest(n, k, 0, 0, 0, packets, height)
    BY <1>1, <1>6, PacketsTyped DEF Honest, LimitRecord
  <1>8. AllHonest'
    <2>. SUFFICES ASSUME NEW j \in Keys, NEW l \in limit'[j]
                  PROVE  Honest(l, j, gross'[j], refunded'[j], received'[j], packets', height')
      BY DEF AllHonest, Honest, Load, ChargedIn, Charges, Total, Coins
    <2>1. packets' = packets /\ height' = height
      BY DEF AddRateLimit
    <2>2. CASE j = k
      <3>1. l = n
        BY <1>2, <2>2 DEF IInv, TypeOK
      <3>2. gross'[j] = 0 /\ refunded'[j] = 0 /\ received'[j] = 0
        BY <2>2 DEF IInv, TypeOK, AddRateLimit
      <3>. QED
        BY <1>7, <2>1, <2>2, <3>1, <3>2
    <2>3. CASE j # k
      <3>1. /\ l \in limit[j]
            /\ gross'[j] = gross[j] /\ refunded'[j] = refunded[j] /\ received'[j] = received[j]
        BY <1>2, <2>3 DEF IInv, TypeOK, AddRateLimit
      <3>2. Honest(l, j, gross[j], refunded[j], received[j], packets, height)
        BY <3>1 DEF IInv, AllHonest
      <3>. QED
        BY <2>1, <3>1, <3>2
    <2>. QED
      BY <2>2, <2>3
  <1>. QED
    BY <1>3, <1>4, <1>5, <1>8 DEF IInv

\* Removing a limit takes its packets out of its charge; other keys keep theirs.
LEMMA RemoveKeeps ==
    ASSUME AmountsAssumption, IInv, NEW k \in Keys, RemoveRateLimit(k)
    PROVE  IInv'
  <1>. DEFINE off(p) == IF <<p.ch, p.denom>> = k THEN [p EXCEPT !.under = FALSE] ELSE p
  <1>1. packets' = {off(p) : p \in packets}
    BY DEF RemoveRateLimit
  <1>2. \A p \in packets :
           /\ off(p) \in PacketRecord
           /\ off(p).ch = p.ch /\ off(p).seq = p.seq /\ off(p).denom = p.denom /\ off(p).amt = p.amt
           /\ off(p).state = p.state
           /\ <<p.ch, p.denom>> # k => off(p) = p
    BY DEF IInv, TypeOK, PacketRecord
  <1>. HIDE DEF off
  <1>3. TypeOK'
    <2>1. limit' \in [Keys -> SUBSET LimitRecord]
      BY DEF IInv, TypeOK, RemoveRateLimit
    <2>2. \A j \in Keys : \A l, m \in limit'[j] : l = m
      BY DEF IInv, TypeOK, RemoveRateLimit
    <2>3. packets' \subseteq PacketRecord
      BY <1>1, <1>2
    <2>. QED
      BY <2>1, <2>2, <2>3 DEF IInv, TypeOK, RemoveRateLimit
  <1>4. Numbered'
    <2>1. IsFiniteSet(packets')
      <3>. DEFINE f == [p \in packets |-> off(p)]
      <3>1. f \in Surjection(packets, packets')
        BY <1>1 DEF Surjection
      <3>. HIDE DEF f
      <3>. QED
        BY <3>1, FS_Surjection DEF IInv, Numbered
    <2>2. \A p \in packets' : p.seq < seq'[p.ch]
      BY <1>1, <1>2 DEF IInv, Numbered, RemoveRateLimit
    <2>3. \A p, q \in packets' : p.ch = q.ch /\ p.seq = q.seq => p = q
      BY <1>1, <1>2 DEF IInv, Numbered
    <2>. QED
      BY <2>1, <2>2, <2>3 DEF Numbered
  <1>5. FlowsTrackPackets'
    <2>. SUFFICES ASSUME NEW f \in flows
                  PROVE  \E p \in packets' : p.state = "FLYING" /\ p.ch = f.ch /\ p.seq = f.seq
                                             /\ p.denom = f.denom /\ p.amt = f.amt
      BY DEF FlowsTrackPackets, Flying, RemoveRateLimit
    <2>1. PICK p \in packets : p.state = "FLYING" /\ p.ch = f.ch /\ p.seq = f.seq
                               /\ p.denom = f.denom /\ p.amt = f.amt
      BY DEF IInv, FlowsTrackPackets, Flying
    <2>2. off(p) \in packets'
      BY <1>1
    <2>. QED
      BY <1>2, <2>1, <2>2
  <1>6. ASSUME NEW j \in Keys, j # k, NEW s
        PROVE  ChargedIn(packets', j, s) = ChargedIn(packets, j, s)
    <2>1. \A p \in packets : Charges(p, j, s) => off(p) = p
      BY <1>2, <1>6 DEF Charges
    <2>2. \A p \in packets : Charges(off(p), j, s) => off(p) = p
      BY <1>2, <1>6 DEF Charges
    <2>. QED
      BY <1>1, <2>1, <2>2 DEF ChargedIn
  <1>7. AllHonest'
    <2>. SUFFICES ASSUME NEW j \in Keys, NEW l \in limit'[j]
                  PROVE  Honest(l, j, gross'[j], refunded'[j], received'[j], packets', height')
      BY DEF AllHonest, Honest, Load, ChargedIn, Charges, Total, Coins
    <2>1. j # k /\ l \in limit[j]
      BY DEF IInv, TypeOK, RemoveRateLimit
    <2>2. Honest(l, j, gross[j], refunded[j], received[j], packets, height)
      BY <2>1 DEF IInv, AllHonest
    <2>3. Load(packets', j, l.start) = Load(packets, j, l.start)
      BY <1>6, <2>1 DEF Load
    <2>4. Honest(l, j, gross[j], refunded[j], received[j], packets', height)
      BY <2>2, <2>3, SameLoadHonest
    <2>. QED
      BY <2>4 DEF RemoveRateLimit
  <1>. QED
    BY <1>3, <1>4, <1>5, <1>7 DEF IInv

\* The limit and the histories of a key when the code looks at them at height n.
LEMMA LookHonest ==
    ASSUME AmountsAssumption, IInv, NEW k \in Keys, Limited(k), NEW n \in Nat, height <= n
    PROVE  /\ maybeResetWindow(The(k), n) \in LimitRecord
           /\ Honest(maybeResetWindow(The(k), n), k, Afresh(gross, k, n), Afresh(refunded, k, n),
                     Afresh(received, k, n), packets, n)
           /\ Afresh(gross, k, n) \in Nat /\ Afresh(refunded, k, n) \in Nat /\ Afresh(received, k, n) \in Nat
  <1>. DEFINE l == The(k)
  <1>1. l \in limit[k]
    BY OneLimitPerKey DEF IInv
  <1>2. Honest(l, k, gross[k], refunded[k], received[k], packets, height)
    BY <1>1 DEF IInv, AllHonest
  <1>. HIDE DEF l
  <1>3. /\ Expired(l, n) => Honest(maybeResetWindow(l, n), k, 0, 0, 0, packets, n)
        /\ ~Expired(l, n) => Honest(maybeResetWindow(l, n), k, gross[k], refunded[k], received[k], packets, n)
    BY <1>2, PacketsTyped, ResetHonest
  <1>4. CASE Expired(l, n)
    <2>1. Afresh(gross, k, n) = 0 /\ Afresh(refunded, k, n) = 0 /\ Afresh(received, k, n) = 0
      BY <1>4 DEF Afresh, Restarted, l
    <2>2. Honest(maybeResetWindow(l, n), k, Afresh(gross, k, n), Afresh(refunded, k, n), Afresh(received, k, n), packets, n)
      BY <1>3, <1>4, <2>1
    <2>. QED
      BY <2>1, <2>2 DEF l, Honest
  <1>5. CASE ~Expired(l, n)
    <2>1. Afresh(gross, k, n) = gross[k] /\ Afresh(refunded, k, n) = refunded[k] /\ Afresh(received, k, n) = received[k]
      BY <1>5 DEF Afresh, Restarted, l
    <2>2. Honest(maybeResetWindow(l, n), k, Afresh(gross, k, n), Afresh(refunded, k, n), Afresh(received, k, n), packets, n)
      BY <1>3, <1>5, <2>1
    <2>. QED
      BY <2>1, <2>2, PacketsTyped DEF l, Honest
  <1>. QED
    BY <1>4, <1>5

\* A step that replaces the limit of key k by n and moves the histories of k, and
\* changes neither the height nor the load of any other limit, is judged by n.
LEMMA OneKeyHonest ==
    ASSUME IInv, NEW k \in Keys, NEW n, NEW g, NEW r, NEW c,
           limit' = [limit EXCEPT ![k] = {n}],
           gross' = [gross EXCEPT ![k] = g], refunded' = [refunded EXCEPT ![k] = r],
           received' = [received EXCEPT ![k] = c], height' = height,
           \A j \in Keys \ {k} : \A l \in limit[j] : Load(packets', j, l.start) = Load(packets, j, l.start),
           Honest(n, k, g, r, c, packets', height)
    PROVE  AllHonest'
  <1>. SUFFICES ASSUME NEW j \in Keys, NEW l \in limit'[j]
                PROVE  Honest(l, j, gross'[j], refunded'[j], received'[j], packets', height')
    BY DEF AllHonest, Honest, Load, ChargedIn, Charges, Total, Coins
  <1>1. CASE j = k
    <2>1. l = n /\ gross'[j] = g /\ refunded'[j] = r /\ received'[j] = c
      BY <1>1 DEF IInv, TypeOK
    <2>. QED
      BY <1>1, <2>1
  <1>2. CASE j # k
    <2>1. /\ l \in limit[j]
          /\ gross'[j] = gross[j] /\ refunded'[j] = refunded[j] /\ received'[j] = received[j]
      BY <1>2 DEF IInv, TypeOK
    <2>2. Honest(l, j, gross[j], refunded[j], received[j], packets, height)
      BY <2>1 DEF IInv, AllHonest
    <2>3. Load(packets', j, l.start) = Load(packets, j, l.start)
      BY <1>2, <2>1
    <2>4. Honest(l, j, gross[j], refunded[j], received[j], packets', height)
      BY <2>2, <2>3, SameLoadHonest
    <2>. QED
      BY <2>1, <2>4
  <1>. QED
    BY <1>1, <1>2

\* The type of the stores after such a step.
LEMMA OneKeyTyped ==
    ASSUME IInv, NEW k \in Keys, NEW n \in LimitRecord, NEW g \in Nat, NEW r \in Nat, NEW c \in Nat,
           limit' = [limit EXCEPT ![k] = {n}],
           gross' = [gross EXCEPT ![k] = g], refunded' = [refunded EXCEPT ![k] = r],
           received' = [received EXCEPT ![k] = c]
    PROVE  /\ limit' \in [Keys -> SUBSET LimitRecord]
           /\ \A j \in Keys : \A l, m \in limit'[j] : l = m
           /\ gross' \in [Keys -> Nat] /\ refunded' \in [Keys -> Nat] /\ received' \in [Keys -> Nat]
  BY DEF IInv, TypeOK

\* A packet received is counted once, in the window it arrives in.
LEMMA RecvKeeps ==
    ASSUME AmountsAssumption, IInv, NEW ch \in Channels, NEW d \in Denoms, NEW amt \in Amounts,
           OnRecvPacket(ch, d, amt)
    PROVE  IInv'
  <1>. DEFINE k == <<ch, d>>
              l == maybeResetWindow(The(k), height)
              n == CountedRecv(l, amt)
              g == Afresh(gross, k, height)
              r == Afresh(refunded, k, height)
              c == Afresh(received, k, height)
  <1>1. k \in Keys /\ Limited(k) /\ amt \in Nat
    BY DEF OnRecvPacket, Keys, AmountsAssumption
  <1>2. /\ WithinCap(l.recv, amt, l.maxRecv)
        /\ limit' = [limit EXCEPT ![k] = {n}]
        /\ gross' = [gross EXCEPT ![k] = g] /\ refunded' = [refunded EXCEPT ![k] = r]
        /\ received' = [received EXCEPT ![k] = c + amt]
        /\ packets' = packets /\ height' = height /\ flows' = flows /\ seq' = seq /\ enabled' = enabled
    BY DEF OnRecvPacket
  <1>3. n = [l EXCEPT !.recv = l.recv + amt]
    BY DEF CountedRecv
  <1>. HIDE DEF k
  <1>4. l \in LimitRecord /\ Honest(l, k, g, r, c, packets, height) /\ g \in Nat /\ r \in Nat /\ c \in Nat
    BY <1>1, LookHonest, PacketsTyped
  <1>. HIDE DEF l, n, g, r, c
  <1>5. /\ n \in LimitRecord
        /\ n.maxSend = l.maxSend /\ n.maxRecv = l.maxRecv /\ n.send = l.send /\ n.start = l.start
        /\ n.recv = l.recv + amt
    BY <1>1, <1>3, <1>4 DEF LimitRecord
  <1>6. Honest(n, k, g, r, c + amt, packets, height)
    BY <1>2, <1>4, <1>5 DEF Honest, WithinCap
  <1>7. AllHonest'
    BY <1>1, <1>2, <1>6, OneKeyHonest
  <1>8. /\ limit' \in [Keys -> SUBSET LimitRecord]
        /\ \A j \in Keys : \A m, o \in limit'[j] : m = o
        /\ gross' \in [Keys -> Nat] /\ refunded' \in [Keys -> Nat] /\ received' \in [Keys -> Nat]
    <2>1. c + amt \in Nat
      BY <1>1, <1>4
    <2>. QED
      BY <1>1, <1>2, <1>4, <1>5, <2>1, OneKeyTyped
  <1>9. TypeOK'
    BY <1>2, <1>8 DEF IInv, TypeOK
  <1>10. Numbered' /\ FlowsTrackPackets'
    BY <1>2 DEF IInv, Numbered, FlowsTrackPackets, Flying
  <1>. QED
    BY <1>7, <1>9, <1>10 DEF IInv

\* When the loads stay as they are and so do the limits, all stay honest.
LEMMA SameLimitsHonest ==
    ASSUME IInv, limit' = limit, gross' = gross, refunded' = refunded, received' = received, height' = height,
           \A j \in Keys : \A l \in limit[j] : Load(packets', j, l.start) = Load(packets, j, l.start)
    PROVE  AllHonest'
  <1>. SUFFICES ASSUME NEW j \in Keys, NEW l \in limit'[j]
                PROVE  Honest(l, j, gross'[j], refunded'[j], received'[j], packets', height')
    BY DEF AllHonest, Honest, Load, ChargedIn, Charges, Total, Coins
  <1>1. Honest(l, j, gross[j], refunded[j], received[j], packets, height)
    BY DEF IInv, AllHonest
  <1>2. Honest(l, j, gross[j], refunded[j], received[j], packets', height)
    BY <1>1, SameLoadHonest
  <1>. QED
    BY <1>2

\* A packet sent through a limit is charged to the window it is sent in, and
\* one sent past the check to none.
LEMMA SendKeeps ==
    ASSUME AmountsAssumption, IInv, NEW ch \in Channels, NEW d \in Denoms, NEW amt \in Amounts,
           SendPacket(ch, d, amt)
    PROVE  IInv'
  <1>. DEFINE k == <<ch, d>>
              counted == enabled /\ Limited(k)
              l == maybeResetWindow(The(k), height)
              n == [l EXCEPT !.send = l.send + amt]
              x == [ch |-> ch, seq |-> seq[ch], denom |-> d, amt |-> amt, at |-> height,
                    under |-> counted, state |-> "FLYING"]
              w == [ch |-> ch, seq |-> seq[ch], denom |-> d, amt |-> amt]
              g == Afresh(gross, k, height)
              r == Afresh(refunded, k, height)
              c == Afresh(received, k, height)
  <1>1. /\ k \in Keys /\ amt \in Nat /\ height \in Nat
        /\ seq \in [Channels -> Nat \ {0}] /\ seq[ch] \in Nat
    BY PacketsTyped DEF Keys, AmountsAssumption, IInv, TypeOK
  <1>2. counted => /\ WithinCap(l.send, amt, l.maxSend)
                   /\ limit' = [limit EXCEPT ![k] = {n}]
                   /\ gross' = [gross EXCEPT ![k] = g + amt]
                   /\ refunded' = [refunded EXCEPT ![k] = r]
                   /\ received' = [received EXCEPT ![k] = c]
    BY DEF SendPacket
  <1>3. ~counted => limit' = limit /\ gross' = gross /\ refunded' = refunded /\ received' = received
    BY DEF SendPacket
  <1>4. /\ seq' = [seq EXCEPT ![ch] = seq[ch] + 1] /\ flows' = flows \cup {w} /\ packets' = packets \cup {x}
        /\ height' = height /\ enabled' = enabled
    BY DEF SendPacket
  <1>5. /\ x.ch = ch /\ x.seq = seq[ch] /\ x.denom = d /\ x.amt = amt /\ x.at = height
        /\ x.under = counted /\ x.state = "FLYING" /\ counted \in BOOLEAN
        /\ w.ch = ch /\ w.seq = seq[ch] /\ w.denom = d /\ w.amt = amt
        /\ w \in [ch : Channels, seq : Nat, denom : Denoms, amt : Amounts]
    BY <1>1 DEF IInv, TypeOK, Limited
  <1>6. x \in PacketRecord
    BY <1>1, <1>5 DEF PacketRecord
  <1>. HIDE DEF x, w
  <1>7. x \notin packets
    BY <1>1, <1>5 DEF IInv, Numbered
  <1>8. \A j, s : Load(packets', j, s) = Load(packets, j, s) + Charge(x, j, s)
    BY <1>4, <1>6, <1>7, PacketsTyped, LoadAdd
  <1>9. \A j, s : j # k \/ ~counted => Charge(x, j, s) = 0
    BY <1>5 DEF Charge, Charges
  <1>10. \A j, s : j # k \/ ~counted => Load(packets', j, s) = Load(packets, j, s)
    <2>1. \A j, s : Load(packets, j, s) \in Nat
      BY PacketsTyped, LoadNat
    <2>. QED
      BY <1>8, <1>9, <2>1
  <1>11. ASSUME counted
         PROVE  AllHonest' /\ limit' \in [Keys -> SUBSET LimitRecord]
               /\ (\A j \in Keys : \A m, o \in limit'[j] : m = o)
               /\ gross' \in [Keys -> Nat] /\ refunded' \in [Keys -> Nat] /\ received' \in [Keys -> Nat]
    <2>1. l \in LimitRecord /\ Honest(l, k, g, r, c, packets, height) /\ g \in Nat /\ r \in Nat /\ c \in Nat
      BY <1>1, <1>11, LookHonest
    <2>. HIDE DEF k, l, g, r, c
    <2>2. /\ n \in LimitRecord
          /\ n.maxSend = l.maxSend /\ n.maxRecv = l.maxRecv /\ n.recv = l.recv /\ n.start = l.start
          /\ n.send = l.send + amt
      BY <1>1, <2>1 DEF LimitRecord
    <2>. HIDE DEF n
    <2>3. Charge(x, k, n.start) = amt
      BY <1>1, <1>5, <1>11, <2>1, <2>2 DEF Charge, Charges, Honest, k
    <2>4. Load(packets', k, n.start) = Load(packets, k, l.start) + amt
      BY <1>8, <2>2, <2>3
    <2>5. Load(packets, k, l.start) \in Nat
      BY PacketsTyped, LoadNat
    <2>. HIDE DEF counted
    <2>6. Honest(n, k, g + amt, r, c, packets', height)
      BY <1>1, <1>2, <1>11, <2>1, <2>2, <2>4, <2>5 DEF Honest, WithinCap, LimitRecord
    <2>7. AllHonest'
      <3>1. /\ limit' = [limit EXCEPT ![k] = {n}] /\ gross' = [gross EXCEPT ![k] = g + amt]
            /\ refunded' = [refunded EXCEPT ![k] = r] /\ received' = [received EXCEPT ![k] = c]
        BY <1>2, <1>11
      <3>2. \A j \in Keys \ {k} : \A m \in limit[j] : Load(packets', j, m.start) = Load(packets, j, m.start)
        BY <1>10
      <3>. QED
        BY <1>1, <1>4, <2>6, <3>1, <3>2, OneKeyHonest
    <2>8. g + amt \in Nat
      BY <1>1, <2>1
    <2>9. /\ limit' \in [Keys -> SUBSET LimitRecord]
          /\ \A j \in Keys : \A m, o \in limit'[j] : m = o
          /\ gross' \in [Keys -> Nat] /\ refunded' \in [Keys -> Nat] /\ received' \in [Keys -> Nat]
      BY <1>1, <1>2, <1>11, <2>1, <2>2, <2>8, OneKeyTyped
    <2>. QED
      BY <2>7, <2>9
  <1>12. ASSUME ~counted
         PROVE  AllHonest' /\ limit' \in [Keys -> SUBSET LimitRecord]
               /\ (\A j \in Keys : \A m, o \in limit'[j] : m = o)
               /\ gross' \in [Keys -> Nat] /\ refunded' \in [Keys -> Nat] /\ received' \in [Keys -> Nat]
    <2>1. AllHonest'
      BY <1>3, <1>4, <1>10, <1>12, SameLimitsHonest
    <2>. QED
      BY <1>3, <1>12, <2>1 DEF IInv, TypeOK
  <1>13. TypeOK'
    <2>1. seq' \in [Channels -> Nat \ {0}]
      BY <1>1, <1>4
    <2>2. packets' \subseteq PacketRecord
      BY <1>4, <1>6 DEF IInv, TypeOK
    <2>3. flows' \subseteq [ch : Channels, seq : Nat, denom : Denoms, amt : Amounts]
      BY <1>4, <1>5 DEF IInv, TypeOK
    <2>. QED
      BY <1>4, <1>11, <1>12, <2>1, <2>2, <2>3 DEF IInv, TypeOK
  <1>14. Numbered'
    <2>1. IsFiniteSet(packets')
      BY <1>4, PacketsTyped, FS_AddElement
    <2>2. \A p \in packets : p.ch \in Channels /\ p.seq \in Nat /\ p.seq < seq[p.ch]
      BY DEF IInv, TypeOK, Numbered, PacketRecord
    <2>3. \A p \in packets' : p.seq < seq'[p.ch]
      BY <1>1, <1>4, <1>5, <2>2
    <2>4. \A p \in packets : p.ch # x.ch \/ p.seq # x.seq
      BY <1>1, <1>5, <2>2
    <2>5. \A p, q \in packets' : p.ch = q.ch /\ p.seq = q.seq => p = q
      BY <1>4, <2>4 DEF IInv, Numbered
    <2>. QED
      BY <2>1, <2>3, <2>5 DEF Numbered
  <1>15. FlowsTrackPackets'
    <2>. SUFFICES ASSUME NEW f \in flows'
                  PROVE  \E p \in packets' : p.state = "FLYING" /\ p.ch = f.ch /\ p.seq = f.seq
                                             /\ p.denom = f.denom /\ p.amt = f.amt
      BY DEF FlowsTrackPackets, Flying
    <2>1. CASE f \in flows
      BY <1>4, <2>1 DEF IInv, FlowsTrackPackets, Flying
    <2>2. CASE f = w
      BY <1>4, <1>5, <2>2
    <2>. QED
      BY <1>4, <2>1, <2>2
  <1>. QED
    BY <1>11, <1>12, <1>13, <1>14, <1>15 DEF IInv

\* An answer to a packet under way: the packets stay numbered, every record
\* left belongs to another packet under way, and a packet that came back no
\* longer weighs on any window.
LEMMA SettledKeeps ==
    ASSUME AmountsAssumption, IInv, NEW p \in Flying, NEW st \in {"DONE", "BACK"},
           Settled(p, st), flows' = AfterAck(p), seq' = seq
    PROVE  /\ packets' \subseteq PacketRecord
           /\ flows' \subseteq [ch : Channels, seq : Nat, denom : Denoms, amt : Amounts]
           /\ Numbered' /\ FlowsTrackPackets'
           /\ st = "DONE" => \A j, s : Load(packets', j, s) = Load(packets, j, s)
           /\ st = "BACK" => \A j, s : /\ Load(packets', j, s) = Load(packets, j, s) - Charge(p, j, s)
                                       /\ Charge(p, j, s) <= Load(packets, j, s)
  <1>. DEFINE q == [p EXCEPT !.state = st]
  <1>1. p \in packets /\ p \in PacketRecord /\ p.state = "FLYING"
    BY DEF Flying, IInv, TypeOK
  <1>2. /\ q \in PacketRecord /\ q.ch = p.ch /\ q.seq = p.seq /\ q.denom = p.denom /\ q.amt = p.amt
        /\ q.at = p.at /\ q.under = p.under /\ q.state = st
    BY <1>1 DEF PacketRecord
  <1>3. packets' = (packets \ {p}) \cup {q}
    BY DEF Settled
  <1>. HIDE DEF q
  <1>4. q \notin packets \ {p}
    BY <1>1, <1>2 DEF IInv, Numbered
  <1>5. Numbered'
    <2>1. IsFiniteSet(packets')
      BY <1>3, PacketsTyped, FS_RemoveElement, FS_AddElement
    <2>2. \A x \in packets' : x.seq < seq'[x.ch]
      BY <1>1, <1>2, <1>3 DEF IInv, Numbered
    <2>3. \A x, y \in packets' : x.ch = y.ch /\ x.seq = y.seq => x = y
      BY <1>1, <1>2, <1>3 DEF IInv, Numbered
    <2>. QED
      BY <2>1, <2>2, <2>3 DEF Numbered
  <1>6. FlowsTrackPackets'
    <2>. SUFFICES ASSUME NEW f \in flows'
                  PROVE  \E x \in packets' : x.state = "FLYING" /\ x.ch = f.ch /\ x.seq = f.seq
                                             /\ x.denom = f.denom /\ x.amt = f.amt
      BY DEF FlowsTrackPackets, Flying
    <2>1. f \in flows /\ ~(f.ch = p.ch /\ f.seq = p.seq)
      BY DEF AfterAck, FlowOf
    <2>2. PICK x \in packets : x.state = "FLYING" /\ x.ch = f.ch /\ x.seq = f.seq
                               /\ x.denom = f.denom /\ x.amt = f.amt
      BY <2>1 DEF IInv, FlowsTrackPackets, Flying
    <2>3. x \in packets'
      BY <1>3, <2>1, <2>2
    <2>. QED
      BY <2>2, <2>3
  <1>7. \A j, s : /\ Load(packets', j, s) = Load(packets, j, s) - Charge(p, j, s) + Charge(q, j, s)
                  /\ Charge(p, j, s) <= Load(packets, j, s)
    BY <1>1, <1>2, <1>3, <1>4, PacketsTyped, LoadReplace
  <1>8. \A j, s : Load(packets, j, s) \in Nat /\ Charge(p, j, s) \in Nat
    BY <1>1, PacketsTyped, LoadNat DEF Charge, PacketRecord, AmountsAssumption
  <1>9. ASSUME st = "DONE", NEW j, NEW s
        PROVE  Load(packets', j, s) = Load(packets, j, s)
    <2>1. Charge(q, j, s) = Charge(p, j, s)
      BY <1>1, <1>2, <1>9 DEF Charge, Charges
    <2>. QED
      BY <1>7, <1>8, <2>1
  <1>10. ASSUME st = "BACK", NEW j, NEW s
         PROVE  Load(packets', j, s) = Load(packets, j, s) - Charge(p, j, s)
    <2>1. Charge(q, j, s) = 0
      BY <1>2, <1>10 DEF Charge, Charges
    <2>. QED
      BY <1>7, <1>8, <2>1
  <1>11. packets' \subseteq PacketRecord
    BY <1>2, <1>3 DEF IInv, TypeOK
  <1>12. flows' \subseteq [ch : Channels, seq : Nat, denom : Denoms, amt : Amounts]
    BY DEF IInv, TypeOK, AfterAck
  <1>. QED
    BY <1>5, <1>6, <1>7, <1>9, <1>10, <1>11, <1>12

\* A packet that arrived stays charged.
LEMMA AckKeeps ==
    ASSUME AmountsAssumption, IInv, NEW p \in Flying, OnSuccessAcknowledgement(p)
    PROVE  IInv'
  <1>1. Settled(p, "DONE") /\ flows' = AfterAck(p) /\ seq' = seq /\ height' = height /\ enabled' = enabled
        /\ limit' = limit /\ gross' = gross /\ refunded' = refunded /\ received' = received
    BY DEF OnSuccessAcknowledgement
  <1>2. /\ packets' \subseteq PacketRecord
        /\ flows' \subseteq [ch : Channels, seq : Nat, denom : Denoms, amt : Amounts]
        /\ Numbered' /\ FlowsTrackPackets'
        /\ \A j, s : Load(packets', j, s) = Load(packets, j, s)
    BY <1>1, SettledKeeps
  <1>3. AllHonest'
    BY <1>1, <1>2, SameLimitsHonest
  <1>4. TypeOK'
    BY <1>1, <1>2 DEF IInv, TypeOK
  <1>. QED
    BY <1>2, <1>3, <1>4 DEF IInv

\* A refund lowers the counter of the window it arrives in by no more than it
\* lowers the load, when the packet weighed on that window, and never below
\* what the window sent less what came back.
LEMMA ReverseKeeps ==
    ASSUME AmountsAssumption, IInv, NEW p \in Flying, reversePacketFlow(p)
    PROVE  IInv'
  <1>. DEFINE k == <<p.ch, p.denom>>
              st == IF FlowOf(p) # {} THEN "BACK" ELSE "DONE"
              back == FlowOf(p) # {} /\ Limited(k)
              l == The(k)
              n == Reversed(l, p.amt)
  <1>1. /\ Settled(p, st) /\ flows' = AfterAck(p) /\ seq' = seq /\ height' = height /\ enabled' = enabled
        /\ gross' = gross /\ received' = received
    BY DEF reversePacketFlow
  <1>2. back => limit' = [limit EXCEPT ![k] = {n}] /\ refunded' = [refunded EXCEPT ![k] = refunded[k] + p.amt]
    BY DEF reversePacketFlow
  <1>3. ~back => limit' = limit /\ refunded' = refunded
    BY DEF reversePacketFlow
  <1>4. p \in packets /\ p \in PacketRecord /\ k \in Keys /\ p.amt \in Nat /\ st \in {"DONE", "BACK"}
    BY DEF Flying, IInv, TypeOK, PacketRecord, Keys, AmountsAssumption
  <1>. HIDE DEF st
  <1>5. /\ packets' \subseteq PacketRecord
        /\ flows' \subseteq [ch : Channels, seq : Nat, denom : Denoms, amt : Amounts]
        /\ Numbered' /\ FlowsTrackPackets'
        /\ st = "DONE" => \A j, s : Load(packets', j, s) = Load(packets, j, s)
        /\ st = "BACK" => \A j, s : /\ Load(packets', j, s) = Load(packets, j, s) - Charge(p, j, s)
                                    /\ Charge(p, j, s) <= Load(packets, j, s)
    BY <1>1, <1>4, SettledKeeps
  <1>6. \A j, s : Load(packets, j, s) \in Nat
    BY PacketsTyped, LoadNat
  <1>7. \A j, s : j # k => Load(packets', j, s) = Load(packets, j, s)
    <2>1. \A j, s : j # k => Charge(p, j, s) = 0
      BY DEF Charge, Charges
    <2>. HIDE DEF k
    <2>. QED
      BY <1>4, <1>5, <1>6, <2>1
  <1>8. ASSUME back
        PROVE  AllHonest' /\ limit' \in [Keys -> SUBSET LimitRecord]
               /\ (\A j \in Keys : \A m, o \in limit'[j] : m = o)
               /\ gross' \in [Keys -> Nat] /\ refunded' \in [Keys -> Nat] /\ received' \in [Keys -> Nat]
    <2>1. st = "BACK"
      BY <1>8 DEF st
    <2>2. l \in limit[k] /\ l \in LimitRecord
      BY <1>4, <1>8, OneLimitPerKey DEF IInv
    <2>3. Honest(l, k, gross[k], refunded[k], received[k], packets, height)
      BY <1>4, <2>2 DEF IInv, AllHonest
    <2>4. gross[k] \in Nat /\ refunded[k] \in Nat /\ received[k] \in Nat
      BY <1>4, PacketsTyped
    <2>5. n = [l EXCEPT !.send = Max0(l.send - p.amt)]
      BY DEF Reversed
    <2>6. l.send \in Nat /\ Max0(l.send - p.amt) \in Nat
      BY <1>4, <2>2 DEF Max0, LimitRecord
    <2>. HIDE DEF l, n
    <2>7. /\ n \in LimitRecord
          /\ n.maxSend = l.maxSend /\ n.maxRecv = l.maxRecv /\ n.recv = l.recv /\ n.start = l.start
          /\ n.send = Max0(l.send - p.amt)
      BY <2>2, <2>5, <2>6 DEF LimitRecord
    <2>8. Charge(p, k, l.start) \in {0, p.amt}
      BY DEF Charge
    <2>9. Load(packets', k, n.start) = Load(packets, k, l.start) - Charge(p, k, l.start)
          /\ Charge(p, k, l.start) <= Load(packets, k, l.start)
      BY <1>5, <2>1, <2>7
    <2>. HIDE DEF k, back
    <2>10. Honest(n, k, gross[k], refunded[k] + p.amt, received[k], packets', height)
      <3>1. n.send <= Load(packets', k, n.start)
        BY <1>4, <1>6, <2>3, <2>6, <2>7, <2>8, <2>9 DEF Honest, Max0
      <3>2. n.maxSend \in Nat /\ gross[k] - refunded[k] <= l.send /\ l.send <= n.maxSend
        BY <2>2, <2>3, <2>7 DEF Honest, LimitRecord
      <3>3. gross[k] - (refunded[k] + p.amt) <= n.send /\ n.send <= n.maxSend
        BY <1>4, <2>4, <2>6, <2>7, <3>2 DEF Max0
      <3>. QED
        BY <2>3, <2>7, <3>1, <3>3 DEF Honest
    <2>11. /\ limit' = [limit EXCEPT ![k] = {n}]
           /\ refunded' = [refunded EXCEPT ![k] = refunded[k] + p.amt]
           /\ gross' = [gross EXCEPT ![k] = gross[k]] /\ received' = [received EXCEPT ![k] = received[k]]
      BY <1>1, <1>2, <1>8 DEF IInv, TypeOK
    <2>12. \A j \in Keys \ {k} : \A m \in limit[j] : Load(packets', j, m.start) = Load(packets, j, m.start)
      BY <1>7
    <2>13. AllHonest'
      BY <1>1, <1>4, <2>10, <2>11, <2>12, OneKeyHonest
    <2>14. refunded[k] + p.amt \in Nat
      BY <1>4, <2>4
    <2>15. /\ limit' \in [Keys -> SUBSET LimitRecord]
           /\ \A j \in Keys : \A m, o \in limit'[j] : m = o
           /\ gross' \in [Keys -> Nat] /\ refunded' \in [Keys -> Nat] /\ received' \in [Keys -> Nat]
      BY <1>4, <2>4, <2>7, <2>11, <2>14, OneKeyTyped
    <2>. QED
      BY <2>13, <2>15
  <1>9. ASSUME ~back
        PROVE  AllHonest' /\ limit' \in [Keys -> SUBSET LimitRecord]
               /\ (\A j \in Keys : \A m, o \in limit'[j] : m = o)
               /\ gross' \in [Keys -> Nat] /\ refunded' \in [Keys -> Nat] /\ received' \in [Keys -> Nat]
    <2>1. st = "DONE" \/ limit[k] = {}
      BY <1>9 DEF st, Limited
    <2>2. \A j \in Keys : \A m \in limit[j] : Load(packets', j, m.start) = Load(packets, j, m.start)
      BY <1>5, <1>7, <2>1
    <2>3. AllHonest'
      BY <1>1, <1>3, <1>9, <2>2, SameLimitsHonest
    <2>. QED
      BY <1>1, <1>3, <1>9, <2>3 DEF IInv, TypeOK
  <1>10. TypeOK'
    BY <1>1, <1>5, <1>8, <1>9 DEF IInv, TypeOK
  <1>. QED
    BY <1>5, <1>8, <1>9, <1>10 DEF IInv

\* A new block looks at every limit once.
LEMMA BlockKeeps ==
    ASSUME AmountsAssumption, IInv, BeginBlock
    PROVE  IInv'
  <1>1. /\ height \in Nat /\ height + 1 \in Nat /\ height <= height + 1
        /\ height' = height + 1 /\ packets' = packets /\ flows' = flows /\ seq' = seq /\ enabled' = enabled
    BY PacketsTyped DEF BeginBlock
  <1>2. /\ limit' = [k \in Keys |-> {maybeResetWindow(l, height + 1) : l \in limit[k]}]
        /\ gross' = [k \in Keys |-> Afresh(gross, k, height + 1)]
        /\ refunded' = [k \in Keys |-> Afresh(refunded, k, height + 1)]
        /\ received' = [k \in Keys |-> Afresh(received, k, height + 1)]
    BY DEF BeginBlock
  <1>3. ASSUME NEW k \in Keys
        PROVE  /\ ~Limited(k) => limit'[k] = {}
               /\ Limited(k) => limit'[k] = {maybeResetWindow(The(k), height + 1)}
    <2>1. limit'[k] = {maybeResetWindow(l, height + 1) : l \in limit[k]}
      BY <1>2
    <2>2. Limited(k) => limit[k] = {The(k)}
      BY OneLimitPerKey DEF IInv
    <2>. QED
      BY <2>1, <2>2 DEF Limited
  <1>4. \A k \in Keys : Limited(k) =>
           /\ maybeResetWindow(The(k), height + 1) \in LimitRecord
           /\ Honest(maybeResetWindow(The(k), height + 1), k, Afresh(gross, k, height + 1),
                     Afresh(refunded, k, height + 1), Afresh(received, k, height + 1), packets, height + 1)
    BY <1>1, LookHonest
  <1>5. AllHonest'
    <2>. SUFFICES ASSUME NEW k \in Keys, NEW l \in limit'[k]
                  PROVE  Honest(l, k, gross'[k], refunded'[k], received'[k], packets', height')
      BY DEF AllHonest, Honest, Load, ChargedIn, Charges, Total, Coins
    <2>1. Limited(k) /\ l = maybeResetWindow(The(k), height + 1)
      BY <1>3
    <2>2. /\ gross'[k] = Afresh(gross, k, height + 1) /\ refunded'[k] = Afresh(refunded, k, height + 1)
          /\ received'[k] = Afresh(received, k, height + 1)
      BY <1>2
    <2>. QED
      BY <1>1, <1>4, <2>1, <2>2
  <1>6. TypeOK'
    <2>1. \A k \in Keys : limit'[k] \in SUBSET LimitRecord /\ \A l, m \in limit'[k] : l = m
      BY <1>3, <1>4
    <2>2. limit' \in [Keys -> SUBSET LimitRecord]
      BY <1>2, <2>1
    <2>3. \A k \in Keys : /\ Afresh(gross, k, height + 1) \in Nat /\ Afresh(refunded, k, height + 1) \in Nat
                          /\ Afresh(received, k, height + 1) \in Nat
      BY PacketsTyped DEF Afresh
    <2>4. gross' \in [Keys -> Nat] /\ refunded' \in [Keys -> Nat] /\ received' \in [Keys -> Nat]
      BY <1>2, <2>3
    <2>. QED
      BY <1>1, <2>1, <2>2, <2>4 DEF IInv, TypeOK
  <1>7. Numbered' /\ FlowsTrackPackets'
    BY <1>1 DEF IInv, Numbered, FlowsTrackPackets, Flying
  <1>. QED
    BY <1>5, <1>6, <1>7 DEF IInv

\* Parameters, exports and steps of others touch no counter.
LEMMA IdleKeeps ==
    ASSUME IInv, limit' = limit, seq' = seq, packets' = packets, height' = height, gross' = gross,
           refunded' = refunded, received' = received, enabled' \in BOOLEAN, flows' \subseteq flows
    PROVE  IInv'
  <1>1. TypeOK'
    BY DEF IInv, TypeOK
  <1>2. Numbered' /\ FlowsTrackPackets'
    BY DEF IInv, Numbered, FlowsTrackPackets, Flying
  <1>3. AllHonest'
    BY SameLimitsHonest
  <1>. QED
    BY <1>1, <1>2, <1>3 DEF IInv

\* The invariant is inductive.
LEMMA NextKeeps ==
    ASSUME AmountsAssumption, LimitsAssumption, IInv, [Next]_vars
    PROVE  IInv'
  <1>1. ASSUME NEW k \in Keys, NEW c \in Limits, AddRateLimit(k, c)
        PROVE  IInv'
    BY <1>1, AddKeeps
  <1>2. ASSUME NEW k \in Keys, RemoveRateLimit(k)
        PROVE  IInv'
    BY <1>2, RemoveKeeps
  <1>3. ASSUME NEW b \in BOOLEAN, UpdateParams(b)
        PROVE  IInv'
    <2>1. enabled' \in BOOLEAN
      BY <1>3, Zenon DEF UpdateParams
    <2>. QED
      BY <1>3, <2>1, IdleKeeps DEF UpdateParams
  <1>4. ASSUME NEW ch \in Channels, NEW d \in Denoms, NEW amt \in Amounts, SendPacket(ch, d, amt)
        PROVE  IInv'
    BY <1>4, SendKeeps
  <1>5. ASSUME NEW ch \in Channels, NEW d \in Denoms, NEW amt \in Amounts, OnRecvPacket(ch, d, amt)
        PROVE  IInv'
    BY <1>5, RecvKeeps
  <1>6. ASSUME NEW p \in Flying, OnSuccessAcknowledgement(p)
        PROVE  IInv'
    BY <1>6, AckKeeps
  <1>7. ASSUME NEW p \in Flying, reversePacketFlow(p)
        PROVE  IInv'
    BY <1>7, ReverseKeeps
  <1>8. ASSUME BeginBlock
        PROVE  IInv'
    BY <1>8, BlockKeeps
  <1>9. ASSUME Restart
        PROVE  IInv'
    BY <1>9, IdleKeeps DEF Restart, IInv, TypeOK
  <1>10. ASSUME UNCHANGED vars
         PROVE  IInv'
    BY <1>10, IdleKeeps DEF vars, IInv, TypeOK
  <1>. QED
    BY <1>1, <1>2, <1>3, <1>4, <1>5, <1>6, <1>7, <1>8, <1>9, <1>10 DEF Next

\* The invariant holds in every state the middleware reaches.
LEMMA Invariant ==
    ASSUME AmountsAssumption, LimitsAssumption
    PROVE  Spec => []IInv
  <1>1. Init => IInv
    BY InitHolds
  <1>2. IInv /\ [Next]_vars => IInv'
    BY NextKeeps
  <1>. QED
    BY <1>1, <1>2, PTL DEF Spec

-----------------------------------------------------------------------------
(* What the limits promise, for any channels, denoms, amounts and caps *)

\* Every store holds what its code writes.
THEOREM TypeCorrect ==
    ASSUME AmountsAssumption, LimitsAssumption
    PROVE  Spec => []TypeOK
  <1>1. IInv => TypeOK
    BY DEF IInv
  <1>. QED
    BY <1>1, Invariant, PTL

\* A record of a packet is given back at most once and to the key the packet was
\* counted on: it belongs to a packet still under way, with its denom and amount.
THEOREM RecordsMatchPackets ==
    ASSUME AmountsAssumption, LimitsAssumption
    PROVE  Spec => []FlowsTrackPackets
  <1>1. IInv => FlowsTrackPackets
    BY DEF IInv
  <1>. QED
    BY <1>1, Invariant, PTL

\* In no window does more leave through a limit, less what came back in it, than
\* its cap: late refunds, switched-off checks and replaced limits included.
THEOREM OutflowCapped ==
    ASSUME AmountsAssumption, LimitsAssumption
    PROVE  Spec => []NetFlowBounded
  <1>1. IInv => NetFlowBounded
    BY DEF IInv, AllHonest, Honest, NetFlowBounded
  <1>. QED
    BY <1>1, Invariant, PTL

\* What a limit lets in during a window is what it counted, and within its cap.
THEOREM InflowCounted ==
    ASSUME AmountsAssumption, LimitsAssumption
    PROVE  Spec => []InflowExact
  <1>1. IInv => InflowExact
    BY DEF IInv, AllHonest, Honest, InflowExact
  <1>. QED
    BY <1>1, Invariant, PTL

\* Nobody is charged for a packet that came back or that an earlier window paid.
THEOREM ChargedForUseOnly ==
    ASSUME AmountsAssumption, LimitsAssumption
    PROVE  Spec => []NoOvercharge
  <1>1. IInv => NoOvercharge
    <2>1. \A k, l : Charged(k, l) = ChargedIn(packets, k, l.start)
      BY DEF Charged, ChargedIn, Charges
    <2>2. \A k, l : Total([p \in Charged(k, l) |-> p.amt]) = Load(packets, k, l.start)
      BY <2>1 DEF Load
    <2>. QED
      BY <2>2 DEF IInv, AllHonest, Honest, NoOvercharge
  <1>. QED
    BY <1>1, Invariant, PTL

\* All of it together, the promise of the rate limits: caps in both directions,
\* records of packets under way only, no charge for a packet that came back.
THEOREM LimitsKept ==
    ASSUME AmountsAssumption, LimitsAssumption
    PROVE  Spec => []FlowsStayCapped
  <1>1. TypeOK /\ FlowsTrackPackets /\ NetFlowBounded /\ InflowExact /\ NoOvercharge => FlowsStayCapped
    BY DEF FlowsStayCapped
  <1>. QED
    BY <1>1, TypeCorrect, RecordsMatchPackets, OutflowCapped, InflowCounted, ChargedForUseOnly, PTL

=============================================================================
