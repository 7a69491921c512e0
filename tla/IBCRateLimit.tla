--------------------------- MODULE IBCRateLimit ---------------------------
(***************************************************************************)
(* x/ibcratelimit: caps on what one channel may send and receive of one    *)
(* denom in a window of blocks. The middleware counts a packet before it   *)
(* hands it on, remembers every packet it sent, and gives the amount back  *)
(* when the packet times out or is refused. A key is a channel with a      *)
(* denom; sequence numbers belong to the channel.                          *)
(***************************************************************************)
EXTENDS Integers, FiniteSets, Totals

CONSTANTS Channels, Denoms,
          Amounts,    \* inputs: amounts of a packet
          Limits,     \* inputs: caps and window of a limit: [maxSend, maxRecv, window]
          MaxSeq,     \* bound: packets sent on a channel
          MaxHeight   \* bound: blocks

AmountsAssumption == Amounts \subseteq Nat \ {0}
LimitsAssumption == Limits \subseteq [maxSend : Nat, maxRecv : Nat, window : Nat \ {0}]

VARIABLES enabled,   \* params.enabled
          limit,     \* the stored rate limit of each key: a set of one, or empty
          flows,     \* stored packet flows
          seq,       \* next sequence of each channel (core IBC)
          packets,   \* every packet sent, with what became of it (core IBC and history)
          height,
          gross,     \* history: sent through the limit in its window, per key
          refunded,  \* history: given back in the window, per key
          received   \* history: received through the limit in its window, per key
vars == <<enabled, limit, flows, seq, packets, height, gross, refunded, received>>

Keys == Channels \X Denoms
Seqs == 1..MaxSeq
Limited(k) == limit[k] # {}
The(k) == CHOOSE l \in limit[k] : TRUE
Flying == {p \in packets : p.state = "FLYING"}
Max0(n) == IF n < 0 THEN 0 ELSE n

-----------------------------------------------------------------------------
(* Slip: a refund counts twice.                                           *)
ReversedTwice(l, amt) == [l EXCEPT !.send = Max0(l.send - 2 * amt)]

-----------------------------------------------------------------------------
Expired(l, h) == h >= l.start + l.window

(* A window that has run out starts again at h with nothing counted. *)
maybeResetWindow(l, h) == IF Expired(l, h) THEN [l EXCEPT !.send = 0, !.recv = 0, !.start = h] ELSE l

WithinCap(used, amt, cap) == used + amt <= cap

(* A refund lowers the counter of the window it arrives in, not below 0. *)
Reversed(l, amt) == [l EXCEPT !.send = Max0(l.send - amt)]

CountedRecv(l, amt) == [l EXCEPT !.recv = l.recv + amt]

(* The histories of a key follow its window. *)
Restarted(h, k) == Limited(k) /\ Expired(The(k), h)
Afresh(hist, k, h) == IF Restarted(h, k) THEN 0 ELSE hist[k]

-----------------------------------------------------------------------------
Init ==
    /\ enabled = TRUE
    /\ limit = [k \in Keys |-> {}]
    /\ flows = {}
    /\ seq = [c \in Channels |-> 1]
    /\ packets = {}
    /\ height = 1
    /\ gross = [k \in Keys |-> 0] /\ refunded = [k \in Keys |-> 0] /\ received = [k \in Keys |-> 0]

AddRateLimit(k, c) ==
    /\ ~Limited(k)
    /\ limit' = [limit EXCEPT ![k] = {[maxSend |-> c.maxSend, maxRecv |-> c.maxRecv, window |-> c.window,
                                       send |-> 0, recv |-> 0, start |-> 0]}]
    /\ gross' = [gross EXCEPT ![k] = 0]
    /\ refunded' = [refunded EXCEPT ![k] = 0]
    /\ received' = [received EXCEPT ![k] = 0]
    /\ UNCHANGED <<enabled, flows, seq, packets, height>>

RemoveRateLimit(k) ==
    /\ Limited(k)
    /\ limit' = [limit EXCEPT ![k] = {}]
    /\ packets' = {IF <<p.ch, p.denom>> = k THEN [p EXCEPT !.under = FALSE] ELSE p : p \in packets}
    /\ UNCHANGED <<enabled, flows, seq, height, gross, refunded, received>>

UpdateParams(b) ==
    /\ enabled' = b
    /\ UNCHANGED <<limit, flows, seq, packets, height, gross, refunded, received>>

(* A transfer that the quota and the channel accept: count it, hand it on, *)
(* remember it. A transfer refused by either aborts its transaction.       *)
SendPacket(ch, d, amt) ==
    LET k == <<ch, d>>
        counted == enabled /\ Limited(k)
        l == maybeResetWindow(The(k), height)
        p == [ch |-> ch, seq |-> seq[ch], denom |-> d, amt |-> amt]
    IN
    /\ seq[ch] \in Seqs
    /\ IF counted
       THEN /\ WithinCap(l.send, amt, l.maxSend)
            /\ limit' = [limit EXCEPT ![k] = {[l EXCEPT !.send = l.send + amt]}]
            /\ gross' = [gross EXCEPT ![k] = Afresh(gross, k, height) + amt]
            /\ refunded' = [refunded EXCEPT ![k] = Afresh(refunded, k, height)]
            /\ received' = [received EXCEPT ![k] = Afresh(received, k, height)]
       ELSE UNCHANGED <<limit, gross, refunded, received>>
    /\ seq' = [seq EXCEPT ![ch] = seq[ch] + 1]
    /\ flows' = flows \cup {p}
    /\ packets' = packets \cup {[ch |-> ch, seq |-> seq[ch], denom |-> d, amt |-> amt, at |-> height,
                                 under |-> counted, state |-> "FLYING"]}
    /\ UNCHANGED <<enabled, height>>

(* A packet received through the quota. A refused one, like one that the   *)
(* transfer application refuses, is answered with an error and core IBC    *)
(* drops every write it made.                                              *)
OnRecvPacket(ch, d, amt) ==
    LET k == <<ch, d>>
        l == maybeResetWindow(The(k), height)
    IN
    /\ enabled /\ Limited(k)
    /\ WithinCap(l.recv, amt, l.maxRecv)
    /\ limit' = [limit EXCEPT ![k] = {CountedRecv(l, amt)}]
    /\ received' = [received EXCEPT ![k] = Afresh(received, k, height) + amt]
    /\ gross' = [gross EXCEPT ![k] = Afresh(gross, k, height)]
    /\ refunded' = [refunded EXCEPT ![k] = Afresh(refunded, k, height)]
    /\ UNCHANGED <<enabled, flows, seq, packets, height>>

FlowOf(p) == {f \in flows : f.ch = p.ch /\ f.seq = p.seq}

(* DeletePacketFlow: the record of the packet goes, whatever became of it. *)
AfterAck(p) == flows \ FlowOf(p)

Settled(p, st) == packets' = (packets \ {p}) \cup {[p EXCEPT !.state = st]}

(* A packet that the other side took. *)
OnSuccessAcknowledgement(p) ==
    /\ flows' = AfterAck(p)
    /\ Settled(p, "DONE")
    /\ UNCHANGED <<enabled, limit, seq, height, gross, refunded, received>>

(* A timeout and an error acknowledgement give the recorded amount back,   *)
(* if the packet is on record and its key has a limit now.                 *)
reversePacketFlow(p) ==
    LET k == <<p.ch, p.denom>>
        back == FlowOf(p) # {} /\ Limited(k)
        l == The(k)
    IN
    /\ flows' = AfterAck(p)
    /\ Settled(p, IF FlowOf(p) # {} THEN "BACK" ELSE "DONE")
    /\ IF back
       THEN /\ limit' = [limit EXCEPT ![k] = {Reversed(l, p.amt)}]
            /\ refunded' = [refunded EXCEPT ![k] = refunded[k] + p.amt]
       ELSE UNCHANGED <<limit, refunded>>
    /\ UNCHANGED <<enabled, seq, height, gross, received>>

(* The next block opens with ResetExpiredWindows. *)
BeginBlock ==
    /\ height < MaxHeight
    /\ height' = height + 1
    /\ limit' = [k \in Keys |-> {maybeResetWindow(l, height + 1) : l \in limit[k]}]
    /\ gross' = [k \in Keys |-> Afresh(gross, k, height + 1)]
    /\ refunded' = [k \in Keys |-> Afresh(refunded, k, height + 1)]
    /\ received' = [k \in Keys |-> Afresh(received, k, height + 1)]
    /\ UNCHANGED <<enabled, flows, seq, packets>>

(* Export and import of the state: the genesis holds the parameters and    *)
(* the limits with their counters, not the packet flows.                   *)
Restart ==
    /\ flows # {}
    /\ flows' = {}
    /\ UNCHANGED <<enabled, limit, seq, packets, height, gross, refunded, received>>

Next ==
    \/ \E k \in Keys : (\E c \in Limits : AddRateLimit(k, c)) \/ RemoveRateLimit(k)
    \/ \E b \in BOOLEAN : UpdateParams(b)
    \/ \E ch \in Channels, d \in Denoms, amt \in Amounts :
          SendPacket(ch, d, amt) \/ OnRecvPacket(ch, d, amt)
    \/ \E p \in Flying : OnSuccessAcknowledgement(p) \/ reversePacketFlow(p)
    \/ BeginBlock
    \/ Restart

Spec == Init /\ [][Next]_vars

-----------------------------------------------------------------------------
LimitRecord ==
    [maxSend : Nat, maxRecv : Nat, window : Nat \ {0}, send : Nat, recv : Nat, start : Nat]

PacketRecord ==
    [ch : Channels, seq : Nat, denom : Denoms, amt : Amounts, at : Nat,
     under : BOOLEAN, state : {"FLYING", "DONE", "BACK"}]

(* Every store holds what its code writes. *)
TypeOK ==
    /\ enabled \in BOOLEAN
    /\ limit \in [Keys -> SUBSET LimitRecord]
    /\ \A k \in Keys : \A l, m \in limit[k] : l = m
    /\ flows \subseteq [ch : Channels, seq : Nat, denom : Denoms, amt : Amounts]
    /\ seq \in [Channels -> Nat \ {0}]
    /\ packets \subseteq PacketRecord
    /\ height \in Nat
    /\ gross \in [Keys -> Nat] /\ refunded \in [Keys -> Nat] /\ received \in [Keys -> Nat]

(* A record is kept exactly for a packet still under way, with that packet's
   own denom and amount, so that it is given back at most once and to the key
   it was counted on; an export only ever loses records. *)
FlowsTrackPackets ==
    \A f \in flows : \E p \in Flying : p.ch = f.ch /\ p.seq = f.seq /\ p.denom = f.denom /\ p.amt = f.amt

(* What leaves through a limit in one of its windows, less what came back in
   that window, never exceeds its cap: refunds of old windows, of packets sent
   while the check was off and of packets older than the limit included. *)
NetFlowBounded ==
    \A k \in Keys : \A l \in limit[k] : gross[k] - refunded[k] <= l.send /\ l.send <= l.maxSend

(* What a limit has let in during its window is exactly what it has counted,
   and no more than its cap: refunds, resets and exports never touch it. *)
InflowExact ==
    \A k \in Keys : \A l \in limit[k] : l.recv = received[k] /\ l.recv <= l.maxRecv

(* The packets of the window that still use quota. *)
Charged(k, l) ==
    {p \in packets : <<p.ch, p.denom>> = k /\ p.under /\ p.at >= l.start /\ p.state # "BACK"}

(* A sender is never charged for a packet that came back, or for one of an
   earlier window. *)
NoOvercharge ==
    \A k \in Keys : \A l \in limit[k] : l.send <= Total([p \in Charged(k, l) |-> p.amt])

(* The promise of the rate limits: caps hold in both directions, each record
   belongs to one packet under way, and nobody pays for a packet that came back. *)
FlowsStayCapped == TypeOK /\ FlowsTrackPackets /\ NetFlowBounded /\ InflowExact /\ NoOvercharge

(* The caps hold over the last blocks of a window's length, wherever they
   begin ("a per-(channel, denom) flow cap with a sliding window"). *)
SlidingCap ==
    \A k \in Keys : \A l \in limit[k] :
        LET recent == {p \in packets : <<p.ch, p.denom>> = k /\ p.under /\ p.at > height - l.window
                                       /\ p.state # "BACK"}
        IN Total([p \in recent |-> p.amt]) <= l.maxSend
=============================================================================
