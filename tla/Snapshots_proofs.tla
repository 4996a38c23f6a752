--------------------------- MODULE Snapshots_proofs ---------------------------
(***************************************************************************)
(* The newest snapshot a client applied is what the server saw, for any    *)
(* objects, any length of the rings and any delay the rings allow.         *)
(*                                                                         *)
(* The argument: a field a packet leaves out is the one of its base; the   *)
(* base is a tick the client acknowledged, so the client holds it; and no  *)
(* packet that can still be applied takes its slot, since ticks in one     *)
(* slot are N apart.                                                       *)
(***************************************************************************)
EXTENDS Snapshots, TLAPS

USE RingAssumption, BoundAssumption, MarkAssumption, SlotAssumption

-----------------------------------------------------------------------------
(* The inductive invariant.                                                *)

(* Nothing is ahead of the server's tick, a packet's base is older than    *)
(* the packet, and a packet is dropped MaxDelay ticks after it was sent.   *)
Ages ==
    /\ acked <= tick /\ lasttick <= tick /\ view.tick <= tick
    /\ \A a \in acks : a <= tick
    /\ \A p \in net : /\ p.base < p.tick
                      /\ p.tick <= tick
                      /\ tick - p.tick < MaxDelay

(* The server's slot of a packet on its way is that packet's, or forgotten.*)
SlotsOfPackets == \A p \in net : sent[p.tick % N] \in {NoSnapshot, p.truth}

(* A field a packet leaves out is that of its base.                        *)
Rebased ==
    \A p, q \in net : \A o \in Objects :
        q.tick = p.base /\ p.objs[o] = "same" /\ p.truth[o] # Absent
            => q.truth[o] = p.truth[o]

(* What the client would make of a packet is what the server saw.          *)
Decodes(p) == \A o \in Objects : p.truth[o] # Absent => Decoded(p)[o] = p.truth[o]
PacketsDecode == ~hasty => \A p \in net : Decodes(p)

(* The client holds the snapshot of a tick it acknowledged, or is about    *)
(* to, while the server may still use it as a base.                        *)
Holds(b) ==
    /\ tick + 1 - b < N
    /\ sent[b % N] # NoSnapshot
    => /\ kept[b % N] # NoSnapshot
       /\ \A o \in Objects :
            sent[b % N][o] # Absent => kept[b % N][o] = sent[b % N][o]
AckedHeld == ~hasty => \A b \in acks \cup {acked, lasttick} : Holds(b)

SnapshotInv ==
    /\ TypeOK /\ Ages /\ SlotsOfPackets /\ Rebased
    /\ PacketsDecode /\ AckedHeld /\ NewestDecoded

-----------------------------------------------------------------------------
(* Slots of the rings.                                                     *)

LEMMA Division ==
    ASSUME NEW c \in Nat \ {0}, NEW g \in Nat
    PROVE  /\ g \div c \in Int
           /\ g % c \in 0 .. c - 1
           /\ g = c * (g \div c) + (g % c)
OBVIOUS

LEMMA NextMultiple ==
    ASSUME NEW c \in Nat \ {0}, NEW k \in Int, NEW l \in Int, k > l
    PROVE  c * k \in Int /\ c * l \in Int /\ c * k >= c * l + c
OBVIOUS

LEMMA QuotientsAgree ==
    ASSUME NEW c \in Nat \ {0}, NEW q \in Int, NEW p \in Int, NEW r \in Int,
           NEW g \in Int, NEW h \in Int,
           g = c * q + r, h = c * p + r, g - h < c, h - g < c
    PROVE  q = p
<1>1. ~(q > p)
  BY NextMultiple
<1>2. ~(p > q)
  BY NextMultiple
<1> QED
  BY <1>1, <1>2

(* Ticks in one slot are the same or N apart.                              *)
LEMMA OneTickPerSlot ==
    ASSUME NEW c \in Nat \ {0}, NEW g \in Nat, NEW h \in Nat,
           g % c = h % c, g - h < c, h - g < c
    PROVE  g = h
<1>1. /\ g \div c \in Int
      /\ g % c \in Int
      /\ g = c * (g \div c) + (g % c)
  BY Division
<1>2. /\ h \div c \in Int
      /\ h = c * (h \div c) + (g % c)
  BY Division
<1>3. g \div c = h \div c
  BY ONLY <1>1, <1>2, QuotientsAgree, g - h < c, h - g < c, c \in Nat \ {0},
     g \in Nat, h \in Nat
<1> QED
  BY <1>1, <1>2, <1>3

LEMMA SlotTypes == \A t \in Ticks : t \in Nat /\ t % N \in 0 .. N - 1
<1>1. SUFFICES ASSUME NEW t \in Ticks
               PROVE  t \in Nat /\ t % N \in 0 .. N - 1
  OBVIOUS
<1>2. t \in Nat
  BY DEF Ticks
<1> QED
  BY <1>2, Division

LEMMA SlotsDiffer ==
    ASSUME NEW s \in Ticks, NEW t \in Ticks, s # t, s - t < N, t - s < N
    PROVE  s % N # t % N
<1>1. s \in Nat /\ t \in Nat /\ N \in Nat \ {0}
  BY SlotTypes
<1> QED
  BY <1>1, OneTickPerSlot

-----------------------------------------------------------------------------
(* Types of the helpers.                                                   *)

LEMMA SeenType ==
    ASSUME NEW w \in [Objects -> Values \cup {"unborn", "gone"}],
           NEW near \in SUBSET Alive(w)
    PROVE  /\ Seen(w, near) \in Saved
           /\ Seen(w, near) \in [Objects -> Values \cup {Absent}]
           /\ Seen(w, near) # NoSnapshot
           /\ \A o \in Objects : Seen(w, near)[o] # Absent =>
                 o \in near /\ o \in Alive(w) /\ Seen(w, near)[o] = w[o]
<1>1. Seen(w, near) \in [Objects -> Values \cup {Absent}]
  BY DEF Seen, Alive
<1>2. Seen(w, near) \in Saved
  BY <1>1 DEF Saved
<1> QED
  BY <1>1, <1>2 DEF Seen

LEMMA FirstType == First \in Nat /\ First > N
BY DEF First

(* The ring a snapshot is made from: the one kept, or one with its base    *)
(* forgotten.                                                              *)
LEMMA BasesType ==
    ASSUME TypeOK, NEW t \in Ticks
    PROVE  /\ Bases(t) \in [0 .. N - 1 -> Saved \cup {NoSnapshot}]
           /\ \A k \in 0 .. N - 1 : Bases(t)[k] \in {NoSnapshot, sent[k]}
           /\ Bases(t)[acked % N] # NoSnapshot => t - acked < N
<1>1. acked \in Ticks /\ acked % N \in 0 .. N - 1
  BY SlotTypes DEF TypeOK
<1>2. t - acked \in Int /\ N \in Nat
  BY <1>1 DEF Ticks
<1>3. CASE t - acked >= N
  <2>1. Bases(t) = [sent EXCEPT ![acked % N] = NoSnapshot]
    BY <1>3 DEF Bases
  <2> QED
    BY <1>1, <2>1 DEF TypeOK
<1>4. CASE ~(t - acked >= N)
  <2>1. Bases(t) = sent
    BY <1>4 DEF Bases
  <2> QED
    BY <1>1, <1>2, <1>4, <2>1 DEF TypeOK
<1> QED
  BY <1>3, <1>4

LEMMA PacketType ==
    ASSUME TypeOK, NEW t \in Ticks,
           NEW w \in [Objects -> Values \cup {"unborn", "gone"}],
           NEW near \in SUBSET Alive(w)
    PROVE  Packet(t, w, near) \in Packets
<1> DEFINE old == Bases(t)
           base == old[acked % N]
<1>1. acked \in Ticks /\ acked % N \in 0 .. N - 1
  BY SlotTypes DEF TypeOK
<1>2. base \in Saved \cup {NoSnapshot}
  BY <1>1, BasesType
<1>3. Gone(t, w, old) \in SUBSET Objects
  BY DEF Gone
<1>4. \A o \in Objects : o \in Alive(w) => w[o] \in Values
  BY DEF Alive
<1>5. \A o \in Objects : Field(o, w, near, base) \in Values \cup {"none", "same"}
  BY <1>4 DEF Field
<1>6. Seen(w, near) \in [Objects -> Values \cup {Absent}]
  BY SeenType
<1> HIDE DEF old, base
<1>7. Packet(t, w, near) =
        [tick |-> t, base |-> acked, deleted |-> Gone(t, w, old),
         objs |-> [o \in Objects |-> Field(o, w, near, base)],
         truth |-> Seen(w, near)]
  BY DEF Packet, old, base
<1> QED
  BY <1>1, <1>3, <1>5, <1>6, <1>7 DEF Packets

LEMMA DecodedType ==
    ASSUME TypeOK, NEW p \in Packets
    PROVE  Decoded(p) \in Saved /\ Decoded(p) # NoSnapshot
<1>1. p.base % N \in 0 .. N - 1
  BY SlotTypes DEF Packets
<1>2. Base(p) \in Saved \cup {NoSnapshot}
  BY <1>1 DEF Base, TypeOK
<1>3. ASSUME NEW o \in Objects
      PROVE  Decoded(p)[o] \in Values \cup {Guess, Absent}
  <2>1. p.objs[o] \in Values \cup {"none", "same"}
    BY DEF Packets
  <2>2. Base(p) # NoSnapshot => Base(p)[o] \in Values \cup {Guess, Absent}
    BY <1>2 DEF Saved
  <2> QED
    BY <2>1, <2>2 DEF Decoded
<1>4. Decoded(p) = [o \in Objects |-> Decoded(p)[o]]
  BY DEF Decoded
<1>5. Decoded(p) \in Saved
  BY <1>3, <1>4 DEF Saved
<1> QED
  BY <1>5

LEMMA ViewType ==
    ASSUME TypeOK, NEW p \in Packets
    PROVE  [tick |-> p.tick, objs |-> Decoded(p), truth |-> p.truth]
             \in [tick : Ticks, objs : Saved, truth : Saved]
<1>1. p.truth \in Saved /\ p.tick \in Ticks
  BY DEF Packets, Saved
<1> QED
  BY <1>1, DecodedType

LEMMA EmptyTypes ==
    /\ Ring \in [0 .. N - 1 -> Saved \cup {NoSnapshot}]
    /\ NoView \in [tick : Ticks, objs : Saved, truth : Saved]
    /\ 0 \in Ticks
<1>1. Nothing \in Saved
  BY DEF Nothing, Saved
<1>2. 0 \in Ticks
  BY FirstType DEF Ticks
<1> QED
  BY <1>1, <1>2 DEF Ring, NoView

-----------------------------------------------------------------------------
(* The server's side: what a new packet leaves out, the client holds.      *)

LEMMA FieldMeaning ==
    ASSUME TypeOK, NEW t \in Ticks,
           NEW w \in [Objects -> Values \cup {"unborn", "gone"}],
           NEW near \in SUBSET Alive(w), NEW o \in Objects,
           Packet(t, w, near).truth[o] # Absent
    PROVE  LET p == Packet(t, w, near) IN
           /\ p.objs[o] # "none"
           /\ p.objs[o] # "same" => p.objs[o] = p.truth[o]
           /\ p.objs[o] = "same" =>
                /\ t - acked < N
                /\ sent[acked % N] # NoSnapshot
                /\ sent[acked % N][o] # Absent
                /\ sent[acked % N][o] = p.truth[o]
<1> DEFINE p == Packet(t, w, near)
           base == Bases(t)[acked % N]
<1>1. acked % N \in 0 .. N - 1
  BY SlotTypes DEF TypeOK
<1>2. p.truth = Seen(w, near) /\ p.objs[o] = Field(o, w, near, base)
  BY DEF Packet
<1>3. o \in near /\ o \in Alive(w) /\ p.truth[o] = w[o] /\ w[o] \in Values
  BY <1>2, SeenType DEF Alive
<1>4. base # NoSnapshot => base = sent[acked % N] /\ t - acked < N
  BY <1>1, BasesType
<1> HIDE DEF p, base
<1>5. w[o] # "none" /\ w[o] # "same"
  BY <1>3
<1>6. p.objs[o] = IF base # NoSnapshot /\ base[o] # Absent
                  THEN IF w[o] = base[o] THEN "same" ELSE w[o]
                  ELSE w[o]
  BY <1>2, <1>3 DEF Field
<1>7. /\ p.objs[o] # "none"
      /\ p.objs[o] # "same" => p.objs[o] = p.truth[o]
      /\ p.objs[o] = "same" => base # NoSnapshot /\ base[o] # Absent /\ w[o] = base[o]
  BY <1>3, <1>5, <1>6
<1> QED
  BY <1>3, <1>4, <1>7 DEF p

-----------------------------------------------------------------------------
(* The invariant is inductive.                                             *)

LEMMA SnapshotInit ==
    ASSUME Init
    PROVE  SnapshotInv
<1> USE DEF Init
<1>1. /\ First \in Nat /\ First \in First .. Last
      /\ \A t \in Nat : t >= First => t + 1 - 0 >= N
  BY FirstType
<1>2. TypeOK
  <2>1. world \in [Objects -> Values \cup {"unborn", "gone"}]
    OBVIOUS
  <2>2. tick \in First .. Last /\ breaks \in 0 .. MaxBreaks
    BY <1>1
  <2> QED
    BY <2>1, <2>2, EmptyTypes DEF TypeOK
<1>3. Ages /\ SlotsOfPackets /\ Rebased /\ PacketsDecode
  BY <1>1 DEF Ages, SlotsOfPackets, Rebased, PacketsDecode, NoView
<1>4. AckedHeld
  <2>1. ~(First + 1 - 0 < N)
    BY <1>1, FirstType
  <2> QED
    BY <2>1 DEF AckedHeld, Holds
<1>5. NewestDecoded
  BY DEF NewestDecoded, NoView, Nothing
<1> QED
  BY <1>2, <1>3, <1>4, <1>5 DEF SnapshotInv

(* A tick while the peer is parked, and one that sends a snapshot.         *)
ParkedTick ==
    /\ tick' = tick + 1
    /\ parked
    /\ net' = {p \in net : tick' - p.tick < MaxDelay}
    /\ sent' = sent

SendingTick(near) ==
    /\ tick' = tick + 1
    /\ ~parked
    /\ net' = {p \in net : tick' - p.tick < MaxDelay} \cup {Packet(tick', world', near)}
    /\ sent' = [Bases(tick') EXCEPT ![tick' % N] = Seen(world', near)]

LEMMA TickCases ==
    ASSUME TypeOK, Tick
    PROVE  /\ tick < Last
           /\ tick' \in Ticks /\ tick' \in First .. Last /\ tick' = tick + 1
           /\ world' \in [Objects -> Values \cup {"unborn", "gone"}]
           /\ UNCHANGED <<acked, parked, acks, clientVars, breaks, hasty>>
           /\ ParkedTick \/ \E near \in SUBSET Alive(world') : SendingTick(near)
<1>1. tick' = tick + 1 /\ tick < Last /\ tick' \in First .. Last /\ tick' \in Ticks
  BY FirstType DEF Tick, TypeOK, Ticks
<1>2. world' \in [Objects -> Values \cup {"unborn", "gone"}]
  BY DEF Tick, Moves
<1> QED
  BY <1>1, <1>2 DEF Tick, ParkedTick, SendingTick

(* What the snapshot of a tick does to the server's ring: its own slot is  *)
(* taken, another one may be forgotten.                                    *)
LEMMA SentAfterTick ==
    ASSUME TypeOK, NEW near \in SUBSET Alive(world'), SendingTick(near),
           tick' \in Ticks,
           world' \in [Objects -> Values \cup {"unborn", "gone"}]
    PROVE  /\ sent' \in [0 .. N - 1 -> Saved \cup {NoSnapshot}]
           /\ sent'[tick' % N] = Seen(world', near)
           /\ \A k \in 0 .. N - 1 : k # tick' % N => sent'[k] \in {NoSnapshot, sent[k]}
<1>1. tick' % N \in 0 .. N - 1
  BY SlotTypes
<1>2. Seen(world', near) \in Saved
  BY SeenType
<1>3. sent' = [Bases(tick') EXCEPT ![tick' % N] = Seen(world', near)]
  BY DEF SendingTick
<1> QED
  BY <1>1, <1>2, <1>3, BasesType

LEMMA TickStep ==
    ASSUME SnapshotInv, Tick
    PROVE  SnapshotInv'
<1> USE DEF clientVars
<1>1. /\ TypeOK /\ Ages /\ SlotsOfPackets /\ Rebased
      /\ PacketsDecode /\ AckedHeld /\ NewestDecoded
  BY DEF SnapshotInv
<1>2. /\ tick' = tick + 1 /\ tick' \in Ticks /\ tick' \in First .. Last
      /\ tick \in Nat /\ tick \in Ticks
      /\ world' \in [Objects -> Values \cup {"unborn", "gone"}]
      /\ UNCHANGED <<acked, parked, acks, kept, have, lasttick, view, breaks, hasty>>
  BY <1>1, TickCases, FirstType DEF TypeOK, Ticks
<1>3. \A p \in net : p \in Packets /\ p.tick \in Ticks /\ p.base \in Ticks
                     /\ p.tick % N \in 0 .. N - 1
  BY <1>1, SlotTypes DEF TypeOK, Packets
<1>4. NewestDecoded'
  BY <1>1, <1>2 DEF NewestDecoded
<1>5. \A p : Decoded(p)' = Decoded(p)
  BY <1>2 DEF Decoded, Base
<1>6. CASE ParkedTick
  <2>1. net' \subseteq net /\ sent' = sent
        /\ \A p \in net' : tick' - p.tick < MaxDelay
    BY <1>6 DEF ParkedTick
  <2>2. TypeOK'
    BY <1>1, <1>2, <2>1 DEF TypeOK
  <2>3. Ages'
    BY <1>1, <1>2, <1>3, <2>1 DEF Ages, TypeOK, Ticks
  <2>4. SlotsOfPackets' /\ Rebased'
    BY <1>1, <2>1 DEF SlotsOfPackets, Rebased
  <2>5. PacketsDecode'
    BY <1>1, <1>2, <1>5, <2>1 DEF PacketsDecode, Decodes
  <2>6. ASSUME NEW b \in Ticks, Holds(b)
        PROVE  Holds(b)'
    <3>1. tick + 2 - b < N => tick + 1 - b < N
      BY <1>2 DEF Ticks
    <3> QED
      BY <1>2, <2>1, <2>6, <3>1 DEF Holds
  <2>7. AckedHeld'
    BY <1>1, <1>2, <2>6 DEF AckedHeld, TypeOK
  <2> QED
    BY <1>4, <2>2, <2>3, <2>4, <2>5, <2>7 DEF SnapshotInv
<1>7. ASSUME NEW near \in SUBSET Alive(world'), SendingTick(near)
      PROVE  SnapshotInv'
  <2> DEFINE new == Packet(tick', world', near)
  <2>1. /\ new.tick = tick' /\ new.base = acked /\ new.truth = Seen(world', near)
        /\ new \in Packets
    BY <1>1, <1>2, PacketType DEF Packet
  <2>2. \A p \in net' : p = new \/ (p \in net /\ tick' - p.tick < MaxDelay)
    BY <1>7 DEF SendingTick
  <2>3. /\ sent' \in [0 .. N - 1 -> Saved \cup {NoSnapshot}]
        /\ sent'[tick' % N] = Seen(world', near)
        /\ \A k \in 0 .. N - 1 : k # tick' % N => sent'[k] \in {NoSnapshot, sent[k]}
    BY <1>1, <1>2, <1>7, SentAfterTick
  <2>4. /\ acked \in Ticks /\ acked % N \in 0 .. N - 1 /\ acked <= tick
        /\ \A p \in net : p.base < p.tick /\ p.tick <= tick /\ tick - p.tick < MaxDelay
    BY <1>1, SlotTypes DEF TypeOK, Ages
  <2>5. \A o \in Objects : new.truth[o] # Absent =>
           /\ new.objs[o] # "none"
           /\ new.objs[o] # "same" => new.objs[o] = new.truth[o]
           /\ new.objs[o] = "same" =>
                /\ tick' - acked < N
                /\ sent[acked % N] # NoSnapshot
                /\ sent[acked % N][o] # Absent
                /\ sent[acked % N][o] = new.truth[o]
    BY <1>1, <1>2, FieldMeaning
  <2> HIDE DEF new
  <2>6. TypeOK'
    BY <1>1, <1>2, <2>1, <2>2, <2>3 DEF TypeOK
  <2>7. Ages'
    <3>1. acked' <= tick' /\ lasttick' <= tick' /\ view'.tick <= tick'
          /\ \A a \in acks' : a <= tick'
      BY <1>1, <1>2 DEF Ages, TypeOK, Ticks
    <3>2. ASSUME NEW p \in net'
          PROVE  p.base < p.tick /\ p.tick <= tick' /\ tick' - p.tick < MaxDelay
      <4>1. CASE p = new
        BY <1>2, <2>1, <2>4, <4>1 DEF Ticks
      <4>2. CASE p # new
        BY <1>2, <1>3, <2>2, <2>4, <4>2 DEF Ticks
      <4> QED
        BY <4>1, <4>2
    <3> QED
      BY <3>1, <3>2 DEF Ages
  <2>8. ASSUME NEW p \in net, tick' - p.tick < MaxDelay
        PROVE  /\ p.tick < tick' /\ p.base < tick'
               /\ p.tick % N # tick' % N
               /\ sent'[p.tick % N] \in {NoSnapshot, sent[p.tick % N]}
    <3>1. p.tick # tick' /\ p.tick - tick' < N /\ tick' - p.tick < N
          /\ p.tick < tick' /\ p.base < tick'
      BY <1>2, <1>3, <2>4, <2>8 DEF Ticks
    <3>2. p.tick % N # tick' % N
      BY <1>2, <1>3, <3>1, SlotsDiffer
    <3> QED
      BY <1>3, <2>3, <3>1, <3>2
  <2>9. SlotsOfPackets'
    <3>1. SUFFICES ASSUME NEW p \in net'
                   PROVE  sent'[p.tick % N] \in {NoSnapshot, p.truth}
      BY DEF SlotsOfPackets
    <3>2. CASE p = new
      BY <2>1, <2>3, <3>2
    <3>3. CASE p # new
      BY <1>1, <2>2, <2>8, <3>3 DEF SlotsOfPackets
    <3> QED
      BY <3>2, <3>3
  <2>10. Rebased'
    <3>1. SUFFICES ASSUME NEW p \in net', NEW q \in net', NEW o \in Objects,
                          q.tick = p.base, p.objs[o] = "same", p.truth[o] # Absent
                   PROVE  q.truth[o] = p.truth[o]
      BY DEF Rebased
    <3>2. q # new
      <4>1. p.base < tick'
        BY <1>2, <1>3, <2>1, <2>2, <2>4, <2>8 DEF Ticks
      <4> QED
        BY <1>2, <2>1, <3>1, <4>1 DEF Ticks
    <3>3. q \in net
      BY <2>2, <3>2
    <3>4. CASE p = new
      <4>1. sent[acked % N] # NoSnapshot /\ sent[acked % N][o] = p.truth[o]
        BY <2>5, <3>1, <3>4
      <4>2. sent[acked % N] \in {NoSnapshot, q.truth}
        BY <1>1, <2>1, <3>1, <3>3, <3>4 DEF SlotsOfPackets
      <4> QED
        BY <4>1, <4>2
    <3>5. CASE p # new
      BY <1>1, <2>2, <3>1, <3>3, <3>5 DEF Rebased
    <3> QED
      BY <3>4, <3>5
  <2>11. ASSUME ~hasty
         PROVE  Decodes(new)
    <3>1. SUFFICES ASSUME NEW o \in Objects, new.truth[o] # Absent
                   PROVE  Decoded(new)[o] = new.truth[o]
      BY DEF Decodes
    <3>2. CASE new.objs[o] # "same"
      BY <2>5, <3>1, <3>2 DEF Decoded
    <3>3. CASE new.objs[o] = "same"
      <4>1. /\ tick' - acked < N
            /\ sent[acked % N] # NoSnapshot
            /\ sent[acked % N][o] # Absent
            /\ sent[acked % N][o] = new.truth[o]
        BY <2>5, <3>1, <3>3
      <4>2. Holds(acked)
        BY <1>1, <2>11 DEF AckedHeld
      <4>3. kept[acked % N] # NoSnapshot /\ kept[acked % N][o] = new.truth[o]
        <5>1. tick + 1 - acked < N
          BY <1>2, <2>4, <4>1 DEF Ticks
        <5> QED
          BY <4>1, <4>2, <5>1 DEF Holds
      <4>4. Base(new) = kept[acked % N]
        BY <2>1, <4>1 DEF Base
      <4> QED
        BY <3>1, <3>3, <4>3, <4>4 DEF Decoded
    <3> QED
      BY <3>2, <3>3
  <2>12. PacketsDecode'
    <3>1. SUFFICES ASSUME ~hasty, NEW p \in net', NEW o \in Objects, p.truth[o] # Absent
                   PROVE  Decoded(p)[o] = p.truth[o]
      BY <1>2, <1>5 DEF PacketsDecode, Decodes
    <3> QED
      BY <1>1, <2>2, <2>11, <3>1 DEF PacketsDecode, Decodes
  <2>13. ASSUME NEW b \in Ticks, b <= tick, Holds(b)
         PROVE  Holds(b)'
    <3>1. SUFFICES ASSUME tick' + 1 - b < N, sent'[b % N] # NoSnapshot
                   PROVE  /\ kept[b % N] # NoSnapshot
                          /\ \A o \in Objects :
                               sent'[b % N][o] # Absent => kept[b % N][o] = sent'[b % N][o]
      BY <1>2 DEF Holds
    <3>2. tick + 1 - b < N /\ b # tick' /\ b - tick' < N /\ tick' - b < N
      BY <1>2, <2>13, <3>1 DEF Ticks
    <3>3. sent'[b % N] = sent[b % N]
      BY <1>2, <2>3, <3>1, <3>2, SlotsDiffer, SlotTypes
    <3> QED
      BY <2>13, <3>1, <3>2, <3>3 DEF Holds
  <2>14. AckedHeld'
    BY <1>1, <1>2, <2>13 DEF AckedHeld, TypeOK, Ages
  <2> QED
    BY <1>4, <2>6, <2>7, <2>9, <2>10, <2>12, <2>14 DEF SnapshotInv
<1> QED
  BY <1>1, <1>6, <1>7, TickCases

(* Applying a snapshot takes a slot no other packet on its way, and no     *)
(* acknowledgement, needs otherwise.                                       *)
LEMMA ApplyStep ==
    ASSUME SnapshotInv, NEW q \in net, ApplySnapshot(q)
    PROVE  SnapshotInv'
<1> USE DEF serverVars
<1>1. /\ TypeOK /\ Ages /\ SlotsOfPackets /\ Rebased
      /\ PacketsDecode /\ AckedHeld /\ NewestDecoded
  BY DEF SnapshotInv
<1>2. /\ kept' = [kept EXCEPT ![q.tick % N] = Decoded(q)]
      /\ net' = {p \in net : InTime(p, view'.tick)}
      /\ have' = {o \in Objects : Decoded(q)[o] # Absent}
      /\ UNCHANGED <<tick, world, sent, acked, parked, acks, breaks, hasty>>
  BY DEF ApplySnapshot
<1>3. /\ q \in Packets /\ q.tick \in Ticks /\ q.tick % N \in 0 .. N - 1
      /\ q.tick <= tick /\ tick - q.tick < N
      /\ tick \in Nat /\ acked \in Ticks /\ lasttick \in Ticks /\ view.tick \in Ticks
      /\ \A p \in net : p.tick \in Ticks /\ p.base \in Ticks
  <2>1. q \in Packets /\ q.tick \in Ticks /\ q.tick <= tick /\ tick - q.tick < MaxDelay
    BY <1>1 DEF TypeOK, Ages, Packets
  <2>2. tick \in Nat /\ acked \in Ticks /\ lasttick \in Ticks /\ view.tick \in Ticks
    BY <1>1, FirstType DEF TypeOK
  <2>3. \A p \in net : p.tick \in Ticks /\ p.base \in Ticks
    BY <1>1 DEF TypeOK, Packets
  <2>4. tick - q.tick < N /\ q.tick % N \in 0 .. N - 1
    BY <2>1, <2>2, SlotTypes DEF Ticks
  <2> QED
    BY <2>1, <2>2, <2>3, <2>4
<1>4. /\ lasttick' \in {lasttick, q.tick}
      /\ \/ view' = view /\ q.tick <= view.tick
         \/ /\ view' = [tick |-> q.tick, objs |-> Decoded(q), truth |-> q.truth]
            /\ q.tick > view.tick
  BY <1>3 DEF ApplySnapshot, Ticks
<1>5. q.tick <= view'.tick /\ view'.tick <= tick /\ view'.tick \in Ticks
  BY <1>1, <1>3, <1>4 DEF Ages, Ticks
<1>6. Decoded(q) \in Saved /\ Decoded(q) # NoSnapshot
  BY <1>1, <1>3, DecodedType
<1>7. TypeOK'
  <2>1. view' \in [tick : Ticks, objs : Saved, truth : Saved]
    BY <1>1, <1>3, <1>4, ViewType DEF TypeOK
  <2>2. kept' \in [0 .. N - 1 -> Saved \cup {NoSnapshot}]
    BY <1>1, <1>2, <1>3, <1>6 DEF TypeOK
  <2> QED
    BY <1>1, <1>2, <1>3, <1>4, <2>1, <2>2 DEF TypeOK
<1>8. Ages'
  BY <1>1, <1>2, <1>3, <1>4, <1>5 DEF Ages
<1>9. SlotsOfPackets' /\ Rebased'
  BY <1>1, <1>2 DEF SlotsOfPackets, Rebased
<1>10. ASSUME ~hasty
       PROVE  Decodes(q)
  BY <1>1, <1>10 DEF PacketsDecode
<1>11. NewestDecoded'
  BY <1>1, <1>2, <1>4, <1>10 DEF NewestDecoded, Decodes
<1>12. PacketsDecode'
  <2>1. SUFFICES ASSUME ~hasty, NEW p \in net', NEW o \in Objects, p.truth[o] # Absent
                 PROVE  Decoded(p)'[o] = p.truth[o]
    BY <1>2 DEF PacketsDecode, Decodes
  <2>2. p \in net /\ InTime(p, view'.tick)
    BY <1>2
  <2>3. Decoded(p)[o] = p.truth[o]
    BY <1>1, <2>1, <2>2 DEF PacketsDecode, Decodes
  <2>4. p.truth[o] \in Values /\ p.truth[o] # Guess
        /\ p \in Packets /\ p.base \in Ticks /\ p.base % N \in 0 .. N - 1
    <3>1. p \in Packets
      BY <1>1, <2>2 DEF TypeOK
    <3>2. p.truth[o] \in Values \cup {Absent} /\ p.base \in Ticks
      BY <3>1 DEF Packets
    <3>3. Guess \notin Values
      BY MarkAssumption
    <3> QED
      BY <2>1, <3>1, <3>2, <3>3, SlotTypes
  <2>5. CASE p.objs[o] # "same"
    <3>1. p.objs[o] # "none"
      BY <2>1, <2>3, <2>4, <2>5 DEF Decoded
    <3> QED
      BY <2>3, <2>5, <3>1 DEF Decoded
  <2>6. CASE p.objs[o] = "same"
    <3>1. Base(p) # NoSnapshot /\ Base(p)[o] # Absent /\ Base(p)[o] = p.truth[o]
      BY <2>3, <2>4, <2>6 DEF Decoded
    <3>2. p.tick - p.base < N /\ Base(p) = kept[p.base % N]
      BY <3>1 DEF Base
    <3>3. view'.tick - p.base < N
      BY <2>2, <3>2 DEF InTime
    <3>4. q.tick - p.base < N /\ p.base - q.tick < N
      <4>1. p.base < p.tick /\ p.tick <= tick
        BY <1>1, <2>2 DEF Ages
      <4> QED
        BY <1>3, <1>5, <2>2, <3>3, <4>1 DEF Ticks
    <3>5. CASE p.base # q.tick
      <4>1. p.base % N # q.tick % N
        BY <1>3, <2>4, <3>4, <3>5, SlotsDiffer
      <4>2. kept'[p.base % N] = kept[p.base % N]
        BY <1>1, <1>2, <2>4, <4>1 DEF TypeOK
      <4> QED
        BY <2>4, <2>6, <3>1, <3>2, <4>2 DEF Decoded, Base
    <3>6. CASE p.base = q.tick
      <4>1. q.truth[o] = p.truth[o]
        BY <1>1, <2>1, <2>2, <2>6, <3>6 DEF Rebased
      <4>2. Decoded(q)[o] = p.truth[o]
        BY <1>10, <2>1, <4>1 DEF Decodes
      <4>3. kept'[p.base % N] = Decoded(q)
        BY <1>1, <1>2, <1>3, <3>6 DEF TypeOK
      <4>4. Base(p)' = Decoded(q)
        BY <3>2, <4>3 DEF Base
      <4> QED
        BY <1>6, <2>1, <2>6, <4>2, <4>4 DEF Decoded
    <3> QED
      BY <3>5, <3>6
  <2> QED
    BY <2>5, <2>6
<1>13. AckedHeld'
  <2>1. SUFFICES ASSUME ~hasty, NEW b \in acks \cup {acked, lasttick, q.tick},
                        tick + 1 - b < N, sent[b % N] # NoSnapshot
                 PROVE  /\ kept'[b % N] # NoSnapshot
                        /\ \A o \in Objects :
                             sent[b % N][o] # Absent => kept'[b % N][o] = sent[b % N][o]
    BY <1>2, <1>4 DEF AckedHeld, Holds
  <2>2. b \in Ticks /\ b <= tick /\ b % N \in 0 .. N - 1
    BY <1>1, <1>3, SlotTypes DEF TypeOK, Ages
  <2>3. CASE b = q.tick
    <3>1. sent[b % N] = q.truth
      BY <1>1, <2>1, <2>3 DEF SlotsOfPackets
    <3>2. kept'[b % N] = Decoded(q)
      BY <1>1, <1>2, <1>3, <2>3 DEF TypeOK
    <3> QED
      BY <1>6, <1>10, <2>1, <3>1, <3>2 DEF Decodes
  <2>4. CASE b # q.tick
    <3>1. b % N # q.tick % N
      <4>1. b - q.tick < N /\ q.tick - b < N
        BY <1>3, <2>1, <2>2 DEF Ticks
      <4> QED
        BY <1>3, <2>2, <2>4, <4>1, SlotsDiffer
    <3>2. kept'[b % N] = kept[b % N]
      BY <1>1, <1>2, <2>2, <3>1 DEF TypeOK
    <3>3. Holds(b)
      BY <1>1, <2>1, <2>4 DEF AckedHeld
    <3> QED
      BY <2>1, <3>2, <3>3 DEF Holds
  <2> QED
    BY <2>3, <2>4
<1> QED
  BY <1>7, <1>8, <1>9, <1>11, <1>12, <1>13 DEF SnapshotInv

LEMMA SnapshotStep ==
    ASSUME SnapshotInv, [Next]_vars
    PROVE  SnapshotInv'
<1> USE DEF serverVars, clientVars
<1>1. /\ TypeOK /\ Ages /\ SlotsOfPackets /\ Rebased
      /\ PacketsDecode /\ AckedHeld /\ NewestDecoded
  BY DEF SnapshotInv
<1>2. ASSUME UNCHANGED <<tick, sent, net, kept, have, hasty>>
      PROVE  /\ SlotsOfPackets' /\ Rebased' /\ PacketsDecode'
             /\ \A b : Holds(b) => Holds(b)'
  BY <1>1, <1>2 DEF SlotsOfPackets, Rebased, PacketsDecode, Decodes, Decoded, Base, Holds
<1>3. CASE Tick
  BY <1>3, TickStep
<1>4. CASE SendInput
  BY <1>1, <1>2, <1>4 DEF SendInput, TypeOK, Ages, AckedHeld, NewestDecoded, SnapshotInv
<1>5. CASE ReadPeerList
  <2>1. Holds(0)
    BY <1>1, FirstType DEF Holds, TypeOK
  <2> QED
    BY <1>1, <1>2, <1>5, <2>1, EmptyTypes, FirstType
       DEF ReadPeerList, TypeOK, Ages, AckedHeld, NewestDecoded, SnapshotInv
<1>6. CASE DropOut
  BY <1>1, <1>2, <1>6 DEF DropOut, TypeOK, Ages, AckedHeld, NewestDecoded, SnapshotInv
<1>7. CASE Rejoin
  <2>1. TypeOK'
    BY <1>1, <1>7, EmptyTypes DEF Rejoin, TypeOK
  <2>2. Ages' /\ SlotsOfPackets' /\ Rebased' /\ PacketsDecode'
    BY <1>1, <1>7, FirstType
       DEF Rejoin, TypeOK, Ages, SlotsOfPackets, Rebased, PacketsDecode, NoView
  <2>3. AckedHeld'
    <3>1. ~(tick + 1 - 0 < N)
      BY <1>1, FirstType DEF TypeOK
    <3>2. ~hasty' => ~(tick + 1 - acked < N)
      BY <1>1, <1>7 DEF Rejoin, TypeOK
    <3> QED
      BY <1>7, <3>1, <3>2 DEF Rejoin, AckedHeld, Holds
  <2>4. NewestDecoded'
    BY <1>7 DEF Rejoin, NewestDecoded, NoView, Nothing
  <2> QED
    BY <2>1, <2>2, <2>3, <2>4 DEF SnapshotInv
<1>8. ASSUME NEW a \in acks, ReceiveInput(a)
      PROVE  SnapshotInv'
  BY <1>1, <1>2, <1>8 DEF ReceiveInput, TypeOK, Ages, AckedHeld, NewestDecoded, SnapshotInv
<1>9. ASSUME NEW p \in net, ApplySnapshot(p)
      PROVE  SnapshotInv'
  BY <1>9, ApplyStep
<1>10. CASE UNCHANGED vars
  BY <1>1, <1>2, <1>10 DEF vars, TypeOK, Ages, AckedHeld, NewestDecoded, SnapshotInv
<1> QED
  BY <1>3, <1>4, <1>5, <1>6, <1>7, <1>8, <1>9, <1>10 DEF Next

LEMMA SnapshotInvariance == Spec => []SnapshotInv
<1>1. Init => SnapshotInv
  BY SnapshotInit
<1>2. SnapshotInv /\ [Next]_vars => SnapshotInv'
  BY SnapshotStep
<1> QED
  BY <1>1, <1>2, PTL DEF Spec

-----------------------------------------------------------------------------
(* The theorems.                                                           *)

(* Every variable of the server, the network and the client keeps its type.*)
THEOREM TypeCorrect == Spec => []TypeOK
<1>1. SnapshotInv => TypeOK
  BY DEF SnapshotInv
<1> QED
  BY <1>1, SnapshotInvariance, PTL

(* Whatever was lost, repeated or reordered in time, and however often the *)
(* client dropped out for N ticks or more, the newest snapshot it applied  *)
(* gives it every object near it as the server saw it at that tick.        *)
THEOREM NewestCorrect == Spec => []NewestDecoded
<1>1. SnapshotInv => NewestDecoded
  BY DEF SnapshotInv
<1> QED
  BY <1>1, SnapshotInvariance, PTL
=============================================================================
