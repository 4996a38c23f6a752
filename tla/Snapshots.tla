------------------------------ MODULE Snapshots ------------------------------
(***************************************************************************)
(* World snapshots from a dedicated server to one client over UDP.  Each    *)
(* tick the server sends what changed since the snapshot the client last   *)
(* acknowledged; both sides keep their last N snapshots in rings indexed    *)
(* by tick.  Datagrams are lost, repeated and reordered.                    *)
(*                                                                         *)
(* An object is one field: "same" stands for a field a delta leaves out.    *)
(* Between snapshots a client moves its objects by itself; what it holds   *)
(* then is Guess.  The client's jitter buffer is part of the network.       *)
(*                                                                         *)
(* Source: clients/silencer/src/world/network/world_replication.cpp,        *)
(* world_peer_registry.cpp (ReadPeerList, HandleDisconnect).                *)
(***************************************************************************)
EXTENDS Integers

CONSTANTS
    Objects,
    Values,
    Guess, Absent, NoSnapshot,
    N,        \* maxoldsnapshots
    MaxDelay, \* a snapshot is applied less than MaxDelay ticks after it is sent
    Last,     \* bound on the server's tick
    MaxBreaks \* bound on peer lists and drop-outs

ASSUME RingAssumption == N \in Nat \ {0} /\ MaxDelay \in 1 .. N
ASSUME MarkAssumption == {Guess, Absent, "unborn", "gone", "none", "same"} \cap Values = {}

(* The lobby before the match outlasts the ring.                            *)
First == N + 2
Ticks == 0 .. Last

ASSUME BoundAssumption == Last \in Nat /\ First <= Last /\ MaxBreaks \in Nat

VARIABLES
    tick, world, sent,  \* the server: tickcount, objects, oldsnapshots
    acked,              \* peer.lasttick
    parked,
    net,                \* snapshots on their way
    acks,               \* the lasttick of inputs on their way, where above acked
    kept, have,         \* the client: oldsnapshots, objects it has
    lasttick,           \* the client's lasttick
    breaks,
    view,               \* history: the newest snapshot applied, decoded
    hasty               \* history: a client came back before its last
                        \* acknowledgement was N ticks old

serverVars == <<tick, world, sent, acked, parked>>
clientVars == <<kept, have, lasttick, view>>
vars == <<serverVars, net, acks, clientVars, breaks, hasty>>

Saved == [Objects -> Values \cup {Guess, Absent}]

ASSUME SlotAssumption == NoSnapshot \notin Saved

Packets == [tick : Ticks, base : Ticks, deleted : SUBSET Objects,
            objs : [Objects -> Values \cup {"none", "same"}],
            truth : [Objects -> Values \cup {Absent}]]

Nothing == [o \in Objects |-> Absent]
Ring == [k \in 0 .. N - 1 |-> NoSnapshot]

TypeOK ==
    /\ tick \in First .. Last
    /\ world \in [Objects -> Values \cup {"unborn", "gone"}]
    /\ sent \in [0 .. N - 1 -> Saved \cup {NoSnapshot}]
    /\ acked \in Ticks
    /\ parked \in BOOLEAN
    /\ net \subseteq Packets
    /\ acks \subseteq Ticks
    /\ kept \in [0 .. N - 1 -> Saved \cup {NoSnapshot}]
    /\ have \subseteq Objects
    /\ lasttick \in Ticks
    /\ breaks \in 0 .. MaxBreaks
    /\ view \in [tick : Ticks, objs : Saved, truth : Saved]
    /\ hasty \in BOOLEAN

NoView == [tick |-> 0, objs |-> Nothing, truth |-> Nothing]

Init ==
    /\ tick = First
    /\ world = [o \in Objects |-> "unborn"]
    /\ sent = Ring
    /\ acked = 0
    /\ parked = FALSE
    /\ net = {}
    /\ acks = {}
    /\ kept = Ring
    /\ have = {}
    /\ lasttick = 0
    /\ breaks = 0
    /\ view = NoView
    /\ hasty = FALSE

-----------------------------------------------------------------------------
(* The server.                                                              *)

Alive(w) == {o \in Objects : w[o] \in Values}

(* Objects appear, change and disappear; an id is not used again.           *)
Moves(w) ==
    {v \in [Objects -> Values \cup {"unborn", "gone"}] : \A o \in Objects :
        /\ w[o] = "gone" => v[o] = "gone"
        /\ w[o] = "unborn" => v[o] # "gone"
        /\ w[o] \in Values => v[o] # "unborn"}

(* Mutant: the age of the base is off by one.                               *)
BasesLate(t) == IF t - acked > N THEN [sent EXCEPT ![acked % N] = NoSnapshot] ELSE sent

(* oldsnapshots when the snapshot of tick t is made: too old a base is       *)
(* forgotten.                                                               *)
Bases(t) == IF t - acked >= N THEN [sent EXCEPT ![acked % N] = NoSnapshot] ELSE sent

(* The slots searched for objects that no longer exist.                     *)
Searched(t) == {(t - i) % N : i \in {j \in acked .. t - 1 : j = acked \/ j <= N + 1}}
Gone(t, w, old) ==
    {o \in Objects \ Alive(w) : \E k \in Searched(t) :
        old[k] # NoSnapshot /\ old[k][o] # Absent}

Field(o, w, near, base) ==
    IF o \notin Alive(w) THEN "none"
    ELSE IF base # NoSnapshot /\ base[o] # Absent
    THEN IF w[o] = base[o] THEN "same" ELSE w[o]
    ELSE IF o \in near THEN w[o] ELSE "none"

Seen(w, near) == [o \in Objects |-> IF o \in near THEN w[o] ELSE Absent]

Packet(t, w, near) ==
    LET old == Bases(t)
    IN  [tick |-> t, base |-> acked, deleted |-> Gone(t, w, old),
         objs |-> [o \in Objects |-> Field(o, w, near, old[acked % N])],
         truth |-> Seen(w, near)]

(* A tick: objects move, then SendSnapshots.  near: RelevantToPlayer.       *)
Tick ==
    /\ tick < Last
    /\ tick' = tick + 1
    /\ world' \in Moves(world)
    /\ IF parked
       THEN /\ net' = {p \in net : tick' - p.tick < MaxDelay}
            /\ UNCHANGED sent
       ELSE \E near \in SUBSET Alive(world') :
            /\ net' = {p \in net : tick' - p.tick < MaxDelay}
                      \cup {Packet(tick', world', near)}
            /\ sent' = [Bases(tick') EXCEPT ![tick' % N] = Seen(world', near)]
    /\ UNCHANGED <<acked, parked, acks, clientVars, breaks, hasty>>

(* ProcessInputQueue: an input that acknowledges less is passed over.        *)
ReceiveInput(a) ==
    /\ a \in acks
    /\ acked' = a
    /\ acks' = {b \in acks : b > a}
    /\ UNCHANGED <<tick, world, sent, parked, net, clientVars, breaks, hasty>>

-----------------------------------------------------------------------------
(* The client.                                                              *)

Base(p) == IF p.tick - p.base < N THEN kept[p.base % N] ELSE NoSnapshot

(* LoadSnapshot, on objects that are Guess before it.                       *)
Decoded(p) ==
    [o \in Objects |->
        IF p.objs[o] = "none" THEN IF o \in have \ p.deleted THEN Guess ELSE Absent
        ELSE IF p.objs[o] # "same" THEN p.objs[o]
        ELSE IF Base(p) # NoSnapshot /\ Base(p)[o] # Absent THEN Base(p)[o]
        ELSE Guess]

(* The network is assumed to lose a snapshot rather than to deliver it       *)
(* after a newer one has taken its base's slot: the code does not look.      *)
InTime(p, t) == p.tick - p.base < N => t - p.base < N

(* ProcessSnapshotQueue: late and repeated snapshots are applied too.       *)
ApplySnapshot(p) ==
    /\ ~parked
    /\ p \in net
    /\ kept' = [kept EXCEPT ![p.tick % N] = Decoded(p)]
    /\ have' = {o \in Objects : Decoded(p)[o] # Absent}
    /\ lasttick' = IF p.tick > lasttick THEN p.tick ELSE lasttick
    /\ view' = IF p.tick > view.tick
               THEN [tick |-> p.tick, objs |-> Decoded(p), truth |-> p.truth] ELSE view
    /\ net' = {q \in net : InTime(q, view'.tick)}
    /\ UNCHANGED <<serverVars, acks, breaks, hasty>>

(* SendInput.                                                               *)
SendInput ==
    /\ ~parked
    /\ lasttick > acked
    /\ acks' = acks \cup {lasttick}
    /\ UNCHANGED <<serverVars, net, clientVars, breaks, hasty>>

(* ReadPeerList makes the peers anew, the client's own too.                 *)
ReadPeerList ==
    /\ breaks < MaxBreaks
    /\ breaks' = breaks + 1
    /\ ~parked
    /\ lasttick' = 0
    /\ UNCHANGED <<serverVars, net, acks, kept, have, view, hasty>>

(* The client drops out of the match and its peer is parked.                *)
DropOut ==
    /\ breaks < MaxBreaks
    /\ breaks' = breaks + 1
    /\ ~parked
    /\ parked' = TRUE
    /\ UNCHANGED <<tick, world, sent, acked, net, acks, clientVars, hasty>>

(* Another client of the account takes the peer over, with nothing kept;    *)
(* the server knows its address only.                                       *)
Rejoin ==
    /\ parked
    /\ parked' = FALSE
    /\ net' = {}
    /\ acks' = {}
    /\ kept' = Ring
    /\ have' = {}
    /\ lasttick' = 0
    /\ view' = NoView
    /\ hasty' = (hasty \/ tick + 1 - acked < N)
    /\ UNCHANGED <<tick, world, sent, acked, breaks>>

Next ==
    \/ Tick \/ SendInput \/ ReadPeerList \/ DropOut \/ Rejoin
    \/ \E a \in acks : ReceiveInput(a)
    \/ \E p \in net : ApplySnapshot(p)

Spec == Init /\ [][Next]_vars

-----------------------------------------------------------------------------
(* The newest snapshot a client has applied gives it every object near it    *)
(* as it was on the server at that tick, whatever was lost, repeated or      *)
(* reordered, and after a drop-out longer than the ring.                     *)
NewestDecoded ==
    ~hasty => \A o \in Objects :
        view.truth[o] # Absent => view.objs[o] = view.truth[o]

(* A player that drops out and comes back resumes with all state intact.    *)
RejoinDecoded ==
    \A o \in Objects : view.truth[o] # Absent => view.objs[o] = view.truth[o]

(* A snapshot reports every object that no longer exists of the snapshots    *)
(* sent since the last acknowledged one.                                    *)
DeletionsReported ==
    \A p \in net : \A o \in Objects :
        (p.tick = tick /\ world[o] = "gone" /\ acked = p.base)
        => ((\E k \in {t % N : t \in p.base .. p.tick - 1} :
                p.tick - p.base < N /\ sent[k] # NoSnapshot /\ sent[k][o] # Absent)
            => o \in p.deleted)
=============================================================================
