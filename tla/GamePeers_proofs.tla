--------------------------- MODULE GamePeers_proofs ---------------------------
(***************************************************************************)
(* Proofs about the players of a game, for any accounts, clients, agencies, *)
(* slots and limits.  A step is of one of a few kinds (StepKinds), and each *)
(* part of the invariant IInv is kept by a step of each kind.               *)
(***************************************************************************)
EXTENDS GamePeers, FiniteSetTheorems, WellFoundedInduction, TLAPS

-----------------------------------------------------------------------------
(* Slots and teams.                                                         *)

(* A set of numbers that is not empty has a lowest one: of the sets of what *)
(* is below each, a minimal one for strict inclusion.                       *)
LEMMA LowestIn ==
    ASSUME NEW S \in SUBSET Nat, S # {}
    PROVE  Lowest(S) \in S
  <1> DEFINE Below(x) == 0 .. x - 1
             Downs == {Below(x) : x \in S}
  <1>1. IsWellFoundedOn(StrictSubsetOrdering(Nat), FiniteSubsetsOf(Nat))
    BY FS_StrictSubsetOrderingWellFounded
  <1>2. Downs \subseteq FiniteSubsetsOf(Nat)
    <2>1. \A x \in S : Below(x) \in SUBSET Nat /\ IsFiniteSet(Below(x))
      BY FS_Interval
    <2> QED BY <2>1 DEF FiniteSubsetsOf
  <1>3. Downs # {}
    OBVIOUS
  <1>4. \E d \in Downs : \A e \in Downs : ~(<<e, d>> \in StrictSubsetOrdering(Nat))
    BY <1>1, <1>2, <1>3, WFMin
  <1>5. PICK x \in S : \A y \in S : ~(<<Below(y), Below(x)>> \in StrictSubsetOrdering(Nat))
    BY <1>4
  <1>6. \A y \in S : x <= y
    <2> SUFFICES ASSUME NEW y \in S, y < x PROVE FALSE
      OBVIOUS
    <2>1. Below(y) \subseteq Below(x) /\ y \in Below(x) /\ y \notin Below(y)
      OBVIOUS
    <2>2. Below(y) \in SUBSET Nat /\ Below(x) \in SUBSET Nat
      OBVIOUS
    <2> QED BY <1>5, <2>1, <2>2 DEF StrictSubsetOrdering
  <1> QED BY <1>6 DEF Lowest

(* The first parked slot of an account is one, and so is the first free one. *)
LEMMA SlotsFound ==
    /\ \A a : Rejoinable(a) # {} => Lowest(Rejoinable(a)) \in Rejoinable(a)
    /\ FreeSlots # {} => Lowest(FreeSlots) \in FreeSlots
    /\ \A a : LET P == {s \in Taken : peers[s].acct = a} IN P # {} => Lowest(P) \in P
  <1>1. \A a : Rejoinable(a) \in SUBSET Nat
    BY DEF Rejoinable, Taken, Slots
  <1>2. FreeSlots \in SUBSET Nat
    BY DEF FreeSlots, Slots
  <1>3. \A a : {s \in Taken : peers[s].acct = a} \in SUBSET Nat
    BY DEF Taken, Slots
  <1> QED BY <1>1, <1>2, <1>3, LowestIn

(* To join a team changes one team at most, and only by the slot that joins. *)
LEMMA JoinedTeams ==
    ASSUME TypeOK, NEW s \in Slots, NEW agency \in Agencies, NEW start
    PROVE  /\ Joined(s, agency, start) \in [TeamNumbers -> Teams \cup {NoTeam}]
           /\ \E v : \A u \in TeamNumbers :
                /\ u # v => Joined(s, agency, start)[u] = teams[u]
                /\ Joined(s, agency, start)[u] # NoTeam =>
                     \A x \in Joined(s, agency, start)[u].members :
                        x # s => teams[u] # NoTeam /\ x \in teams[u].members
  <1> DEFINE open == Lowest(Open(s, agency, start))
             new == Lowest({t \in TeamNumbers \ TeamsIn : t >= Begin(start)})
             team == [agency |-> agency, members |-> {s}]
  <1>1. teams \in [TeamNumbers -> Teams \cup {NoTeam}]
    BY DEF TypeOK
  <1>2. CASE Open(s, agency, start) # {}
    <2>1. Open(s, agency, start) \in SUBSET Nat
      BY DEF Open, TeamsIn, TeamNumbers
    <2>2. open \in TeamsIn
      BY <1>2, <2>1, LowestIn DEF Open
    <2>3. Joined(s, agency, start) = [teams EXCEPT ![open].members = @ \cup {s}]
      BY <1>2 DEF Joined
    <2>4. teams[open] \in Teams /\ open \in TeamNumbers
      BY <1>1, <2>2 DEF TeamsIn
    <2>5. [teams[open] EXCEPT !.members = @ \cup {s}] \in Teams
      BY <2>4 DEF Teams
    <2>6. Joined(s, agency, start) \in [TeamNumbers -> Teams \cup {NoTeam}]
      BY <1>1, <2>3, <2>5
    <2>7. \A u \in TeamNumbers : u # open => Joined(s, agency, start)[u] = teams[u]
      BY <1>1, <2>3
    <2>8. /\ Joined(s, agency, start)[open].members = teams[open].members \cup {s}
          /\ teams[open] # NoTeam
      BY <1>1, <2>2, <2>3, <2>4 DEF TeamsIn, Teams
    <2>9. \A u \in TeamNumbers : Joined(s, agency, start)[u] # NoTeam =>
             \A x \in Joined(s, agency, start)[u].members :
                 x # s => teams[u] # NoTeam /\ x \in teams[u].members
      BY <2>7, <2>8
    <2> QED BY <2>6, <2>7, <2>9
  <1>3. CASE Open(s, agency, start) = {}
    <2>1. Joined(s, agency, start) = [teams EXCEPT ![new] = team]
      BY <1>3 DEF Joined
    <2>2. team \in Teams
      BY DEF Teams
    <2>3. Joined(s, agency, start) \in [TeamNumbers -> Teams \cup {NoTeam}]
      BY <1>1, <2>1, <2>2
    <2>4. \A u \in TeamNumbers : u # new => Joined(s, agency, start)[u] = teams[u]
      BY <1>1, <2>1
    <2>5. new \in TeamNumbers => Joined(s, agency, start)[new].members = {s}
      BY <1>1, <2>1
    <2>6. \A u \in TeamNumbers : Joined(s, agency, start)[u] # NoTeam =>
             \A x \in Joined(s, agency, start)[u].members :
                 x # s => teams[u] # NoTeam /\ x \in teams[u].members
      BY <2>4, <2>5
    <2> QED BY <2>3, <2>4, <2>6
  <1> QED BY <1>2, <1>3

(* To join a team leaves the teams there are.                               *)
LEMMA JoinKeepsTeams ==
    ASSUME TypeOK, NEW s \in Slots, NEW agency \in Agencies, NEW start,
           NEW t \in TeamsIn
    PROVE  Joined(s, agency, start)[t] # NoTeam
  <1> DEFINE open == Lowest(Open(s, agency, start))
             new == Lowest({u \in TeamNumbers \ TeamsIn : u >= Begin(start)})
             team == [agency |-> agency, members |-> {s}]
  <1>1. teams \in [TeamNumbers -> Teams \cup {NoTeam}] /\ t \in TeamNumbers
        /\ teams[t] # NoTeam
    BY DEF TypeOK, TeamsIn
  <1>2. teams[t] \in Teams
    BY <1>1
  <1>3. CASE Open(s, agency, start) # {}
    <2>1. Joined(s, agency, start) = [teams EXCEPT ![open].members = @ \cup {s}]
      BY <1>3 DEF Joined
    <2>2. [teams[t] EXCEPT !.members = @ \cup {s}] \in Teams
      BY <1>2 DEF Teams
    <2> QED BY <1>1, <2>1, <2>2, MarkAssumption
  <1>4. CASE Open(s, agency, start) = {}
    <2>1. Joined(s, agency, start) = [teams EXCEPT ![new] = team]
      BY <1>4 DEF Joined
    <2>2. team \in Teams
      BY DEF Teams
    <2> QED BY <1>1, <2>1, <2>2, MarkAssumption
  <1> QED BY <1>3, <1>4

(* Nobody has come or gone: each slot that was taken still is, by the same   *)
(* account, as a player or as an observer as before.                        *)
SamePlayers ==
    /\ Taken' = Taken
    /\ \A s \in Taken :
          /\ peers'[s].acct = peers[s].acct
          /\ peers'[s].observer = peers[s].observer
          /\ peers[s].playing => peers'[s].playing

(* A peer that changes otherwise leaves the players the same.               *)
LEMMA PeerChanged ==
    ASSUME TypeOK, NEW s \in Taken, NEW p \in Peers,
           peers' = [peers EXCEPT ![s] = p],
           p.acct = peers[s].acct, p.observer = peers[s].observer,
           p.playing = peers[s].playing
    PROVE  SamePlayers /\ peers' \in [Slots -> Peers \cup {NoPeer}]
  BY MarkAssumption DEF TypeOK, SamePlayers, Taken

(* When no peer changes, they are the same.                                 *)
LEMMA PeersSame ==
    ASSUME TypeOK, peers' = peers
    PROVE  SamePlayers /\ peers' \in [Slots -> Peers \cup {NoPeer}]
  BY DEF TypeOK, SamePlayers, Taken

(* A peer of a type, by its slot.                                           *)
LEMMA PeerType ==
    ASSUME TypeOK, NEW s \in Taken
    PROVE  peers[s] \in Peers /\ s \in Slots
  BY DEF TypeOK, Taken

-----------------------------------------------------------------------------
(* What the handlers do to the players.                                     *)

(* Who comes back is the player that went, with another client.             *)
LEMMA RejoinPlayers ==
    ASSUME TypeOK, NEW c \in Clients, Rejoin(c)
    PROVE  SamePlayers /\ peers' \in [Slots -> Peers \cup {NoPeer}]
  <1> DEFINE s == Lowest(Rejoinable(AccountOf[c]))
             p == [peers[s] EXCEPT !.client = c, !.parked = FALSE]
  <1>1. s \in Taken
    BY SlotsFound DEF Rejoin, Rejoinable
  <1>2. peers[s] \in Peers
    BY <1>1, PeerType
  <1>3. /\ p \in Peers
        /\ p.acct = peers[s].acct /\ p.observer = peers[s].observer
        /\ p.playing = peers[s].playing
    BY <1>2 DEF Peers
  <1>4. peers' = [peers EXCEPT ![s] = p]
    BY <1>1 DEF Rejoin, TypeOK, Taken
  <1> QED BY <1>1, <1>3, <1>4, PeerChanged

(* What a new peer is.                                                      *)
LEMMA NewPeerType ==
    ASSUME NEW c \in Clients, NEW observer \in BOOLEAN
    PROVE  /\ NewPeer(c, observer) \in Peers
           /\ NewPeer(c, observer).observer = observer
  BY AccountAssumption DEF NewPeer, Peers

(* A new peer takes a slot that was free.                                   *)
Arrives(s, p) ==
    /\ s \in FreeSlots
    /\ p \in Peers
    /\ peers' = [peers EXCEPT ![s] = p]

(* Connect makes a new peer, which joins a team.                            *)
LEMMA ConnectPlayers ==
    ASSUME TypeOK, NEW c \in Clients, NEW agency \in Agencies, Connect(c, agency)
    PROVE  \E s, p : /\ Arrives(s, p) /\ ~p.observer
                     /\ teams' = Joined(s, agency, 0)
  <1>1. Lowest(FreeSlots) \in FreeSlots
    BY SlotsFound DEF Connect
  <1>2. Arrives(Lowest(FreeSlots), NewPeer(c, FALSE)) /\ ~NewPeer(c, FALSE).observer
    BY <1>1, NewPeerType DEF Connect, Arrives
  <1> QED BY <1>2 DEF Connect

(* ConnectObserver makes a new peer.                                        *)
LEMMA ObserverPlayers ==
    ASSUME TypeOK, NEW c \in Clients, ConnectObserver(c)
    PROVE  \E s, p : Arrives(s, p)
  <1>1. Lowest(FreeSlots) \in FreeSlots
    BY SlotsFound DEF ConnectObserver
  <1> QED BY <1>1, NewPeerType DEF ConnectObserver, Arrives

(* A new peer leaves the others as they were.                               *)
LEMMA ArrivesType ==
    ASSUME TypeOK, NEW s, NEW p, Arrives(s, p)
    PROVE  /\ peers' \in [Slots -> Peers \cup {NoPeer}]
           /\ Taken' = Taken \cup {s}
           /\ s \in Slots \ Taken
           /\ peers'[s] = p
           /\ \A r \in Taken : peers'[r] = peers[r]
  BY MarkAssumption DEF TypeOK, Arrives, FreeSlots, Taken

(* A peer that goes for good leaves its slot and its team.                  *)
Departs(s) ==
    /\ peers' = [peers EXCEPT ![s] = NoPeer]
    /\ teams' = Without(teams, s)
    /\ results' = Forfeited(s)

(* A peer that goes leaves the others as they were.                         *)
LEMMA DepartsType ==
    ASSUME TypeOK, NEW s \in Taken, Departs(s)
    PROVE  /\ peers' \in [Slots -> Peers \cup {NoPeer}]
           /\ Taken' = Taken \ {s}
           /\ \A r \in Taken' : peers'[r] = peers[r]
           /\ teams' \in [TeamNumbers -> Teams \cup {NoTeam}]
           /\ results' \in [Accounts -> [won : Nat, lost : Nat]]
  <1>1. /\ peers' \in [Slots -> Peers \cup {NoPeer}]
        /\ Taken' = Taken \ {s}
        /\ \A r \in Taken' : peers'[r] = peers[r]
    BY DEF TypeOK, Departs, Taken
  <1>2. teams' \in [TeamNumbers -> Teams \cup {NoTeam}]
    BY DEF TypeOK, Departs, Without, Teams
  <1>3. results' \in [Accounts -> [won : Nat, lost : Nat]]
    <2> DEFINE a == peers[s].acct
    <2>1. a \in Accounts
      BY PeerType DEF Peers
    <2>2. results \in [Accounts -> [won : Nat, lost : Nat]]
      BY DEF TypeOK
    <2>3. [results[a] EXCEPT !.lost = @ + 1] \in [won : Nat, lost : Nat]
      BY <2>1, <2>2
    <2> QED BY <2>1, <2>2, <2>3 DEF Departs, Forfeited
  <1> QED BY <1>1, <1>2, <1>3

(* HandleDisconnect parks a peer or lets it go.                             *)
LEMMA Disconnected ==
    ASSUME TypeOK, NEW s \in Taken, NEW permanent \in BOOLEAN,
           HandleDisconnect(s, permanent)
    PROVE  \/ /\ Parks(s, permanent)
              /\ SamePlayers /\ peers' \in [Slots -> Peers \cup {NoPeer}]
              /\ teams' = teams /\ results' = results
           \/ ~Parks(s, permanent) /\ Departs(s)
  <1>1. CASE Parks(s, permanent)
    <2> DEFINE p == [peers[s] EXCEPT !.parked = TRUE, !.ready = FALSE]
    <2>1. peers[s] \in Peers
      BY PeerType
    <2>2. /\ p \in Peers
          /\ p.acct = peers[s].acct /\ p.observer = peers[s].observer
          /\ p.playing = peers[s].playing
      BY <2>1 DEF Peers
    <2>3. peers' = [peers EXCEPT ![s] = p]
      BY <1>1 DEF HandleDisconnect, TypeOK, Taken
    <2> QED BY <1>1, <2>2, <2>3, PeerChanged DEF HandleDisconnect
  <1>2. CASE ~Parks(s, permanent)
    BY <1>2 DEF HandleDisconnect, Departs
  <1> QED BY <1>1, <1>2

-----------------------------------------------------------------------------
(* Types.                                                                   *)

(* A player that leaves for another team, or for none.                      *)
Moves(s) == \E start : \E t \in TeamOf(s), agency \in Agencies :
    teams' = [(IF FindsTeam(s, agency, start) THEN Joined(s, agency, start) ELSE teams)
                 EXCEPT ![t].members = @ \ {s}]

(* ChangeTeam and SetAgency both move a player of the lobby.                *)
LEMMA ChangesTeam ==
    ASSUME TypeOK, NEW s \in Taken,
           \/ ChangeTeam(s)
           \/ \E g \in Agencies : SetAgency(s, g)
    PROVE  /\ SamePlayers /\ peers' \in [Slots -> Peers \cup {NoPeer}]
           /\ Moves(s)
  <1> DEFINE p == [peers[s] EXCEPT !.ready = FALSE]
  <1>1. peers[s] \in Peers
    BY PeerType
  <1>2. /\ p \in Peers
        /\ p.acct = peers[s].acct /\ p.observer = peers[s].observer
        /\ p.playing = peers[s].playing
    BY <1>1 DEF Peers
  <1>3. peers' = [peers EXCEPT ![s] = p]
    BY DEF ChangeTeam, SetAgency, TypeOK, Taken
  <1>4. CASE ChangeTeam(s)
    <2>1. PICK t \in TeamOf(s) :
             /\ FindsTeam(s, teams[t].agency, t + 1)
             /\ teams' = [Joined(s, teams[t].agency, t + 1) EXCEPT ![t].members = @ \ {s}]
      BY <1>4 DEF ChangeTeam
    <2>2. teams[t].agency \in Agencies
      BY DEF TypeOK, TeamOf, TeamsIn, Teams
    <2> QED BY <2>1, <2>2, <1>2, <1>3, PeerChanged DEF Moves
  <1>5. CASE \E g \in Agencies : SetAgency(s, g)
    <2>1. PICK g \in Agencies : SetAgency(s, g)
      BY <1>5
    <2>2. PICK t \in TeamOf(s) :
             teams' = [(IF FindsTeam(s, g, 0) THEN Joined(s, g, 0) ELSE teams)
                          EXCEPT ![t].members = @ \ {s}]
      BY <2>1 DEF SetAgency
    <2> QED BY <2>2, <1>2, <1>3, PeerChanged DEF Moves
  <1> QED BY <1>4, <1>5

(* Of the teams a move leaves behind one has gained the player at most, and *)
(* it is not the one left.                                                  *)
LEMMA MovedTeams ==
    ASSUME TypeOK, NEW s \in Slots, Moves(s)
    PROVE  /\ teams' \in [TeamNumbers -> Teams \cup {NoTeam}]
           /\ \E v : \E t \in TeamOf(s) :
                /\ teams'[t] # NoTeam => s \notin teams'[t].members
                /\ \A u \in TeamNumbers : teams'[u] # NoTeam =>
                     \A x \in teams'[u].members :
                        \/ teams[u] # NoTeam /\ x \in teams[u].members
                        \/ u = v /\ x = s
  <1>1. PICK start : \E t \in TeamOf(s), g \in Agencies :
           teams' = [(IF FindsTeam(s, g, start) THEN Joined(s, g, start) ELSE teams)
                        EXCEPT ![t].members = @ \ {s}]
    BY DEF Moves
  <1>11. PICK t \in TeamOf(s), g \in Agencies :
           teams' = [(IF FindsTeam(s, g, start) THEN Joined(s, g, start) ELSE teams)
                        EXCEPT ![t].members = @ \ {s}]
    BY <1>1
  <1> DEFINE ts == IF FindsTeam(s, g, start) THEN Joined(s, g, start) ELSE teams
  <1>2. /\ ts \in [TeamNumbers -> Teams \cup {NoTeam}]
        /\ \E v : \A u \in TeamNumbers :
             /\ u # v => ts[u] = teams[u]
             /\ ts[u] # NoTeam => \A x \in ts[u].members :
                    x # s => teams[u] # NoTeam /\ x \in teams[u].members
    <2>1. CASE FindsTeam(s, g, start)
      <3>1. ts = Joined(s, g, start)
        BY <2>1
      <3> HIDE DEF ts
      <3> QED BY <3>1, JoinedTeams
    <2>2. CASE ~FindsTeam(s, g, start)
      <3>1. ts = teams
        BY <2>2
      <3> HIDE DEF ts
      <3> QED BY <3>1 DEF TypeOK
    <2> QED BY <2>1, <2>2
  <1>3. PICK v : \A u \in TeamNumbers :
             /\ u # v => ts[u] = teams[u]
             /\ ts[u] # NoTeam => \A x \in ts[u].members :
                    x # s => teams[u] # NoTeam /\ x \in teams[u].members
    BY <1>2
  <1>4. t \in TeamNumbers
    BY DEF TeamOf, TeamsIn
  <1> HIDE DEF ts
  <1>5. teams' = [ts EXCEPT ![t].members = @ \ {s}]
    BY <1>11 DEF ts
  <1>6. ts[t] # NoTeam
    <2>1. teams[t] # NoTeam /\ teams[t] \in Teams
      BY <1>4 DEF TypeOK, TeamOf, TeamsIn
    <2>2. CASE FindsTeam(s, g, start)
      <3>1. ts = Joined(s, g, start)
        BY <2>2 DEF ts
      <3>2. t \in TeamsIn
        BY DEF TeamOf
      <3> QED BY <3>1, <3>2, JoinKeepsTeams
    <2>3. CASE ~FindsTeam(s, g, start)
      BY <2>1, <2>3 DEF ts
    <2> QED BY <2>2, <2>3
  <1>7. /\ ts[t] \in Teams
        /\ teams'[t] = [ts[t] EXCEPT !.members = @ \ {s}]
        /\ \A u \in TeamNumbers : u # t => teams'[u] = ts[u]
    BY <1>2, <1>4, <1>5, <1>6
  <1>8. /\ teams'[t] \in Teams
        /\ teams'[t].members = ts[t].members \ {s}
    BY <1>7 DEF Teams
  <1>9. teams' \in [TeamNumbers -> Teams \cup {NoTeam}]
    BY <1>2, <1>4, <1>5, <1>7, <1>8
  <1>10. \A u \in TeamNumbers : teams'[u] # NoTeam =>
             \A x \in teams'[u].members :
                \/ teams[u] # NoTeam /\ x \in teams[u].members
                \/ u = v /\ x = s
    BY <1>3, <1>6, <1>7, <1>8
  <1> QED BY <1>8, <1>9, <1>10

-----------------------------------------------------------------------------
(* The kinds of steps.                                                      *)

Early == phase \in {"lobby", "fade", "match", "won"}

(* Everybody stays where they are.  Results change only when they are        *)
(* counted.                                                                 *)
Quiet ==
    /\ SamePlayers
    /\ \A s \in Slots : TeamOf(s)' = TeamOf(s)
    /\ (InGame' => InGame) /\ (Early' => Early)
    /\ Early' => results' = results
    /\ phase' = "counted" =>
          \/ CheckForEndOfGame
          \/ phase = "counted" /\ UNCHANGED <<winner, results>>
    /\ UNCHANGED <<roster, kicked>>

(* Somebody comes, to play or to watch.                                     *)
Comes(s, p) ==
    /\ Arrives(s, p)
    /\ \/ teams' = teams
       \/ ~p.observer /\ InLobby /\ \E g \in Agencies : teams' = Joined(s, g, 0)
    /\ UNCHANGED <<phase, winner, roster, results, kicked>>

(* Somebody changes the team.                                               *)
Transfers(s) ==
    /\ SamePlayers
    /\ InLobby
    /\ Moves(s)
    /\ UNCHANGED <<phase, winner, roster, results, kicked>>

(* Somebody goes: out of the lobby, an observer, or one that was kicked.     *)
Goes(s) ==
    /\ Departs(s)
    /\ InLobby \/ peers[s].observer \/ peers[s].acct \in kicked'
    /\ kicked \subseteq kicked'
    /\ UNCHANGED <<phase, winner, roster>>

Kinds ==
    \/ Quiet
    \/ StartMatch
    \/ \E s, p : Comes(s, p)
    \/ \E s \in Taken : Transfers(s) \/ Goes(s)

(* Nobody moves while a peer says what it has loaded or wants.               *)
LEMMA QuietPeer ==
    ASSUME TypeOK, NEW s \in Slots, GameInfo(s) \/ Loaded(s) \/ Ready(s)
    PROVE  TypeOK' /\ Quiet
  <1>1. s \in Taken /\ peers[s] \in Peers
    BY PeerType DEF GameInfo, Loaded, Ready
  <1>2. SamePlayers /\ peers' \in [Slots -> Peers \cup {NoPeer}]
    <2>1. CASE peers' = peers
      BY <2>1, PeersSame
    <2>2. CASE Loaded(s)
      <3> DEFINE p == [peers[s] EXCEPT !.loaded = TRUE]
      <3>1. /\ p \in Peers
            /\ p.acct = peers[s].acct /\ p.observer = peers[s].observer
            /\ p.playing = peers[s].playing
        BY <1>1 DEF Peers
      <3>2. peers' = [peers EXCEPT ![s] = p]
        BY <2>2 DEF Loaded, TypeOK
      <3> QED BY <1>1, <3>1, <3>2, PeerChanged
    <2>3. CASE Ready(s)
      <3> DEFINE p == [peers[s] EXCEPT !.ready = ~@]
      <3>1. /\ p \in Peers
            /\ p.acct = peers[s].acct /\ p.observer = peers[s].observer
            /\ p.playing = peers[s].playing
        BY <1>1 DEF Peers
      <3>2. peers' = [peers EXCEPT ![s] = p]
        BY <2>3 DEF Ready, TypeOK
      <3> QED BY <1>1, <3>1, <3>2, PeerChanged
    <2> QED BY <2>1, <2>2, <2>3 DEF GameInfo
  <1>3. /\ informed' \in BOOLEAN
        /\ UNCHANGED <<phase, teams, winner, roster, results, kicked>>
    BY DEF GameInfo, Loaded, Ready, TypeOK
  <1>4. TypeOK'
    BY <1>2, <1>3 DEF TypeOK
  <1> QED BY <1>2, <1>3, <1>4 DEF Quiet, InGame, Early, TeamOf, TeamsIn

(* Nor while an account comes back to the slot it had.                      *)
LEMMA QuietRejoin ==
    ASSUME TypeOK, NEW c \in Clients, Rejoin(c)
    PROVE  TypeOK' /\ Quiet
  <1>1. SamePlayers /\ peers' \in [Slots -> Peers \cup {NoPeer}]
    BY RejoinPlayers
  <1>2. UNCHANGED <<phase, informed, teams, winner, roster, results, kicked>>
    BY DEF Rejoin
  <1>3. TypeOK'
    BY <1>1, <1>2 DEF TypeOK
  <1> QED BY <1>1, <1>2, <1>3 DEF Quiet, InGame, Early, TeamOf, TeamsIn

(* Nor while the server's tick changes the phase of the game, but for the    *)
(* start of the match.                                                      *)
LEMMA QuietPhase ==
    ASSUME TypeOK, DecideStart \/ NoPeers \/ \E t \in TeamNumbers : Win(t)
    PROVE  TypeOK' /\ Quiet
  <1>1. /\ phase' \in Phases /\ winner' \in TeamNumbers \cup {NoTeam}
        /\ UNCHANGED <<informed, peers, teams, roster, results, kicked>>
        /\ (InGame' => InGame) /\ (Early' => Early) /\ phase' # "counted"
    BY DEF DecideStart, NoPeers, Win, TypeOK, Phases, InLobby, InGame, Early
  <1>2. SamePlayers
    BY <1>1, PeersSame
  <1>3. TypeOK'
    BY <1>1 DEF TypeOK
  <1> QED BY <1>1, <1>2, <1>3 DEF Quiet, TeamOf, TeamsIn

(* A team that goes had nobody.                                             *)
LEMMA QuietTeamTick ==
    ASSUME TypeOK, TeamTick
    PROVE  TypeOK' /\ Quiet
  <1>1. UNCHANGED <<phase, informed, peers, winner, roster, results, kicked>>
    BY DEF TeamTick
  <1>2. /\ teams' \in [TeamNumbers -> Teams \cup {NoTeam}]
        /\ \A t \in TeamNumbers :
              teams'[t] = IF teams[t] # NoTeam /\ teams[t].members # {}
                          THEN teams[t] ELSE NoTeam
    BY DEF TeamTick, TypeOK, TeamsIn
  <1>3. \A s \in Slots : TeamOf(s)' = TeamOf(s)
    BY <1>2 DEF TeamOf, TeamsIn
  <1>4. SamePlayers
    BY <1>1, PeersSame
  <1>5. TypeOK'
    BY <1>1, <1>2 DEF TypeOK
  <1> QED BY <1>1, <1>3, <1>4, <1>5 DEF Quiet, InGame, Early

(* To count results moves nobody.                                           *)
LEMMA QuietCount ==
    ASSUME TypeOK, CheckForEndOfGame,
           \A a \in Accounts : Cardinality({r \in roster : r.acct = a}) \in Nat
    PROVE  TypeOK' /\ Quiet
  <1>1. /\ phase = "won" /\ phase' \in {"counted", "crashed"}
        /\ UNCHANGED <<informed, peers, teams, winner, roster, kicked>>
        /\ results' = results \/ results' = Recounted
    BY DEF CheckForEndOfGame
  <1>2. SamePlayers
    BY <1>1, PeersSame
  <1>3. results' \in [Accounts -> [won : Nat, lost : Nat]]
    <2>1. results \in [Accounts -> [won : Nat, lost : Nat]]
      BY DEF TypeOK
    <2>2. Recounted \in [Accounts -> [won : Nat, lost : Nat]]
      BY <2>1 DEF Recounted
    <2> QED BY <1>1, <2>1, <2>2
  <1>4. TypeOK'
    BY <1>1, <1>3 DEF TypeOK, Phases
  <1> QED BY <1>1, <1>2, <1>4 DEF Quiet, InGame, Early, TeamOf, TeamsIn

(* To start a match gives each member of a team its player.                 *)
LEMMA StartedPlayers ==
    ASSUME TypeOK, StartMatch
    PROVE  /\ SamePlayers
           /\ \A s \in Taken : TeamOf(s) # {} => peers'[s].playing
  <1>1. \A s \in Slots : peers'[s] = IF s \in Taken /\ TeamOf(s) # {}
                                     THEN [peers[s] EXCEPT !.playing = TRUE] ELSE peers[s]
    BY DEF StartMatch
  <1>2. \A s \in Taken : s \in Slots /\ peers[s] \in Peers
    BY PeerType
  <1>3. \A s \in Taken :
                         /\ peers'[s] \in Peers
                         /\ peers'[s].acct = peers[s].acct
                         /\ peers'[s].observer = peers[s].observer
                         /\ peers[s].playing => peers'[s].playing
                         /\ TeamOf(s) # {} => peers'[s].playing
    <2> SUFFICES ASSUME NEW s \in Taken
                 PROVE  /\ peers'[s] \in Peers
                        /\ peers'[s].acct = peers[s].acct
                        /\ peers'[s].observer = peers[s].observer
                        /\ peers[s].playing => peers'[s].playing
                        /\ TeamOf(s) # {} => peers'[s].playing
      OBVIOUS
    <2>1. CASE TeamOf(s) # {}
      <3>1. peers'[s] = [peers[s] EXCEPT !.playing = TRUE]
        BY <1>1, <1>2, <2>1
      <3>2. peers[s] \in Peers
        BY <1>2
      <3> QED BY <3>1, <3>2 DEF Peers
    <2>2. CASE TeamOf(s) = {}
      BY <1>1, <1>2, <2>2
    <2> QED BY <2>1, <2>2
  <1>4. Taken' = Taken
    BY <1>1, <1>3, MarkAssumption DEF Taken
  <1> QED BY <1>3, <1>4 DEF SamePlayers

(* The line-up of a match is finite, and so are its users.                  *)
LEMMA LineupStarts ==
    ASSUME TypeOK, StartMatch
    PROVE  TypeOK' /\ IsFiniteSet(roster')
  <1> DEFINE User(p) == [slot |-> p[1], acct |-> peers[p[1]].acct, team |-> p[2]]
             f == [p \in Lineup |-> User(p)]
  <1>1. /\ roster' = {User(p) : p \in Lineup}
        /\ peers' = [s \in Slots |-> IF s \in Taken /\ TeamOf(s) # {}
                                     THEN [peers[s] EXCEPT !.playing = TRUE] ELSE peers[s]]
        /\ phase' = "match"
        /\ UNCHANGED <<informed, teams, winner, results, kicked>>
    BY DEF StartMatch
  <1>2. Lineup \subseteq Slots \X TeamNumbers
    BY DEF Lineup, Taken, TeamsIn
  <1>3. IsFiniteSet(Lineup)
    <2>1. IsFiniteSet(Slots) /\ IsFiniteSet(TeamNumbers)
      BY SlotAssumption, LimitAssumption, FS_Interval DEF Slots, TeamNumbers
    <2>2. IsFiniteSet(Slots \X TeamNumbers)
      BY <2>1, FS_Product
    <2> QED BY <1>2, <2>2, FS_Subset
  <1>4. IsFiniteSet(roster')
    <2>1. f \in Surjection(Lineup, roster')
      BY <1>1 DEF Surjection
    <2> QED BY <1>3, <2>1, FS_Surjection
  <1>5. peers' \in [Slots -> Peers \cup {NoPeer}]
    <2> SUFFICES ASSUME NEW s \in Slots, s \in Taken
                 PROVE  [peers[s] EXCEPT !.playing = TRUE] \in Peers
      BY <1>1 DEF TypeOK
    <2>1. peers[s] \in Peers
      BY PeerType
    <2> QED BY <2>1 DEF Peers
  <1>6. roster' \subseteq [slot : Slots, acct : Accounts, team : TeamNumbers]
    <2> SUFFICES ASSUME NEW p \in Lineup
                 PROVE  User(p) \in [slot : Slots, acct : Accounts, team : TeamNumbers]
      BY <1>1
    <2>1. p[1] \in Taken /\ p[1] \in Slots /\ p[2] \in TeamNumbers
      BY DEF Lineup, Taken, TeamsIn
    <2>2. peers[p[1]].acct \in Accounts
      BY <2>1, PeerType DEF Peers
    <2> QED BY <2>1, <2>2
  <1> QED BY <1>1, <1>4, <1>5, <1>6 DEF TypeOK, Phases

(* A new peer joins a team in the lobby only.                               *)
LEMMA ComesStep ==
    ASSUME TypeOK, NEW c \in Clients,
           ConnectObserver(c) \/ \E g \in Agencies : Connect(c, g)
    PROVE  TypeOK' /\ \E s, p : Comes(s, p)
  <1>1. CASE ConnectObserver(c)
    <2>1. PICK s, p : Arrives(s, p)
      BY <1>1, ObserverPlayers
    <2>2. UNCHANGED <<phase, informed, teams, winner, roster, results, kicked>>
      BY <1>1 DEF ConnectObserver
    <2>3. TypeOK'
      BY <2>1, <2>2, ArrivesType DEF TypeOK
    <2> QED BY <2>1, <2>2, <2>3 DEF Comes
  <1>2. CASE \E g \in Agencies : Connect(c, g)
    <2>1. PICK g \in Agencies : Connect(c, g)
      BY <1>2
    <2>2. PICK s, p : Arrives(s, p) /\ ~p.observer /\ teams' = Joined(s, g, 0)
      BY <2>1, ConnectPlayers
    <2>3. InLobby /\ UNCHANGED <<phase, informed, winner, roster, results, kicked>>
      BY <2>1 DEF Connect
    <2>4. s \in Slots /\ peers' \in [Slots -> Peers \cup {NoPeer}]
      BY <2>2, ArrivesType
    <2>5. teams' \in [TeamNumbers -> Teams \cup {NoTeam}]
      BY <2>2, <2>4, JoinedTeams
    <2>6. TypeOK'
      BY <2>3, <2>4, <2>5 DEF TypeOK
    <2> QED BY <2>2, <2>3, <2>6 DEF Comes
  <1> QED BY <1>1, <1>2

(* To change the team keeps the types.                                      *)
LEMMA TransfersStep ==
    ASSUME TypeOK, NEW s \in Slots,
           ChangeTeam(s) \/ \E g \in Agencies : SetAgency(s, g)
    PROVE  TypeOK' /\ s \in Taken /\ Transfers(s)
  <1>1. /\ s \in Taken /\ InLobby
        /\ UNCHANGED <<phase, informed, winner, roster, results, kicked>>
    BY DEF ChangeTeam, SetAgency
  <1>2. SamePlayers /\ peers' \in [Slots -> Peers \cup {NoPeer}] /\ Moves(s)
    BY <1>1, ChangesTeam
  <1>3. teams' \in [TeamNumbers -> Teams \cup {NoTeam}]
    BY <1>2, MovedTeams
  <1>4. TypeOK'
    BY <1>1, <1>2, <1>3 DEF TypeOK
  <1> QED BY <1>1, <1>2, <1>4 DEF Transfers

(* Who is out is parked, unless it was in the lobby, an observer or kicked.  *)
LEMMA GoesStep ==
    ASSUME TypeOK, NEW s \in Taken, NEW permanent \in BOOLEAN,
           InLobby \/ InGame,
           HandleDisconnect(s, permanent),
           kicked \subseteq kicked', kicked' \subseteq Accounts,
           permanent /\ InGame => peers[s].acct \in kicked',
           ~permanent => kicked' = kicked
    PROVE  TypeOK' /\ (Quiet \/ Goes(s))
  <1>1. UNCHANGED <<phase, informed, winner, roster>>
    BY DEF HandleDisconnect
  <1>2. CASE Parks(s, permanent)
    <2>1. /\ SamePlayers /\ peers' \in [Slots -> Peers \cup {NoPeer}]
          /\ teams' = teams /\ results' = results
      BY <1>2, Disconnected
    <2>2. kicked' = kicked
      BY <1>2 DEF Parks
    <2>3. TypeOK'
      BY <1>1, <2>1, <2>2 DEF TypeOK
    <2> QED BY <1>1, <2>1, <2>2, <2>3 DEF Quiet, InGame, Early, TeamOf, TeamsIn
  <1>3. CASE ~Parks(s, permanent)
    <2>1. Departs(s)
      BY <1>3, Disconnected
    <2>2. TypeOK'
      BY <1>1, <2>1, DepartsType DEF TypeOK
    <2>3. InLobby \/ peers[s].observer \/ peers[s].acct \in kicked'
      BY <1>3 DEF Parks
    <2> QED BY <1>1, <2>1, <2>2, <2>3 DEF Goes
  <1> QED BY <1>2, <1>3

(* Every step is of one of these kinds.                                     *)
LEMMA StepKinds ==
    ASSUME TypeOK, IsFiniteSet(roster), [Next]_vars
    PROVE  TypeOK' /\ IsFiniteSet(roster') /\ Kinds
  <1>1. ASSUME NEW c \in Clients, Rejoin(c)
        PROVE  TypeOK' /\ Quiet
    BY <1>1, QuietRejoin
  <1>2. ASSUME NEW c \in Clients,
               ConnectObserver(c) \/ \E g \in Agencies : Connect(c, g)
        PROVE  TypeOK' /\ \E s, p : Comes(s, p)
    BY <1>2, ComesStep
  <1>3. ASSUME NEW s \in Slots, Leave(s) \/ LevelCheck(s)
        PROVE  TypeOK' /\ s \in Taken /\ (Quiet \/ Goes(s))
    <2>1. /\ s \in Taken /\ (InLobby \/ InGame)
          /\ HandleDisconnect(s, FALSE) /\ kicked' = kicked
      BY <1>3 DEF Leave, LevelCheck
    <2> QED BY <2>1, GoesStep DEF TypeOK
  <1>4. ASSUME NEW a \in Accounts, Kick(a)
        PROVE  TypeOK' /\ \E s \in Taken : Quiet \/ Goes(s)
    <2> DEFINE s == Lowest({x \in Taken : peers[x].acct = a})
    <2>1. s \in Taken /\ peers[s].acct = a
      BY <1>4, SlotsFound DEF Kick
    <2>2. /\ InLobby \/ InGame
          /\ HandleDisconnect(s, TRUE)
          /\ kicked' = IF InGame THEN kicked \cup {a} ELSE kicked
      BY <1>4 DEF Kick
    <2> HIDE DEF s
    <2> QED BY <2>1, <2>2, GoesStep DEF TypeOK
  <1>5. ASSUME NEW s \in Slots, GameInfo(s) \/ Loaded(s) \/ Ready(s)
        PROVE  TypeOK' /\ Quiet
    BY <1>5, QuietPeer
  <1>6. ASSUME NEW s \in Slots, ChangeTeam(s) \/ \E g \in Agencies : SetAgency(s, g)
        PROVE  TypeOK' /\ s \in Taken /\ Transfers(s)
    BY <1>6, TransfersStep
  <1>7. ASSUME DecideStart \/ NoPeers \/ \E t \in TeamNumbers : Win(t)
        PROVE  TypeOK' /\ Quiet
    BY <1>7, QuietPhase
  <1>8. ASSUME CheckForEndOfGame
        PROVE  TypeOK' /\ Quiet
    <2>1. \A a \in Accounts : Cardinality({r \in roster : r.acct = a}) \in Nat
      BY FS_Subset, FS_CardinalityType
    <2> QED BY <1>8, <2>1, QuietCount
  <1>9. ASSUME UNCHANGED vars
        PROVE  TypeOK' /\ Quiet
    <2>1. SamePlayers
      BY <1>9, PeersSame DEF vars
    <2>2. TypeOK'
      BY <1>9 DEF TypeOK, vars
    <2> QED BY <1>9, <2>1, <2>2 DEF vars, Quiet, InGame, Early, TeamOf, TeamsIn
  <1>10. TypeOK' /\ Kinds
    BY <1>1, <1>2, <1>3, <1>4, <1>5, <1>6, <1>7, <1>8, <1>9,
       LineupStarts, QuietTeamTick DEF Next, Kinds
  <1>11. IsFiniteSet(roster')
    BY <1>10, LineupStarts DEF Kinds, Quiet, Comes, Transfers, Goes
  <1> QED BY <1>10, <1>11

-----------------------------------------------------------------------------
(* The invariant.                                                           *)

MembersPlay == \A s \in Slots : TeamOf(s) # {} => s \in Taken /\ ~peers[s].observer
OneTeam == \A s \in Slots : \A t, u \in TeamOf(s) : t = u

(* NobodyJoinsLate, by the slot.                                            *)
StartedWith == InGame => \A s \in Slots : \A t \in TeamOf(s) :
    [slot |-> s, acct |-> peers[s].acct, team |-> t] \in roster

(* Only an account that was kicked has a result before results are counted. *)
NoResultYet == Early => \A a \in Accounts \ kicked : results[a] = [won |-> 0, lost |-> 0]

IInv ==
    /\ TypeOK
    /\ IsFiniteSet(roster)
    /\ MembersPlay
    /\ OneTeam
    /\ StartedWith
    /\ PlacesKept
    /\ NoResultYet
    /\ OneResult

(* It holds at the start, when nobody is there.                             *)
LEMMA InitInv == Init => IInv
  <1> SUFFICES ASSUME Init PROVE IInv
    OBVIOUS
  <1>1. TypeOK
    BY DEF Init, TypeOK, Phases
  <1>2. IsFiniteSet(roster)
    BY FS_EmptySet DEF Init
  <1>3. \A s \in Slots : TeamOf(s) = {}
    BY DEF Init, TeamOf, TeamsIn
  <1>4. NoResultYet
    BY DEF Init, NoResultYet
  <1>5. phase = "lobby"
    BY DEF Init
  <1>6. MembersPlay /\ OneTeam
    BY <1>3 DEF MembersPlay, OneTeam
  <1>7. StartedWith /\ PlacesKept /\ OneResult
    BY <1>5 DEF StartedWith, PlacesKept, OneResult, InGame
  <1> QED BY <1>1, <1>2, <1>4, <1>6, <1>7 DEF IInv

(* Who goes is in no team, the others stay in theirs.                       *)
LEMMA GoneTeams ==
    ASSUME TypeOK, NEW s \in Taken, Departs(s), NEW x \in Slots
    PROVE  TeamOf(x)' = IF x = s THEN {} ELSE TeamOf(x)
  <1>1. \A t \in TeamNumbers : teams'[t] =
           IF teams[t] = NoTeam THEN NoTeam ELSE [teams[t] EXCEPT !.members = @ \ {s}]
    BY DEF Departs, Without
  <1>2. \A t \in TeamNumbers : teams[t] # NoTeam => teams[t] \in Teams
    BY DEF TypeOK
  <1>3. \A t \in TeamNumbers : teams[t] # NoTeam =>
           /\ teams'[t] \in Teams
           /\ teams'[t].members = teams[t].members \ {s}
    <2> SUFFICES ASSUME NEW t \in TeamNumbers, teams[t] # NoTeam
                 PROVE  /\ teams'[t] \in Teams
                        /\ teams'[t].members = teams[t].members \ {s}
      OBVIOUS
    <2>1. teams'[t] = [teams[t] EXCEPT !.members = @ \ {s}]
      BY <1>1
    <2>2. teams[t] \in Teams
      BY <1>2
    <2> QED BY <2>1, <2>2 DEF Teams
  <1>4. \A t \in TeamNumbers : teams'[t] # NoTeam <=> teams[t] # NoTeam
    BY <1>1, <1>3, MarkAssumption
  <1> QED BY <1>3, <1>4 DEF TeamOf, TeamsIn

(* Who comes in the lobby is in one team at most; the others stay in theirs. *)
LEMMA ComersTeams ==
    ASSUME TypeOK, MembersPlay, NEW s, NEW p, Comes(s, p)
    PROVE  /\ s \in Slots /\ TeamOf(s) = {}
           /\ \A x \in Slots : x # s => TeamOf(x)' \subseteq TeamOf(x)
           /\ \A t, u \in TeamOf(s)' : t = u
           /\ TeamOf(s)' # {} => ~p.observer /\ InLobby
  <1>1. s \in Slots \ Taken
    BY ArrivesType DEF Comes
  <1>2. TeamOf(s) = {}
    BY <1>1 DEF MembersPlay
  <1>3. CASE teams' = teams
    BY <1>1, <1>2, <1>3 DEF TeamOf, TeamsIn
  <1>4. CASE ~p.observer /\ InLobby /\ \E g \in Agencies : teams' = Joined(s, g, 0)
    <2>1. PICK g \in Agencies : teams' = Joined(s, g, 0)
      BY <1>4
    <2>2. PICK v : \A u \in TeamNumbers :
                /\ u # v => teams'[u] = teams[u]
                /\ teams'[u] # NoTeam => \A x \in teams'[u].members :
                        x # s => teams[u] # NoTeam /\ x \in teams[u].members
      BY <1>1, <2>1, JoinedTeams
    <2>3. \A x \in Slots : x # s => TeamOf(x)' \subseteq TeamOf(x)
      BY <2>2 DEF TeamOf, TeamsIn
    <2>4. \A t \in TeamOf(s)' : t = v
      BY <1>2, <2>2 DEF TeamOf, TeamsIn
    <2> QED BY <1>1, <1>2, <1>4, <2>3, <2>4
  <1> QED BY <1>3, <1>4 DEF Comes

(* Who changes the team is in one at most; the others stay in theirs.       *)
LEMMA TransferredTeams ==
    ASSUME TypeOK, OneTeam, NEW s \in Taken, Transfers(s)
    PROVE  /\ \A x \in Slots : x # s => TeamOf(x)' \subseteq TeamOf(x)
           /\ \A t, u \in TeamOf(s)' : t = u
           /\ TeamOf(s) # {}
  <1>1. s \in Slots
    BY DEF Taken
  <1>2. PICK v : \E t \in TeamOf(s) :
                /\ teams'[t] # NoTeam => s \notin teams'[t].members
                /\ \A u \in TeamNumbers : teams'[u] # NoTeam =>
                     \A x \in teams'[u].members :
                        \/ teams[u] # NoTeam /\ x \in teams[u].members
                        \/ u = v /\ x = s
    BY <1>1, MovedTeams DEF Transfers
  <1>21. PICK t \in TeamOf(s) : teams'[t] # NoTeam => s \notin teams'[t].members
    BY <1>2
  <1>3. \A x \in Slots : x # s => TeamOf(x)' \subseteq TeamOf(x)
    BY <1>2 DEF TeamOf, TeamsIn
  <1>4. \A u \in TeamOf(s)' : u = v
    <2> SUFFICES ASSUME NEW u \in TeamOf(s)', u # v PROVE FALSE
      OBVIOUS
    <2>1. u \in TeamOf(s) /\ s \in teams'[u].members /\ teams'[u] # NoTeam
      BY <1>2, <1>21 DEF TeamOf, TeamsIn
    <2>2. u = t
      BY <1>1, <2>1 DEF OneTeam
    <2> QED BY <1>21, <2>1, <2>2
  <1> QED BY <1>3, <1>4

(* A step of each kind leaves a player in one team at most.                 *)
LEMMA TeamsStep ==
    ASSUME TypeOK, MembersPlay, OneTeam, Kinds
    PROVE  MembersPlay' /\ OneTeam'
  <1>1. CASE Quiet
    <2>1. \A x \in Slots : TeamOf(x)' = TeamOf(x)
      BY <1>1 DEF Quiet
    <2>2. /\ Taken' = Taken
          /\ \A x \in Taken : peers'[x].observer = peers[x].observer
      BY <1>1 DEF Quiet, SamePlayers
    <2> QED BY <2>1, <2>2 DEF MembersPlay, OneTeam
  <1>2. CASE StartMatch
    <2>1. \A x \in Slots : TeamOf(x)' = TeamOf(x)
      BY <1>2 DEF StartMatch, TeamOf, TeamsIn
    <2>2. /\ Taken' = Taken
          /\ \A x \in Taken : peers'[x].observer = peers[x].observer
      BY <1>2, StartedPlayers DEF SamePlayers
    <2> QED BY <2>1, <2>2 DEF MembersPlay, OneTeam
  <1>3. ASSUME NEW s, NEW p, Comes(s, p)
        PROVE  MembersPlay' /\ OneTeam'
    <2>1. /\ Taken' = Taken \cup {s} /\ peers'[s] = p
          /\ \A r \in Taken : peers'[r] = peers[r]
      BY <1>3, ArrivesType DEF Comes
    <2> QED BY <1>3, <2>1, ComersTeams DEF MembersPlay, OneTeam
  <1>4. ASSUME NEW s \in Taken, Transfers(s)
        PROVE  MembersPlay' /\ OneTeam'
    <2>1. /\ \A x \in Slots : x # s => TeamOf(x)' \subseteq TeamOf(x)
          /\ \A t, u \in TeamOf(s)' : t = u
          /\ TeamOf(s) # {}
      BY <1>4, TransferredTeams
    <2>2. /\ Taken' = Taken
          /\ \A x \in Taken : peers'[x].observer = peers[x].observer
      BY <1>4 DEF Transfers, SamePlayers
    <2>3. s \in Slots
      BY DEF Taken
    <2>4. \A x \in Slots : TeamOf(x)' # {} => TeamOf(x) # {}
      BY <2>1
    <2>5. MembersPlay'
      BY <2>2, <2>4 DEF MembersPlay
    <2>6. OneTeam'
      BY <2>1, <2>3 DEF OneTeam
    <2> QED BY <2>5, <2>6
  <1>5. ASSUME NEW s \in Taken, Goes(s)
        PROVE  MembersPlay' /\ OneTeam'
    <2>1. Departs(s)
      BY <1>5 DEF Goes
    <2>2. /\ Taken' = Taken \ {s}
          /\ \A r \in Taken' : peers'[r] = peers[r]
      BY <2>1, DepartsType
    <2> QED BY <2>1, <2>2, GoneTeams DEF MembersPlay, OneTeam
  <1> QED BY <1>1, <1>2, <1>3, <1>4, <1>5 DEF Kinds

(* Of the lobby nothing is asked; in a match nobody joins a team.            *)
LEMMA LateStep ==
    ASSUME TypeOK, MembersPlay, StartedWith, Kinds
    PROVE  StartedWith'
  <1> SUFFICES ASSUME InGame', NEW x \in Slots, NEW t \in TeamOf(x)'
               PROVE  [slot |-> x, acct |-> peers'[x].acct, team |-> t] \in roster'
    BY DEF StartedWith
  <1>1. CASE Quiet
    <2>1. /\ t \in TeamOf(x) /\ InGame /\ roster' = roster
          /\ x \in Taken => peers'[x].acct = peers[x].acct
      BY <1>1 DEF Quiet, SamePlayers
    <2> QED BY <2>1 DEF StartedWith, MembersPlay
  <1>2. CASE StartMatch
    <2>1. t \in TeamOf(x)
      BY <1>2 DEF StartMatch, TeamOf, TeamsIn
    <2>2. x \in Taken /\ peers'[x].acct = peers[x].acct
      BY <1>2, <2>1, StartedPlayers DEF SamePlayers, MembersPlay
    <2>3. <<x, t>> \in Lineup
      BY <2>1, <2>2 DEF Lineup, TeamOf
    <2>4. [slot |-> <<x, t>>[1], acct |-> peers[<<x, t>>[1]].acct, team |-> <<x, t>>[2]]
             \in roster'
      BY <1>2, <2>3 DEF StartMatch
    <2> QED BY <2>2, <2>4
  <1>3. ASSUME NEW s, NEW p, Comes(s, p)
        PROVE  [slot |-> x, acct |-> peers'[x].acct, team |-> t] \in roster'
    <2>1. InGame /\ ~InLobby /\ roster' = roster
      BY <1>3 DEF Comes, InGame, InLobby
    <2>2. x # s /\ t \in TeamOf(x)
      BY <1>3, <2>1, ComersTeams
    <2>3. x \in Taken
      BY <2>2 DEF MembersPlay
    <2>4. peers'[x] = peers[x]
      BY <1>3, <2>3, ArrivesType DEF Comes
    <2> QED BY <2>1, <2>2, <2>4 DEF StartedWith
  <1>4. ASSUME NEW s \in Taken, Transfers(s)
        PROVE  [slot |-> x, acct |-> peers'[x].acct, team |-> t] \in roster'
    BY <1>4 DEF Transfers, InGame, InLobby
  <1>5. ASSUME NEW s \in Taken, Goes(s)
        PROVE  [slot |-> x, acct |-> peers'[x].acct, team |-> t] \in roster'
    <2>1. Departs(s) /\ InGame /\ roster' = roster
      BY <1>5 DEF Goes, InGame
    <2>2. x # s /\ t \in TeamOf(x)
      BY <2>1, GoneTeams
    <2>3. x \in Taken
      BY <2>2 DEF MembersPlay
    <2>4. peers'[x] = peers[x]
      BY <2>1, <2>2, <2>3, DepartsType
    <2> QED BY <2>1, <2>2, <2>4 DEF StartedWith
  <1> QED BY <1>1, <1>2, <1>3, <1>4, <1>5 DEF Kinds

(* A user's slot is given to nobody else: who drops out is parked, and only  *)
(* observers and who was kicked go.                                         *)
LEMMA PlacesStep ==
    ASSUME TypeOK, MembersPlay, OneTeam, PlacesKept, Kinds
    PROVE  PlacesKept'
  <1> SUFFICES ASSUME InGame', NEW r \in roster', r.acct \notin kicked'
               PROVE  /\ r.slot \in Taken'
                      /\ peers'[r.slot].acct = r.acct
                      /\ peers'[r.slot].playing
                      /\ TeamOf(r.slot)' = {r.team}
    BY DEF PlacesKept
  <1> DEFINE Place(x, tm) ==
               /\ x \in Taken /\ x \in Slots
               /\ peers[x].acct = r.acct
               /\ peers[x].playing
               /\ TeamOf(x) = {tm}
  <1>0. ASSUME InGame, roster' = roster, kicked \subseteq kicked'
        PROVE  Place(r.slot, r.team)
    BY <1>0 DEF PlacesKept, Taken
  <1>1. CASE Quiet
    <2>1. InGame /\ roster' = roster /\ kicked' = kicked
      BY <1>1 DEF Quiet
    <2>2. Place(r.slot, r.team)
      BY <2>1, <1>0
    <2>3. /\ Taken' = Taken
          /\ peers'[r.slot].acct = peers[r.slot].acct
          /\ peers[r.slot].playing => peers'[r.slot].playing
          /\ TeamOf(r.slot)' = TeamOf(r.slot)
      BY <1>1, <2>2 DEF Quiet, SamePlayers
    <2> QED BY <2>2, <2>3
  <1>2. CASE StartMatch
    <2>1. PICK q \in Lineup :
             r = [slot |-> q[1], acct |-> peers[q[1]].acct, team |-> q[2]]
      BY <1>2 DEF StartMatch
    <2>2. /\ q[1] \in Taken /\ q[1] \in Slots /\ q[2] \in TeamOf(q[1])
      BY DEF Lineup, Taken, TeamOf
    <2>3. TeamOf(q[1]) = {q[2]}
      BY <2>2 DEF OneTeam
    <2>4. TeamOf(q[1])' = TeamOf(q[1])
      BY <1>2 DEF StartMatch, TeamOf, TeamsIn
    <2>5. /\ q[1] \in Taken'
          /\ peers'[q[1]].acct = peers[q[1]].acct
          /\ peers'[q[1]].playing
      BY <1>2, <2>2, StartedPlayers DEF SamePlayers
    <2> QED BY <2>1, <2>3, <2>4, <2>5
  <1>3. ASSUME NEW s, NEW p, Comes(s, p)
        PROVE  /\ r.slot \in Taken' /\ peers'[r.slot].acct = r.acct
               /\ peers'[r.slot].playing /\ TeamOf(r.slot)' = {r.team}
    <2>1. InGame /\ ~InLobby /\ roster' = roster /\ kicked' = kicked
      BY <1>3 DEF Comes, InGame, InLobby
    <2>2. Place(r.slot, r.team)
      BY <2>1, <1>0
    <2>3. teams' = teams
      BY <1>3, <2>1 DEF Comes
    <2>4. TeamOf(r.slot)' = TeamOf(r.slot)
      BY <2>3 DEF TeamOf, TeamsIn
    <2>5. r.slot \in Taken' /\ peers'[r.slot] = peers[r.slot]
      BY <1>3, <2>2, ArrivesType DEF Comes
    <2> QED BY <2>2, <2>4, <2>5
  <1>4. ASSUME NEW s \in Taken, Transfers(s)
        PROVE  FALSE
    BY <1>4 DEF Transfers, InGame, InLobby
  <1>5. ASSUME NEW s \in Taken, Goes(s)
        PROVE  /\ r.slot \in Taken' /\ peers'[r.slot].acct = r.acct
               /\ peers'[r.slot].playing /\ TeamOf(r.slot)' = {r.team}
    <2>1. /\ Departs(s) /\ InGame /\ ~InLobby /\ roster' = roster
          /\ kicked \subseteq kicked'
          /\ peers[s].observer \/ peers[s].acct \in kicked'
      BY <1>5 DEF Goes, InGame, InLobby
    <2>2. Place(r.slot, r.team)
      BY <2>1, <1>0
    <2>3. ~peers[r.slot].observer
      BY <2>2 DEF MembersPlay
    <2>4. r.slot # s
      BY <2>1, <2>2, <2>3
    <2>5. r.slot \in Taken' /\ peers'[r.slot] = peers[r.slot]
      BY <2>1, <2>2, <2>4, DepartsType
    <2>6. TeamOf(r.slot)' = TeamOf(r.slot)
      BY <2>1, <2>2, <2>4, GoneTeams
    <2> QED BY <2>2, <2>5, <2>6
  <1> QED BY <1>1, <1>2, <1>3, <1>4, <1>5 DEF Kinds

-----------------------------------------------------------------------------
(* Results.                                                                 *)

(* What OneResult says of an account.                                       *)
ResultOf(a) ==
    LET mine == {r \in roster : r.acct = a}
    IN  Cardinality(mine) <= 1 =>
          /\ results[a].won = Cardinality({r \in mine : r.team = winner})
          /\ results[a].lost = Cardinality({r \in mine : r.team # winner})

(* Who played has the team it started in, and no peer of its account has     *)
(* another one.                                                             *)
LEMMA WonWithTeam ==
    ASSUME TypeOK, StartedWith, PlacesKept, InGame,
           NEW a \in Accounts \ kicked, NEW r,
           {x \in roster : x.acct = a} = {r}
    PROVE  (\E s \in PlayersOf(a) : winner \in TeamOf(s)) <=> r.team = winner
  <1>1. r \in roster /\ r.acct = a
    OBVIOUS
  <1>2. r.slot \in Taken /\ peers[r.slot].acct = a /\ TeamOf(r.slot) = {r.team}
    BY <1>1 DEF PlacesKept
  <1>3. ASSUME r.team = winner
        PROVE  \E s \in PlayersOf(a) : winner \in TeamOf(s)
    BY <1>2, <1>3 DEF PlayersOf
  <1>4. ASSUME NEW s \in PlayersOf(a), winner \in TeamOf(s)
        PROVE  r.team = winner
    <2> DEFINE q == [slot |-> s, acct |-> peers[s].acct, team |-> winner]
    <2>1. s \in Slots /\ peers[s].acct = a
      BY DEF PlayersOf, Taken
    <2>2. q \in roster
      BY <1>4, <2>1 DEF StartedWith
    <2>3. q.acct = a
      BY <2>1
    <2>4. q = r
      BY <2>2, <2>3
    <2> QED BY <2>4
  <1> QED BY <1>3, <1>4

(* The count gives each account that played once its result.                 *)
LEMMA Counts ==
    ASSUME TypeOK, IsFiniteSet(roster), StartedWith, PlacesKept, NoResultYet,
           CheckForEndOfGame, phase' = "counted", NEW a \in Accounts \ kicked
    PROVE  ResultOf(a)'
  <1> DEFINE mine == {r \in roster : r.acct = a}
             won == \E s \in PlayersOf(a) : winner \in TeamOf(s)
  <1>1. /\ phase = "won" /\ results' = Recounted
        /\ UNCHANGED <<roster, winner>>
    BY DEF CheckForEndOfGame
  <1>2. results[a].won = 0 /\ results[a].lost = 0
    BY <1>1 DEF NoResultYet, Early
  <1>3. /\ results'[a].won = 0 + (IF won THEN Cardinality(mine) ELSE 0)
        /\ results'[a].lost = 0 + (IF won THEN 0 ELSE Cardinality(mine))
    BY <1>1, <1>2 DEF Recounted
  <1>4. IsFiniteSet(mine) /\ Cardinality(mine) \in Nat
    BY FS_Subset, FS_CardinalityType
  <1> DEFINE wins == {r \in mine : r.team = winner}
             losses == {r \in mine : r.team # winner}
  <1>5. Cardinality({}) = 0 /\ \A r : Cardinality({r}) = 1
    BY FS_EmptySet, FS_Singleton
  <1> SUFFICES ASSUME Cardinality(mine) <= 1
               PROVE  /\ results'[a].won = Cardinality(wins)
                      /\ results'[a].lost = Cardinality(losses)
    BY <1>1 DEF ResultOf
  <1>6. CASE mine = {}
    <2>1. wins = {} /\ losses = {}
      BY <1>6
    <2> HIDE DEF won, mine, wins, losses
    <2> QED BY <1>3, <1>5, <1>6, <2>1
  <1>7. CASE mine # {}
    <2>1. Cardinality(mine) = 1
      BY <1>4, <1>7, FS_EmptySet
    <2>2. PICK r : mine = {r}
      BY <1>4, <2>1, FS_Singleton
    <2>3. won <=> r.team = winner
      BY <1>1, <2>2, WonWithTeam DEF InGame
    <2>4. CASE r.team = winner
      <3>1. wins = {r} /\ losses = {}
        BY <2>2, <2>4
      <3> HIDE DEF won, mine, wins, losses
      <3> QED BY <1>3, <1>5, <2>1, <2>3, <2>4, <3>1
    <2>5. CASE r.team # winner
      <3>1. wins = {} /\ losses = {r}
        BY <2>2, <2>5
      <3>2. Cardinality(wins) = 0 /\ Cardinality(losses) = 1
        BY <1>5, <3>1
      <3> HIDE DEF won, mine, wins, losses
      <3>3. ~won
        BY <2>3, <2>5
      <3>4. results'[a].won = 0 /\ results'[a].lost = 1
        BY <1>3, <2>1, <3>3
      <3> QED BY <3>2, <3>4
    <2> QED BY <2>4, <2>5
  <1> QED BY <1>6, <1>7

(* Until then only an account that is kicked loses.                         *)
LEMMA ResultsStep ==
    ASSUME TypeOK, IsFiniteSet(roster), MembersPlay, StartedWith, PlacesKept,
           NoResultYet, OneResult, Kinds
    PROVE  NoResultYet' /\ OneResult'
  <1> USE DEF NoResultYet
  <1>0. OneResult <=> (phase = "counted" => \A a \in Accounts \ kicked : ResultOf(a))
    BY DEF OneResult, ResultOf
  <1>00. OneResult' <=> (phase' = "counted" => \A a \in Accounts \ kicked' : ResultOf(a)')
    BY DEF OneResult, ResultOf
  <1>1. CASE Quiet
    <2>1. NoResultYet'
      BY <1>1 DEF Quiet
    <2>2. ASSUME phase' = "counted", NEW a \in Accounts \ kicked'
          PROVE  ResultOf(a)'
      <3>1. roster' = roster /\ kicked' = kicked
        BY <1>1 DEF Quiet
      <3>2. CASE CheckForEndOfGame
        BY <2>2, <3>1, <3>2, Counts
      <3>3. CASE phase = "counted" /\ UNCHANGED <<winner, results>>
        BY <1>0, <2>2, <3>1, <3>3 DEF ResultOf
      <3> QED BY <1>1, <2>2, <3>2, <3>3 DEF Quiet
    <2> QED BY <1>00, <2>1, <2>2
  <1>2. CASE StartMatch
    BY <1>00, <1>2 DEF StartMatch, Early
  <1>3. ASSUME UNCHANGED <<phase, winner, roster, results, kicked>>
        PROVE  NoResultYet' /\ OneResult'
    BY <1>3, <1>0, <1>00 DEF Early, ResultOf
  <1>4. ASSUME NEW s \in Taken, Goes(s)
        PROVE  NoResultYet' /\ OneResult'
    <2>1. /\ UNCHANGED <<phase, winner, roster>>
          /\ kicked \subseteq kicked'
          /\ results' = Forfeited(s)
          /\ InLobby \/ peers[s].observer \/ peers[s].acct \in kicked'
      BY <1>4 DEF Goes, Departs
    <2>2. ASSUME NEW a \in Accounts \ kicked'
          PROVE  results'[a] = results[a]
      <3>1. CASE InGame /\ TeamOf(s) # {}
        <4>1. ~peers[s].observer /\ ~InLobby
          BY <3>1 DEF MembersPlay, Taken, InGame, InLobby
        <4>2. peers[s].acct # a
          BY <2>1, <4>1
        <4> QED BY <2>1, <3>1, <4>2 DEF Forfeited, TypeOK
      <3>2. CASE ~(InGame /\ TeamOf(s) # {})
        BY <2>1, <3>2 DEF Forfeited
      <3> QED BY <3>1, <3>2
    <2>3. NoResultYet'
      BY <2>1, <2>2 DEF Early
    <2>4. OneResult'
      BY <1>0, <1>00, <2>1, <2>2 DEF ResultOf
    <2> QED BY <2>3, <2>4
  <1> QED BY <1>1, <1>2, <1>3, <1>4 DEF Kinds, Comes, Transfers

-----------------------------------------------------------------------------
(* The theorems.                                                            *)

(* Every step keeps the invariant.                                          *)
LEMMA InvStep == IInv /\ [Next]_vars => IInv'
  BY StepKinds, TeamsStep, LateStep, PlacesStep, ResultsStep DEF IInv

(* Hence it always holds.                                                   *)
LEMMA InvHolds == Spec => []IInv
  BY InitInv, InvStep, PTL DEF Spec

(* Whatever accounts, clients and limits there are, peers, teams and results *)
(* are of their types.                                                      *)
THEOREM TypeCorrect == Spec => []TypeOK
  <1>1. IInv => TypeOK
    BY DEF IInv
  <1> QED BY <1>1, InvHolds, PTL

(* Every team is one of players, and every player is in one team at most.    *)
THEOREM TeamsCorrect == Spec => []TeamsOfPlayers
  <1>1. IInv => TeamsOfPlayers
    <2> SUFFICES ASSUME IInv PROVE TeamsOfPlayers
      OBVIOUS
    <2>1. \A t \in TeamsIn : \A s \in teams[t].members :
             s \in Slots /\ t \in TeamOf(s)
      BY DEF IInv, TypeOK, TeamOf, TeamsIn, Teams
    <2>2. ASSUME NEW s \in Slots
          PROVE  Cardinality(TeamOf(s)) <= 1
      <3>1. CASE TeamOf(s) = {}
        BY <3>1, FS_EmptySet
      <3>2. CASE TeamOf(s) # {}
        <4>1. PICK t \in TeamOf(s) : TRUE
          BY <3>2
        <4>2. TeamOf(s) = {t}
          BY <4>1 DEF IInv, OneTeam
        <4>3. Cardinality({t}) = 1
          BY FS_Singleton
        <4> QED BY <4>2, <4>3
      <3> QED BY <3>1, <3>2
    <2>3. \A t \in TeamsIn : \A s \in teams[t].members : s \in Taken /\ ~peers[s].observer
      BY <2>1 DEF IInv, MembersPlay
    <2> QED BY <2>2, <2>3 DEF TeamsOfPlayers
  <1> QED BY <1>1, InvHolds, PTL

(* Who started a match and was not kicked keeps slot, player and team.       *)
THEOREM PlacesCorrect == Spec => []PlacesKept
  <1>1. IInv => PlacesKept
    BY DEF IInv
  <1> QED BY <1>1, InvHolds, PTL

(* A team has no member it did not start the match with.                     *)
THEOREM LateCorrect == Spec => []NobodyJoinsLate
  <1>1. IInv => NobodyJoinsLate
    BY DEF IInv, StartedWith, NobodyJoinsLate, TeamOf
  <1> QED BY <1>1, InvHolds, PTL

(* Who played once and was not kicked gets the one result of its team.       *)
THEOREM ResultsCorrect == Spec => []OneResult
  <1>1. IInv => OneResult
    BY DEF IInv
  <1> QED BY <1>1, InvHolds, PTL

=============================================================================
