------------------------------ MODULE GamePeers ------------------------------
(***************************************************************************)
(* The players of one game on its dedicated server: who connects, the slot *)
(* and the team a player has, the start of the match, players that drop    *)
(* out and come back, kicks, and the results sent to the lobby.             *)
(*                                                                         *)
(* The server is one thread: a datagram, the timeout sweep or a phase of    *)
(* its tick is one step here.  Datagrams may be lost, late or repeated, so  *)
(* a client may say anything at any time its peer exists.                   *)
(*                                                                         *)
(* Source: clients/silencer/src/world/network/world_network.cpp,            *)
(* world_peer_registry.cpp, world_gameplay.cpp, net/dedicatedserver.cpp,    *)
(* game/loop/game_loop.cpp, game/tick/tick_ingame.cpp,                      *)
(* game/session/game_session.cpp, game/actor/team.cpp.                      *)
(***************************************************************************)
EXTENDS Naturals, FiniteSets

CONSTANTS
    Accounts,
    Clients,     \* a client's address and port
    AccountOf,   \* the account a client is logged in with
    Host,        \* the account that created the game
    Unfit,       \* accounts whose level is outside the game's limits
    Agencies,
    LastSlot,    \* maxpeers less one; slot 0 is the server's own
    MaxPlayers, MaxTeams, TeamSize, \* gameinfo, and an agency's team size
    NoPeer, NoTeam

ASSUME AccountAssumption == AccountOf \in [Clients -> Accounts]
ASSUME SlotAssumption == LastSlot \in Nat
ASSUME LimitAssumption == MaxTeams \in Nat \ {0} /\ MaxPlayers \in Nat

Slots == 1 .. LastSlot

(* FindTeamForPeer may number a team beyond MaxTeams; the model stops there. *)
TeamNumbers == 0 .. MaxTeams + 1

VARIABLES
    phase,    \* "lobby", the fade that follows the decision to start,
              \* "match", "won", "counted" once results are sent, "ended",
              \* "crashed"
    informed, \* the host's game info has reached the server
    peers, teams,
    winner,   \* winningteamid
    roster,   \* ingameusers, with the slot and the team each had
    results,  \* history: wins and losses sent to the lobby
    kicked    \* history: accounts kicked during the match

vars == <<phase, informed, peers, teams, winner, roster, results, kicked>>

(* loaded: the peer has the game info and the map.  playing: it controls a  *)
(* player.                                                                  *)
Peers == [client : Clients, acct : Accounts, parked : BOOLEAN, ready : BOOLEAN,
          loaded : BOOLEAN, observer : BOOLEAN, playing : BOOLEAN]
Teams == [agency : Agencies, members : SUBSET Slots]
Phases == {"lobby", "fade", "match", "won", "counted", "ended", "crashed"}

ASSUME MarkAssumption == NoPeer \notin Peers /\ NoTeam \notin Teams

TypeOK ==
    /\ phase \in Phases
    /\ informed \in BOOLEAN
    /\ peers \in [Slots -> Peers \cup {NoPeer}]
    /\ teams \in [TeamNumbers -> Teams \cup {NoTeam}]
    /\ winner \in TeamNumbers \cup {NoTeam}
    /\ roster \subseteq [slot : Slots, acct : Accounts, team : TeamNumbers]
    /\ results \in [Accounts -> [won : Nat, lost : Nat]]
    /\ kicked \subseteq Accounts

Init ==
    /\ phase = "lobby"
    /\ informed = FALSE
    /\ peers = [s \in Slots |-> NoPeer]
    /\ teams = [t \in TeamNumbers |-> NoTeam]
    /\ winner = NoTeam
    /\ roster = {}
    /\ results = [a \in Accounts |-> [won |-> 0, lost |-> 0]]
    /\ kicked = {}

InLobby == phase \in {"lobby", "fade"}           \* gameplaystate INLOBBY
InGame == phase \in {"match", "won", "counted"}  \* gameplaystate INGAME

Taken == {s \in Slots : peers[s] # NoPeer}
FreeSlots == Slots \ Taken
Lowest(S) == CHOOSE i \in S : \A j \in S : i <= j
From(c) == {s \in Taken : peers[s].client = c}   \* FindPeer
TeamsIn == {t \in TeamNumbers : teams[t] # NoTeam}
TeamOf(s) == {t \in TeamsIn : s \in teams[t].members}  \* GetPeerTeam

-----------------------------------------------------------------------------
(* Teams.                                                                   *)

Without(ts, s) ==
    [t \in TeamNumbers |-> IF ts[t] = NoTeam THEN NoTeam
                           ELSE [ts[t] EXCEPT !.members = @ \ {s}]]

(* FindTeamForPeer: the lowest-numbered team of the agency with room, from  *)
(* start on, if there is a team of that very number; else a new one.        *)
Begin(start) == IF start >= MaxTeams THEN 0 ELSE start
Open(s, agency, start) ==
    IF teams[Begin(start)] = NoTeam THEN {}
    ELSE {t \in TeamsIn : /\ t >= Begin(start)
                          /\ teams[t].agency = agency
                          /\ s \notin teams[t].members
                          /\ Cardinality(teams[t].members) < TeamSize}
FindsTeam(s, agency, start) ==
    Open(s, agency, start) # {} \/ Cardinality(TeamsIn) < MaxTeams
Joined(s, agency, start) ==
    IF Open(s, agency, start) # {}
    THEN [teams EXCEPT ![Lowest(Open(s, agency, start))].members = @ \cup {s}]
    ELSE [teams EXCEPT ![Lowest({t \in TeamNumbers \ TeamsIn : t >= Begin(start)})] =
             [agency |-> agency, members |-> {s}]]

-----------------------------------------------------------------------------
(* MSG_CONNECT.                                                             *)

Rejoinable(a) == {s \in Taken : peers[s].parked /\ peers[s].acct = a}

NewPeer(c, observer) ==
    [client |-> c, acct |-> AccountOf[c], parked |-> FALSE, ready |-> FALSE,
     loaded |-> ~observer /\ AccountOf[c] = Host, observer |-> observer,
     playing |-> FALSE]

Rejoin(c) ==
    /\ InLobby \/ InGame
    /\ Rejoinable(AccountOf[c]) # {}
    /\ peers' = [peers EXCEPT ![Lowest(Rejoinable(AccountOf[c]))].client = c,
                              ![Lowest(Rejoinable(AccountOf[c]))].parked = FALSE]
    /\ UNCHANGED <<phase, informed, teams, winner, roster, results, kicked>>

(* Mutant: anyone may join a match.                                         *)
ConnectAnytime(c, agency) ==
    /\ InLobby \/ InGame
    /\ Rejoinable(AccountOf[c]) = {}
    /\ Cardinality(Taken) < MaxPlayers
    /\ From(c) = {}
    /\ FreeSlots # {}
    /\ FindsTeam(Lowest(FreeSlots), agency, 0)
    /\ peers' = [peers EXCEPT ![Lowest(FreeSlots)] = NewPeer(c, FALSE)]
    /\ teams' = Joined(Lowest(FreeSlots), agency, 0)
    /\ UNCHANGED <<phase, informed, winner, roster, results, kicked>>

Connect(c, agency) ==
    /\ InLobby
    /\ Rejoinable(AccountOf[c]) = {}
    /\ Cardinality(Taken) < MaxPlayers
    /\ From(c) = {}
    /\ FreeSlots # {}
    /\ FindsTeam(Lowest(FreeSlots), agency, 0)
    /\ peers' = [peers EXCEPT ![Lowest(FreeSlots)] = NewPeer(c, FALSE)]
    /\ teams' = Joined(Lowest(FreeSlots), agency, 0)
    /\ UNCHANGED <<phase, informed, winner, roster, results, kicked>>

(* The client offers to watch only games in play.                           *)
ConnectObserver(c) ==
    /\ InGame
    /\ Rejoinable(AccountOf[c]) = {}
    /\ From(c) = {}
    /\ FreeSlots # {}
    /\ peers' = [peers EXCEPT ![Lowest(FreeSlots)] = NewPeer(c, TRUE)]
    /\ UNCHANGED <<phase, informed, teams, winner, roster, results, kicked>>

-----------------------------------------------------------------------------
(* HandleDisconnect.                                                        *)

Parks(s, permanent) == ~permanent /\ InGame /\ ~peers[s].observer

(* A player that leaves a match for good loses it.                          *)
Forfeited(s) ==
    IF InGame /\ TeamOf(s) # {}
    THEN [results EXCEPT ![peers[s].acct].lost = @ + 1]
    ELSE results

(* Mutant: the team keeps the slot.                                         *)
HandleDisconnectInTeam(s, permanent) ==
    /\ IF Parks(s, permanent)
       THEN /\ peers' = [peers EXCEPT ![s].parked = TRUE, ![s].ready = FALSE]
            /\ UNCHANGED <<teams, results>>
       ELSE /\ peers' = [peers EXCEPT ![s] = NoPeer]
            /\ teams' = teams
            /\ results' = Forfeited(s)
    /\ UNCHANGED <<phase, informed, winner, roster>>

(* Mutant: nobody is parked.                                                *)
HandleDisconnectForGood(s, permanent) ==
    /\ peers' = [peers EXCEPT ![s] = NoPeer]
    /\ teams' = Without(teams, s)
    /\ results' = Forfeited(s)
    /\ UNCHANGED <<phase, informed, winner, roster>>

HandleDisconnect(s, permanent) ==
    /\ IF Parks(s, permanent)
       THEN /\ peers' = [peers EXCEPT ![s].parked = TRUE, ![s].ready = FALSE]
            /\ UNCHANGED <<teams, results>>
       ELSE /\ peers' = [peers EXCEPT ![s] = NoPeer]
            /\ teams' = Without(teams, s)
            /\ results' = Forfeited(s)
    /\ UNCHANGED <<phase, informed, winner, roster>>

(* MSG_DISCONNECT, the sweep over silent peers, and the level check of the   *)
(* server's tick.                                                           *)
Leave(s) ==
    /\ InLobby \/ InGame
    /\ s \in Taken
    /\ ~peers[s].parked
    /\ HandleDisconnect(s, FALSE)
    /\ kicked' = kicked

LevelCheck(s) ==
    /\ InLobby
    /\ s \in Taken
    /\ peers[s].acct \in Unfit
    /\ TeamOf(s) # {}
    /\ HandleDisconnect(s, FALSE)
    /\ kicked' = kicked

(* MSG_KICK: the first peer of the account.                                 *)
Kick(a) ==
    /\ InLobby \/ InGame
    /\ \E s \in Taken : peers[s].acct = a
    /\ HandleDisconnect(Lowest({s \in Taken : peers[s].acct = a}), TRUE)
    /\ kicked' = IF InGame THEN kicked \cup {a} ELSE kicked

-----------------------------------------------------------------------------
(* What a peer may change.                                                  *)

(* The server may hear of the game from its host only.                      *)
GameInfo(s) ==
    /\ InLobby
    /\ s \in Taken
    /\ peers[s].acct = Host
    /\ informed' = TRUE
    /\ UNCHANGED <<phase, peers, teams, winner, roster, results, kicked>>

(* MSG_GAMEINFO and MAP_DOWNLOADED of the others, as one step.              *)
Loaded(s) ==
    /\ InLobby
    /\ s \in Taken
    /\ informed
    /\ peers' = [peers EXCEPT ![s].loaded = TRUE]
    /\ UNCHANGED <<phase, informed, teams, winner, roster, results, kicked>>

(* MSG_READY.  Its flag is not read after the match has started.            *)
Ready(s) ==
    /\ InLobby
    /\ s \in Taken
    /\ peers' = [peers EXCEPT ![s].ready = ~@]
    /\ UNCHANGED <<phase, informed, teams, winner, roster, results, kicked>>

ChangeTeam(s) ==
    /\ InLobby
    /\ s \in Taken
    /\ \E t \in TeamOf(s) :
          /\ FindsTeam(s, teams[t].agency, t + 1)
          /\ teams' = [Joined(s, teams[t].agency, t + 1) EXCEPT ![t].members = @ \ {s}]
    /\ peers' = [peers EXCEPT ![s].ready = FALSE]
    /\ UNCHANGED <<phase, informed, winner, roster, results, kicked>>

(* MSG_SETAGENCY: out of the old team, then a search for a new one, whose   *)
(* failure nobody looks at.                                                 *)
SetAgency(s, agency) ==
    /\ InLobby
    /\ s \in Taken
    /\ \E t \in TeamOf(s) :
          /\ teams[t].agency # agency
          /\ teams' = [(IF FindsTeam(s, agency, 0) THEN Joined(s, agency, 0) ELSE teams)
                          EXCEPT ![t].members = @ \ {s}]
    /\ peers' = [peers EXCEPT ![s].ready = FALSE]
    /\ UNCHANGED <<phase, informed, winner, roster, results, kicked>>

-----------------------------------------------------------------------------
(* The server's tick.                                                       *)

(* Team::Tick: a team without members goes.                                 *)
TeamTick ==
    /\ InLobby \/ InGame
    /\ \E t \in TeamsIn : teams[t].members = {}
    /\ teams' = [t \in TeamNumbers |->
                    IF t \in TeamsIn /\ teams[t].members # {} THEN teams[t] ELSE NoTeam]
    /\ UNCHANGED <<phase, informed, peers, winner, roster, results, kicked>>

(* Game::Tick: sharedstate 0 to 1, and GoToState.                           *)
DecideStart ==
    /\ phase = "lobby"
    /\ informed
    /\ Taken # {}
    /\ \A s \in Taken : peers[s].ready /\ peers[s].loaded
    /\ phase' = "fade"
    /\ UNCHANGED <<informed, peers, teams, winner, roster, results, kicked>>

(* TickInGame, when the fade is over: whoever is in a team then plays.      *)
Lineup == {p \in Taken \X TeamsIn : p[1] \in teams[p[2]].members}
StartMatch ==
    /\ phase = "fade"
    /\ phase' = "match"
    /\ roster' = {[slot |-> p[1], acct |-> peers[p[1]].acct, team |-> p[2]] : p \in Lineup}
    /\ peers' = [s \in Slots |-> IF s \in Taken /\ TeamOf(s) # {}
                                 THEN [peers[s] EXCEPT !.playing = TRUE] ELSE peers[s]]
    /\ UNCHANGED <<informed, teams, winner, results, kicked>>

(* A team delivers its last secret.                                         *)
Win(t) ==
    /\ phase = "match"
    /\ t \in TeamsIn
    /\ teams[t].members # {}
    /\ phase' = "won"
    /\ winner' = t
    /\ UNCHANGED <<informed, peers, teams, roster, results, kicked>>

(* CheckForEndOfGame, 3 seconds later: for each entry of ingameusers, the   *)
(* peers of its account, with their team.  A peer without a team is where   *)
(* the code follows a null pointer.                                         *)
PlayersOf(a) == {s \in Taken : peers[s].acct = a}

(* Mutant: a parked player loses.                                           *)
RecountedPresent ==
    [a \in Accounts |->
        LET entries == Cardinality({r \in roster : r.acct = a})
            won == \E s \in PlayersOf(a) : ~peers[s].parked /\ winner \in TeamOf(s)
        IN  [won |-> results[a].won + (IF won THEN entries ELSE 0),
             lost |-> results[a].lost + (IF won THEN 0 ELSE entries)]]

Recounted ==
    [a \in Accounts |->
        LET entries == Cardinality({r \in roster : r.acct = a})
            won == \E s \in PlayersOf(a) : winner \in TeamOf(s)
        IN  [won |-> results[a].won + (IF won THEN entries ELSE 0),
             lost |-> results[a].lost + (IF won THEN 0 ELSE entries)]]

CheckForEndOfGame ==
    /\ phase = "won"
    /\ IF \E r \in roster : \E s \in PlayersOf(r.acct) : TeamOf(s) = {}
       THEN phase' = "crashed" /\ results' = results
       ELSE phase' = "counted" /\ results' = Recounted
    /\ UNCHANGED <<informed, peers, teams, winner, roster, kicked>>

(* nopeerstime has reached its limit: the lobby is told and the process ends. *)
NoPeers ==
    /\ InLobby \/ InGame
    /\ Taken = {}
    /\ phase' = "ended"
    /\ UNCHANGED <<informed, peers, teams, winner, roster, results, kicked>>

Next ==
    \/ \E c \in Clients :
          \/ Rejoin(c) \/ ConnectObserver(c)
          \/ \E g \in Agencies : Connect(c, g)
    \/ \E s \in Slots :
          \/ Leave(s) \/ LevelCheck(s) \/ GameInfo(s) \/ Loaded(s) \/ Ready(s)
          \/ ChangeTeam(s)
          \/ \E g \in Agencies : SetAgency(s, g)
    \/ \E a \in Accounts : Kick(a)
    \/ \E t \in TeamNumbers : Win(t)
    \/ TeamTick \/ DecideStart \/ StartMatch \/ CheckForEndOfGame \/ NoPeers

Spec == Init /\ [][Next]_vars

-----------------------------------------------------------------------------
(* A team holds peers that exist and play, each of them in one team only:   *)
(* a slot given to somebody else is in no team of its former peer.          *)
TeamsOfPlayers ==
    /\ \A t \in TeamsIn : \A s \in teams[t].members :
          s \in Taken /\ ~peers[s].observer
    /\ \A s \in Slots : Cardinality(TeamOf(s)) <= 1

(* Who started a match and was not kicked keeps slot, player and team to    *)
(* the end, however often it drops out and comes back, though others may    *)
(* connect to watch in the meantime.                                        *)
PlacesKept ==
    InGame => \A r \in roster :
        r.acct \notin kicked =>
            /\ r.slot \in Taken
            /\ peers[r.slot].acct = r.acct
            /\ peers[r.slot].playing
            /\ TeamOf(r.slot) = {r.team}

(* Nobody joins a match once it has started but to watch: a team has no     *)
(* member it did not start with.                                            *)
NobodyJoinsLate ==
    InGame => \A s \in Slots, t \in TeamsIn :
        s \in teams[t].members =>
            [slot |-> s, acct |-> peers[s].acct, team |-> t] \in roster

(* Every account that played once and was not kicked gets one result, won   *)
(* or lost as its team did, gone or not at that time; an account that did   *)
(* not play gets none.                                                      *)
OneResult ==
    phase = "counted" => \A a \in Accounts \ kicked :
        LET mine == {r \in roster : r.acct = a}
        IN  Cardinality(mine) <= 1 =>
            /\ results[a].won = Cardinality({r \in mine : r.team = winner})
            /\ results[a].lost = Cardinality({r \in mine : r.team # winner})

(* When results are counted no special skip of observers is needed: each    *)
(* peer of an account that played has the team its result is read from.     *)
NoSpecialSkip ==
    phase = "won" =>
        \A r \in roster : \A s \in PlayersOf(r.acct) : TeamOf(s) # {}

(* A player that switches its agency before the match is reassigned to a    *)
(* team: nobody in the lobby is without one.                                *)
EverybodyHasATeam ==
    InLobby => \A s \in Taken : TeamOf(s) # {}
=============================================================================
