------------------------------ MODULE LobbyView ------------------------------
(***************************************************************************)
(* What a game client shows of the lobby: the rows of its game list, the   *)
(* players it believes online, and the answer to its own create-game       *)
(* request.  The frames the lobby pushes on one TCP connection arrive in   *)
(* the order they were written, so a client is the fold of Show over them. *)
(*                                                                         *)
(* Source: clients/silencer/src/net/lobby.cpp (the receiving switch of     *)
(* Lobby::DoNetwork), clients/silencer/src/game/loop/game_loop.cpp (the    *)
(* lobby tick) and services/lobby/client.go (the senders).                 *)
(***************************************************************************)
EXTENDS Integers

CONSTANTS
    Clients,    \* connections, one element per TCP connection ever accepted
    Accounts,   \* player accounts
    Offline,    \* what presence holds for an account that is not listed
    MaxGID      \* bound on the game ids handed out

ASSUME MaxGIDAssumption == MaxGID \in Nat
ASSUME OfflineAssumption == Offline \notin (0 .. MaxGID) \X (0 .. 2)

Gids == 1 .. MaxGID

(* A player's place: the game id (0 is the main lobby) and 0 = in the      *)
(* lobby, 1 = in a game's staging room, 2 = playing.                       *)
Places == (0 .. MaxGID) \X (0 .. 2)
MainLobby == <<0, 0>>

(* Create-game status of a client: 0 = none, 100 = asked, 1 = created,     *)
(* 2 = failed.                                                             *)
Idle == 0
Asked == 100
Created == 1
Failed == 2

Views ==
    [games : SUBSET Gids,
     presence : [Accounts -> Places \cup {Offline}],
     creategamestatus : {Idle, Asked, Created, Failed},
     createdgameid : 0 .. MaxGID,
     creategameclicked : BOOLEAN,
     currentlobbygameid : 0 .. MaxGID]

EmptyView ==
    [games |-> {},
     presence |-> [a \in Accounts |-> Offline],
     creategamestatus |-> Idle,
     createdgameid |-> 0,
     creategameclicked |-> FALSE,
     currentlobbygameid |-> 0]

(* The frames that change a view, addressed to a connection.               *)
NewGameFrames ==
    [to : Clients, op : {"NEWGAME"}, status : {Created, Failed}, gid : Gids]
DelGameFrames == [to : Clients, op : {"DELGAME"}, gid : Gids]
PresenceFrames ==
    [to : Clients, op : {"PRESENCE"}, account : Accounts,
     place : Places \cup {Offline}]
Frames == NewGameFrames \cup DelGameFrames \cup PresenceFrames

NewGame(c, s, g) == [to |-> c, op |-> "NEWGAME", status |-> s, gid |-> g]
DelGame(c, g) == [to |-> c, op |-> "DELGAME", gid |-> g]
Presence(c, a, p) == [to |-> c, op |-> "PRESENCE", account |-> a, place |-> p]

-----------------------------------------------------------------------------

(* A row replaces the row of the same id.  A row of the client's own       *)
(* account is also taken for the answer to its create request; a failed    *)
(* one is dropped again.                                                   *)
ShowNewGame(v, g, status, own) ==
    IF ~own THEN [v EXCEPT !.games = @ \cup {g}]
    ELSE IF status = Created
         THEN [v EXCEPT !.games = @ \cup {g},
                        !.creategamestatus = Created,
                        !.createdgameid = g]
         ELSE [v EXCEPT !.games = @ \ {g}, !.creategamestatus = Failed]

ShowDelGame(v, g) == [v EXCEPT !.games = @ \ {g}]

ShowPresence(v, a, p) == [v EXCEPT !.presence[a] = p]

(* The view after frame m; own says that a NEWGAME row carries the         *)
(* client's own account id.                                                *)
Show(v, m, own) ==
    CASE m.op = "NEWGAME"  -> ShowNewGame(v, m.gid, m.status, own)
      [] m.op = "DELGAME"  -> ShowDelGame(v, m.gid)
      [] m.op = "PRESENCE" -> ShowPresence(v, m.account, m.place)

(* The player asks for a game; the create form makes way for a panel that  *)
(* waits for the answer as long as creategameclicked holds.                *)
AskedView(v) == [v EXCEPT !.creategamestatus = Asked, !.creategameclicked = TRUE]

(* The lobby tick found the request answered: the client joins the game,   *)
(* if it still lists it.                                                   *)
PumpedView(v) ==
    [v EXCEPT !.creategamestatus = Idle,
              !.creategameclicked = FALSE,
              !.currentlobbygameid =
                  IF v.createdgameid \in v.games THEN v.createdgameid ELSE @]
=============================================================================
