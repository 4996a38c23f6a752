-------------------------- MODULE LobbyHubProperties --------------------------
(***************************************************************************)
(* What the hub promises.                                                  *)
(***************************************************************************)
EXTENDS LobbyHub

(* Frames still to be written to c.                                        *)
FramesTo(c) == {m \in UNION {out[t] : t \in Goroutines} : m.to = c}
RowFramesTo(c, g) ==
    {m \in FramesTo(c) : m.op \in {"NEWGAME", "DELGAME"} /\ m.gid = g}
PresenceFramesTo(c, a) ==
    {m \in FramesTo(c) : m.op = "PRESENCE" /\ m.account = a}

(* A game is on its way to being stopped by goroutine of c, or by the      *)
(* failPending of its timer or of its failed start.                        *)
BeingStopped(g) ==
    \/ \E c \in Clients : g \in stops[c]
    \/ \E c \in Clients : cpc[c] = "failing" /\ cur[c] = g
    \/ timer[g] = "failing"

(* No client misses a game: once every frame about game g is written to a  *)
(* joined client, it shows the row if the hub lists the game.  Join takes  *)
(* its snapshot and OnHeartbeat its recipients under the same lock, so one *)
(* of the two must cover every client.                                     *)
NoMissingRow ==
    \A c \in clients, g \in games :
        ~closed[c] /\ RowFramesTo(c, g) = {} => g \in view[c].games

(* Once a game is pending or listed nobody is about to kill its server:    *)
(* every goroutine that calls proc.Stop dropped the game under the lock    *)
(* first, and ids are never handed out twice.                              *)
NoKillOfLiveGame == \A g \in games \cup pending : ~BeingStopped(g)

(* A create request is answered once: a game the hub lists, or announces   *)
(* to anybody, is never also reported as failed.                           *)
NoContradiction ==
    \A t, u \in Goroutines : \A m \in out[t] : \A n \in out[u] :
        m.op = "NEWGAME" /\ m.status = Failed =>
            /\ m.gid \notin games \cup pending
            /\ ~(n.op = "NEWGAME" /\ n.status = Created /\ n.gid = m.gid)

(* While no account is served on two connections at once, every running    *)
(* dedicated server belongs to a pending or listed game, or a goroutine    *)
(* that will stop it still finds it in procs or has it in hand: no server  *)
(* is left behind.                                                         *)
NoOrphan ==
    ~OverlappingSessions =>
        \A g \in Gids : Alive(g) =>
            /\ g \in games \cup pending \/ BeingStopped(g)
            /\ BeingStopped(g) => g \in procs \cup doomed

(* While no account is served on two connections at once, no joined client *)
(* is missing from another's player list once the frames about it are      *)
(* written.                                                                *)
NoMissingPlayer ==
    ~OverlappingSessions =>
        \A c, o \in clients :
            ~closed[c] /\ PresenceFramesTo(c, acct[o]) = {}
                => view[c].presence[acct[o]] # Offline

(* While no account is served on two connections at once, no player has    *)
(* two games: creating one drops the other.                                *)
OneGamePerPlayer ==
    ~OverlappingSessions =>
        \A g, h \in games \cup pending :
            info[g].account = info[h].account => g = h

(* The hub implements the life of a game: its ids are handed out in order, *)
(* a game is ready once, and a dropped game never comes back.              *)
Phase ==
    [g \in Gids |-> IF g \in pending THEN "pending"
                    ELSE IF g \in games THEN "ready"
                    ELSE IF g < nextGID THEN "gone" ELSE "unused"]
Lifecycle == INSTANCE GameLifecycle WITH phase <- Phase
LifecycleSpec == Lifecycle!Spec

(* Every create request is answered, unless the client disconnects or its  *)
(* connection breaks: ready, or failed after at most 30 s.                 *)
CreateAnswered ==
    \A c \in Clients :
        view[c].creategamestatus = Asked
            ~> view[c].creategamestatus # Asked \/ closed[c]

(* While no account is served on two connections at once, the server of    *)
(* every game the hub dropped ends.                                        *)
DroppedServerEnds ==
    ~OverlappingSessions =>
        \A g \in Gids : (g < nextGID /\ g \notin games \cup pending) ~> ~Alive(g)

-----------------------------------------------------------------------------
(* What the documentation says and the code does not do.                   *)

(* Once a player has left and every frame about its game is written, no    *)
(* client lists the game any more.                                         *)
NoStaleRow ==
    \A c \in clients, g \in Gids :
        /\ ~closed[c]
        /\ RowFramesTo(c, g) = {}
        /\ g \in view[c].games
        /\ cpc[info[g].owner] = "gone"
        => g \in games

(* Once a joined client received every frame about an account nobody is    *)
(* logged in to, it does not list that player.                             *)
NoStalePlayer ==
    \A c \in clients, a \in Accounts :
        /\ ~closed[c]
        /\ PresenceFramesTo(c, a) = {}
        /\ \A d \in Clients : acct[d] = a => cpc[d] = "gone"
        => view[c].presence[a] = Offline

(* GameExited has removed the game of every child that exited.             *)
NoGhostGame == \A g \in games : waiter[g] # "done"

(* The game a client joins as the one it just created is the one its last  *)
(* request created.                                                        *)
JoinsItsCreation ==
    [][\A c \in Clients :
        view[c].creategameclicked /\ view[c].creategamestatus = Created
            /\ view'[c].creategamestatus = Idle /\ c \in clients'
        => ~asked[c] /\ view[c].createdgameid = cur[c]]_vars

(* A client that was told its create request failed waits no longer.       *)
FailureEndsTheWait ==
    \A c \in Clients :
        view[c].creategamestatus = Failed => ~view[c].creategameclicked

(* When a creator's connection is over, no server of a game it created is  *)
(* left running.                                                           *)
NoServerOfAGoneCreator ==
    \A g \in Gids : \A c \in Clients :
        info[g].owner = c /\ cpc[c] = "gone" /\ ~BeingStopped(g) => ~Alive(g)
=============================================================================
