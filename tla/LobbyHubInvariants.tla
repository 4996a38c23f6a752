-------------------------- MODULE LobbyHubInvariants --------------------------
(***************************************************************************)
(* The inductive invariant of the hub, in the parts the proofs use.        *)
(***************************************************************************)
EXTENDS LobbyHubProperties

(* What a goroutine may rely on about the ids: those handed out belong to  *)
(* a connection, nothing is known of the others, and a connection in the   *)
(* middle of a create request has one.                                     *)
Creating == {"create", "spawned", "arming", "startfailed", "failing"}

HandedOut ==
    /\ \A c \in Clients :
        /\ cpc[c] = "joining" => acct[c] # NoAccount
        /\ cpc[c] \in Creating => cur[c] \in Gids
        /\ cur[c] < nextGID
        /\ cur[c] > 0 => info[cur[c]].owner = c
        /\ \A g \in stops[c] : g < nextGID
    /\ \A g \in Gids :
        /\ g < nextGID => info[g].owner \in Clients
        /\ g >= nextGID => /\ g \notin games \cup pending
                           /\ timer[g] = "unset"
                           /\ os[g] = "none"
                           /\ waiter[g] = "none"
                           /\ g \notin procs \cup doomed

(* A game is pending or listed, not both, and is then nobody's to stop.    *)
LiveGames == games \cap pending = {} /\ NoKillOfLiveGame

(* The frames on their way about a game agree with the hub's tables: it is *)
(* advertised only after it left pending for good, and reported failed or  *)
(* deleted only when it is in neither table.                               *)
Agrees(m) ==
    /\ m.op \in {"NEWGAME", "DELGAME"} => m.gid < nextGID
    /\ m.op = "NEWGAME" /\ m.status = Created =>
           /\ m.gid \notin pending
           /\ timer[m.gid] # "failing"
           /\ \A c \in Clients : cpc[c] = "failing" => cur[c] # m.gid
    /\ m.op = "NEWGAME" /\ m.status = Failed => m.gid \notin games \cup pending
    /\ m.op = "DELGAME" => m.gid \notin games \cup pending

FramesAgree == \A t \in Goroutines : \A m \in out[t] : Agrees(m)

(* No game is both advertised and reported failed.                         *)
Consistent ==
    \A t, u \in Goroutines : \A m \in out[t], n \in out[u] :
        /\ m.op = "NEWGAME" /\ m.status = Failed
        /\ n.op = "NEWGAME" /\ n.status = Created
        => m.gid # n.gid

(* Who owns what: a game belongs to a logged-in player that is still       *)
(* served, and no account is served twice unless sessions may overlap.     *)
Served(c) == cpc[c] \notin {"leave", "gone"}

Ownership ==
    /\ \A c \in clients : acct[c] # NoAccount /\ Served(c)
    /\ \A c \in Clients : asked[c] => acct[c] # NoAccount
    /\ \A g \in Gids : g < nextGID =>
        /\ info[g].account # NoAccount
        /\ info[g].account = acct[info[g].owner]
    /\ \A g \in games \cup pending : Served(info[g].owner)
    /\ ~OverlappingSessions =>
        \A c, d \in Clients :
            acct[c] = acct[d] /\ acct[c] # NoAccount =>
                c = d \/ cpc[c] = "gone" \/ cpc[d] = "gone"

(* The servers: a goroutine has games to stop only where the code stops    *)
(* them; the game of a request still being started is untouched by timer   *)
(* and waiter, and has no child when Start failed; and a live child is in  *)
(* procs, about to enter it, or taken from it to be killed.                *)
Starting(c, g) == cpc[c] \in {"create", "startfailed", "spawned"} /\ cur[c] = g

StopsHeld == \A c \in Clients : cpc[c] \notin {"create", "leave"} => stops[c] = {}

StartUntouched ==
    \A c \in Clients, g \in Gids :
        /\ Starting(c, g) => waiter[g] = "none" /\ timer[g] = "unset"
        /\ Starting(c, g) => (os[g] # "none" <=> cpc[c] = "spawned")
        /\ cpc[c] = "arming" /\ cur[c] = g => timer[g] = "unset"
        /\ cpc[c] = "failing" /\ cur[c] = g => os[g] = "none"

ProcsKnown ==
    \A g \in Gids :
        /\ waiter[g] \in {"exited", "done"} => os[g] = "dead" /\ g \notin procs
        /\ g \in procs \cup doomed => os[g] # "none"

NoStray ==
    ~OverlappingSessions =>
        /\ \A c \in Clients, g \in Gids : Starting(c, g) => g \in games \cup pending
        /\ \A g \in Gids : Alive(g) =>
            g \in procs \cup doomed \/ \E c \in Clients : cpc[c] = "spawned" /\ cur[c] = g

NotLost ==
    ~OverlappingSessions =>
        \A g \in Gids : Alive(g) => g \in games \cup pending \/ BeingStopped(g)

Children == StopsHeld /\ StartUntouched /\ ProcsKnown /\ NoStray

(* A goroutine sends when it has written everything it sent before.        *)
QuietGoroutines ==
    /\ \A c \in Clients :
        cpc[c] \in {"joining", "spawned", "arming", "startfailed", "failing"}
            => out[Conn(c)] = {}
    /\ \A g \in Gids :
        /\ timer[g] # "done" => out[Timer(g)] = {}
        /\ waiter[g] # "done" => out[Waiter(g)] = {}

(* A listed game is shown by every joined client or announced to it.       *)
RowsCovered ==
    \A c \in clients, g \in games :
        ~closed[c] => \/ g \in view[c].games
                      \/ \E t \in Goroutines : NewGame(c, Created, g) \in out[t]

(* A frame that takes a player off the lists comes from the connection     *)
(* that player is leaving by.                                              *)
OfflineLeft ==
    \A t \in Goroutines : \A m \in out[t] :
        m.op = "PRESENCE" /\ m.place = Offline =>
            \E d \in Clients :
                t = Conn(d) /\ cpc[d] = "leave" /\ acct[d] = m.account

(* A joined player is listed by every joined client or announced to it.    *)
PlayersCovered ==
    ~OverlappingSessions =>
        \A c, o \in clients :
            ~closed[c] =>
                \/ view[c].presence[acct[o]] # Offline
                \/ \E t \in Goroutines : \E m \in out[t] :
                      m.to = c /\ m.op = "PRESENCE" /\ m.account = acct[o]

IInv ==
    /\ TypeOK /\ HandedOut /\ LiveGames /\ FramesAgree /\ Consistent
    /\ Ownership /\ OneGamePerPlayer /\ Children /\ NotLost
    /\ QuietGoroutines /\ RowsCovered /\ OfflineLeft /\ PlayersCovered
=============================================================================
