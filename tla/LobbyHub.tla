------------------------------ MODULE LobbyHub ------------------------------
(***************************************************************************)
(* The lobby server's hub: who is connected, which games are waiting for   *)
(* their dedicated server and which are listed, and what every connected   *)
(* client has been told about them.                                        *)
(*                                                                         *)
(* Concurrency.  Each connection has a goroutine (serveClient), so has the *)
(* UDP listener, each 30 s create timer that fired and each child the      *)
(* lobby waits for.  Hub.mu guards the hub's tables; an action is one      *)
(* critical section, or one step taken outside it.  Frames are always sent *)
(* after the lock is released, so out[t] holds the frames goroutine t has  *)
(* decided on and not yet written; Deliver writes one of them.             *)
(*                                                                         *)
(* Source: services/lobby/hub.go, client.go, proc.go, udp.go.              *)
(***************************************************************************)
EXTENDS ProcManager, Sequences

CONSTANTS
    NoAccount,           \* accountID 0: the connection has not logged in
    NoClient,            \* owner of a game id that was never handed out
    Logins,              \* the accounts each connection's player logs in to
    OverlappingSessions, \* may an account log in while an older connection
                         \* of it is still being served?
    Creators,            \* connections whose player asks for games
    SlowClients,         \* connections on which a write may time out
    PlaceStatuses,       \* status bytes players send with opSetGame
    Movers,              \* connections whose player moves between games
    Renamers,            \* connections whose player changes characters
    Reports,             \* what a heartbeat says: state and parked accounts
    FirstReport,         \* state 0 with nobody parked, as a game is created
    Closing,             \* the state-2 report a quitting server sends last
    MaxNet               \* heartbeats the UDP socket buffer holds

ASSUME AccountAssumption ==
    /\ NoAccount \notin Accounts
    /\ NoClient \notin Clients
    /\ Logins \in [Clients -> SUBSET Accounts]
ASSUME SwitchAssumption == OverlappingSessions \in BOOLEAN
ASSUME ReportAssumption == FirstReport \in Reports /\ Closing \in Reports
ASSUME StatusAssumption == PlaceStatuses \subseteq 0 .. 255
ASSUME NetAssumption == MaxNet \in Nat

VARIABLES
    nextGID, games, pending, clients, \* Hub, under Hub.mu
    info,    \* the LobbyGame and pendingGame objects, by game id
    timer,   \* pendingGame.timer and the goroutine it starts
    acct,    \* Client.accountID
    place,   \* Client.gameID and Client.gameStatus
    closed,  \* a write failed and the connection was closed (Client.closed)
    cpc,     \* where each connection's goroutine is
    cur,     \* the game id its last create request got
    stops,   \* dropped games it still has to stop
    tell,    \* the clients it snapshotted for its DELGAMEs
    asked,   \* a create request is on its way from the client
    net,     \* heartbeats in the UDP socket buffer, oldest first
    out,     \* frames decided on and not yet written, by goroutine
    view     \* what the client at the other end shows

hubVars == <<nextGID, games, pending, clients, info>>
connVars == <<acct, place, cpc, cur, stops, tell>>
vars == <<hubVars, timer, connVars, closed, asked, net, out, view, procVars>>

Conn(c) == [kind |-> "conn", id |-> c]
Timer(g) == [kind |-> "timer", id |-> g]
Waiter(g) == [kind |-> "waiter", id |-> g]
Udp == [kind |-> "udp", id |-> 0]
Goroutines ==
    [kind : {"conn"}, id : Clients] \cup [kind : {"timer", "waiter"}, id : Gids]
        \cup {Udp}

Games == [owner : Clients \cup {NoClient}, account : Accounts \cup {NoAccount},
          port : Ports, report : Reports]
Heartbeats == [gid : Gids, port : Ports, report : Reports]

ConnStates == {"reading", "joining", "create", "spawned", "arming",
               "startfailed", "failing", "leave", "gone"}
TimerStates == {"unset", "armed", "stopped", "fired", "failing", "done"}

TypeOK ==
    /\ nextGID \in 1 .. (MaxGID + 1)
    /\ games \in SUBSET Gids
    /\ pending \in SUBSET Gids
    /\ clients \in SUBSET Clients
    /\ info \in [Gids -> Games]
    /\ timer \in [Gids -> TimerStates]
    /\ acct \in [Clients -> Accounts \cup {NoAccount}]
    /\ place \in [Clients -> Places]
    /\ cpc \in [Clients -> ConnStates]
    /\ cur \in [Clients -> 0 .. MaxGID]
    /\ stops \in [Clients -> SUBSET Gids]
    /\ tell \in [Clients -> SUBSET Clients]
    /\ closed \in [Clients -> BOOLEAN]
    /\ asked \in [Clients -> BOOLEAN]
    /\ net \in Seq(Heartbeats)
    /\ out \in [Goroutines -> SUBSET Frames]
    /\ view \in [Clients -> Views]
    /\ ProcTypeOK

Init ==
    /\ nextGID = 1
    /\ games = {}
    /\ pending = {}
    /\ clients = {}
    /\ info = [g \in Gids |-> [owner |-> NoClient, account |-> NoAccount,
                               port |-> 0, report |-> FirstReport]]
    /\ timer = [g \in Gids |-> "unset"]
    /\ acct = [c \in Clients |-> NoAccount]
    /\ place = [c \in Clients |-> MainLobby]
    /\ cpc = [c \in Clients |-> "reading"]
    /\ cur = [c \in Clients |-> 0]
    /\ stops = [c \in Clients |-> {}]
    /\ tell = [c \in Clients |-> {}]
    /\ closed = [c \in Clients |-> FALSE]
    /\ asked = [c \in Clients |-> FALSE]
    /\ net = <<>>
    /\ out = [t \in Goroutines |-> {}]
    /\ view = [c \in Clients |-> EmptyView]
    /\ ProcInit

-----------------------------------------------------------------------------
(* Writing frames.                                                         *)

(* Goroutine t may write: a Leave stops the dropped games before it tells  *)
(* anybody.                                                                *)
MayWrite(t) == t.kind = "conn" /\ cpc[t.id] = "leave" => stops[t.id] = {}

(* Does the client at the other end of c still read?                       *)
Listening(c) == ~closed[c] /\ cpc[c] \notin {"leave", "gone"}

(* Client.send: the frame reaches the client, or nobody.                   *)
Deliver(t, m) ==
    /\ m \in out[t]
    /\ MayWrite(t)
    /\ out' = [out EXCEPT ![t] = @ \ {m}]
    /\ view' = IF Listening(m.to)
               THEN [view EXCEPT ![m.to] =
                        Show(@, m, /\ m.op = "NEWGAME"
                                   /\ info[m.gid].account = acct[m.to])]
               ELSE view
    /\ UNCHANGED <<hubVars, timer, connVars, closed, asked, net, procVars>>

(* Client.send: the write times out; the connection is closed for good.    *)
WriteFails(t, m) ==
    /\ m \in out[t]
    /\ MayWrite(t)
    /\ m.to \in SlowClients
    /\ ~closed[m.to]
    /\ closed' = [closed EXCEPT ![m.to] = TRUE]
    /\ out' = [out EXCEPT ![t] = @ \ {m}]
    /\ UNCHANGED <<hubVars, timer, connVars, asked, net, view, procVars>>

(* The goroutine of c has finished with the previous frame.                *)
Reading(c) == cpc[c] = "reading" /\ out[Conn(c)] = {}

PresenceTo(peers, a, p) == {Presence(o, a, p) : o \in peers}
NewGameTo(peers, g) == {NewGame(o, Created, g) : o \in peers}
DelGameTo(peers, gs) == {DelGame(o, g) : o \in peers, g \in gs}

-----------------------------------------------------------------------------
(* A connection: serveClient, handleAuth, Join, Leave.                     *)

(* Login succeeded: accountID is set and the reply sent; Join follows.  The *)
(* game client sends credentials until one is accepted, and never again.   *)
HandleAuth(c, a) ==
    /\ Reading(c)
    /\ acct[c] = NoAccount
    /\ a \in Logins[c]
    /\ OverlappingSessions
         \/ \A d \in Clients \ {c} : acct[d] = a => cpc[d] = "gone"
    /\ acct' = [acct EXCEPT ![c] = a]
    /\ cpc' = [cpc EXCEPT ![c] = "joining"]
    /\ UNCHANGED <<hubVars, timer, place, cur, stops, tell, closed, asked, net,
                   out, view, procVars>>

(* Mutant of JoinFrames: the newcomer is not introduced.                   *)
JoinFramesOneWay(c) ==
    LET peers == {o \in clients \ {c} : acct[o] # NoAccount} IN
    {NewGame(c, Created, g) : g \in games}
        \cup {Presence(c, acct[o], place[o]) : o \in peers \cup {c}}

(* What Join tells c of the games and the other players, and them of c.    *)
JoinFrames(c) ==
    LET peers == {o \in clients \ {c} : acct[o] # NoAccount} IN
    {NewGame(c, Created, g) : g \in games}
        \cup {Presence(c, acct[o], place[o]) : o \in peers}
        \cup PresenceTo(peers \cup {c}, acct[c], place[c])

Join(c) ==
    /\ cpc[c] = "joining"
    /\ clients' = clients \cup {c}
    /\ out' = [out EXCEPT ![Conn(c)] = JoinFrames(c)]
    /\ cpc' = [cpc EXCEPT ![c] = "reading"]
    /\ UNCHANGED <<nextGID, games, pending, info, timer, acct, place,
                   cur, stops, tell, closed, asked, net, view, procVars>>

(* Mutant of OwnReady: a player's listed game is not dropped.              *)
OwnReadyKept(c) == {}

(* The ready games of c's account and the pending games of connection c,   *)
(* which Leave and RequestCreateGame drop.                                 *)
OwnReady(c) ==
    {g \in games : acct[c] # NoAccount /\ info[g].account = acct[c]}
OwnPending(c) == {g \in pending : info[g].owner = c}

(* timer.Stop() only helps while the timer has not fired.                  *)
StopTimers(gs) ==
    timer' = [g \in Gids |->
                IF g \in gs /\ timer[g] = "armed" THEN "stopped" ELSE timer[g]]

(* The read failed, or 30 s passed without a frame.                        *)
Leave(c) ==
    LET others == clients \ {c} IN
    /\ Reading(c)
    /\ clients' = others
    /\ games' = games \ OwnReady(c)
    /\ pending' = pending \ OwnPending(c)
    /\ StopTimers(OwnPending(c))
    /\ stops' = [stops EXCEPT ![c] = OwnReady(c) \cup OwnPending(c)]
    /\ out' = [out EXCEPT ![Conn(c)] =
                  DelGameTo(others, OwnReady(c))
                  \cup IF acct[c] = NoAccount THEN {}
                       ELSE PresenceTo(others, acct[c], Offline)]
    /\ cpc' = [cpc EXCEPT ![c] = "leave"]
    /\ asked' = [asked EXCEPT ![c] = FALSE]
    /\ view' = [view EXCEPT ![c] = EmptyView]
    /\ UNCHANGED <<nextGID, info, acct, place, cur, tell, closed, net, procVars>>

(* The rest of Stop(g), for the goroutine that has g to stop.  A game is   *)
(* dropped once, so that goroutine is the only one that stops it.          *)
StopEnds(g) == StopKills(g) \/ (g \notin doomed /\ StopMisses(g))

(* The loop over the dropped games is inside Stop of one of them at most.  *)
InsideStopOf(c) == stops[c] \cap doomed

(* Stop's critical section, in Leave as in RequestCreateGame.              *)
StopFindsChild(c, g) ==
    /\ cpc[c] \in {"create", "leave"}
    /\ cpc[c] = "create" => out[Conn(c)] = {}
    /\ g \in stops[c]
    /\ InsideStopOf(c) = {}
    /\ StopFinds(g)
    /\ UNCHANGED <<hubVars, timer, connVars, closed, asked, net, out, view>>

LeaveStop(c, g) ==
    /\ cpc[c] = "leave"
    /\ g \in stops[c]
    /\ InsideStopOf(c) \subseteq {g}
    /\ StopEnds(g)
    /\ stops' = [stops EXCEPT ![c] = @ \ {g}]
    /\ UNCHANGED <<hubVars, timer, acct, place, cpc, cur, tell, closed, asked,
                   net, out, view>>

LeaveDone(c) ==
    /\ cpc[c] = "leave"
    /\ stops[c] = {}
    /\ out[Conn(c)] = {}
    /\ cpc' = [cpc EXCEPT ![c] = "gone"]
    /\ UNCHANGED <<hubVars, timer, acct, place, cur, stops, tell, closed, asked,
                   net, out, view, procVars>>

-----------------------------------------------------------------------------
(* Creating a game.                                                        *)

(* The player asks for a game.  MaxGID bounds the requests ever made.      *)
CreateGame(c) ==
    /\ c \in clients \cap Creators
    /\ ~view[c].creategameclicked
    /\ nextGID + Cardinality({d \in Clients : asked[d]}) <= MaxGID
    /\ asked' = [asked EXCEPT ![c] = TRUE]
    /\ view' = [view EXCEPT ![c] = AskedView(@)]
    /\ UNCHANGED <<hubVars, timer, connVars, closed, net, out, procVars>>

(* The client's lobby tick sees that its request was answered.             *)
JoinCreated(c) ==
    /\ view[c].creategamestatus = Created
    /\ view[c].creategameclicked
    /\ view' = [view EXCEPT ![c] = PumpedView(@)]
    /\ UNCHANGED <<hubVars, timer, connVars, closed, asked, net, out, procVars>>

(* The critical section: drop what the player still has and hand out the   *)
(* next id.                                                                *)
RequestCreateGame(c) ==
    /\ Reading(c)
    /\ asked[c]
    /\ nextGID \in Gids
    /\ nextGID' = nextGID + 1
    /\ games' = games \ OwnReady(c)
    /\ pending' = (pending \ OwnPending(c)) \cup {nextGID}
    /\ StopTimers(OwnPending(c))
    /\ info' = [info EXCEPT ![nextGID] =
                   [owner |-> c, account |-> acct[c], port |-> 0,
                    report |-> FirstReport]]
    /\ cur' = [cur EXCEPT ![c] = nextGID]
    /\ stops' = [stops EXCEPT ![c] = OwnReady(c) \cup OwnPending(c)]
    /\ tell' = [tell EXCEPT ![c] = clients]
    /\ asked' = [asked EXCEPT ![c] = FALSE]
    /\ cpc' = [cpc EXCEPT ![c] = "create"]
    /\ UNCHANGED <<clients, acct, place, closed, net, out, view, procVars>>

(* Each dropped game is stopped, then everybody is told.                   *)
CreateStop(c, g) ==
    /\ cpc[c] = "create"
    /\ out[Conn(c)] = {}
    /\ g \in stops[c]
    /\ InsideStopOf(c) \subseteq {g}
    /\ StopEnds(g)
    /\ stops' = [stops EXCEPT ![c] = @ \ {g}]
    /\ out' = [out EXCEPT ![Conn(c)] = DelGameTo(tell[c], {g})]
    /\ UNCHANGED <<hubVars, timer, acct, place, cpc, cur, tell, closed, asked,
                   net, view>>

ReadyToStart(c) == cpc[c] = "create" /\ stops[c] = {} /\ out[Conn(c)] = {}

StartSpawns(c) ==
    /\ ReadyToStart(c)
    /\ Spawn(cur[c])
    /\ cpc' = [cpc EXCEPT ![c] = "spawned"]
    /\ tell' = [tell EXCEPT ![c] = {}]
    /\ UNCHANGED <<hubVars, timer, acct, place, cur, stops, closed, asked, net,
                   out, view>>

StartFails(c) ==
    /\ ReadyToStart(c)
    /\ cpc' = [cpc EXCEPT ![c] = "startfailed"]
    /\ tell' = [tell EXCEPT ![c] = {}]
    /\ UNCHANGED <<hubVars, timer, acct, place, cur, stops, closed, asked, net,
                   out, view, procVars>>

StartRegisters(c) ==
    /\ cpc[c] = "spawned"
    /\ Register(cur[c])
    /\ cpc' = [cpc EXCEPT ![c] = "arming"]
    /\ UNCHANGED <<hubVars, timer, acct, place, cur, stops, tell, closed, asked,
                   net, out, view>>

(* Mutant of ArmTimer: nobody watches over the pending game.               *)
ArmNothing(c) ==
    /\ cpc[c] = "arming"
    /\ cpc' = [cpc EXCEPT ![c] = "reading"]
    /\ UNCHANGED <<hubVars, timer, acct, place, cur, stops, tell, closed, asked,
                   net, out, view, procVars>>

(* The timer is set after the lock and after Start, whatever has become of *)
(* the game by then.                                                       *)
ArmTimer(c) ==
    /\ cpc[c] = "arming"
    /\ timer' = [timer EXCEPT ![cur[c]] = "armed"]
    /\ cpc' = [cpc EXCEPT ![c] = "reading"]
    /\ UNCHANGED <<hubVars, acct, place, cur, stops, tell, closed, asked, net,
                   out, view, procVars>>

-----------------------------------------------------------------------------
(* failPending, called when Start failed or the timer fired.               *)

FailStart(c) ==
    /\ cpc[c] = "startfailed"
    /\ pending' = pending \ {cur[c]}
    /\ cpc' = [cpc EXCEPT ![c] = IF cur[c] \in pending THEN "failing" ELSE "reading"]
    /\ UNCHANGED <<nextGID, games, clients, info, timer, acct, place,
                   cur, stops, tell, closed, asked, net, out, view, procVars>>

(* Start failed, so there is no child for Stop to find.                    *)
FailStartReply(c) ==
    /\ cpc[c] = "failing"
    /\ StopMisses(cur[c])
    /\ out' = [out EXCEPT ![Conn(c)] =
                  {NewGame(info[cur[c]].owner, Failed, cur[c])}]
    /\ cpc' = [cpc EXCEPT ![c] = "reading"]
    /\ UNCHANGED <<hubVars, timer, acct, place, cur, stops, tell, closed, asked,
                   net, view>>

(* 30 s are over: the goroutine of the timer starts.                       *)
TimerFires(g) ==
    /\ timer[g] = "armed"
    /\ timer' = [timer EXCEPT ![g] = "fired"]
    /\ UNCHANGED <<hubVars, connVars, closed, asked, net, out, view, procVars>>

(* Mutant of FailPending: the game is failed without looking whether it    *)
(* is still pending.                                                       *)
FailUnchecked(g) ==
    /\ timer[g] = "fired"
    /\ pending' = pending \ {g}
    /\ timer' = [timer EXCEPT ![g] = "failing"]
    /\ UNCHANGED <<nextGID, games, clients, info, connVars, closed, asked, net,
                   out, view, procVars>>

FailPending(g) ==
    /\ timer[g] = "fired"
    /\ pending' = pending \ {g}
    /\ timer' = [timer EXCEPT ![g] = IF g \in pending THEN "failing" ELSE "done"]
    /\ UNCHANGED <<nextGID, games, clients, info, connVars, closed,
                   asked, net, out, view, procVars>>

(* failPending's Stop, first half: the child is still in procs.            *)
TimerFinds(g) ==
    /\ timer[g] = "failing"
    /\ StopFinds(g)
    /\ UNCHANGED <<hubVars, timer, connVars, closed, asked, net, out, view>>

FailPendingReply(g) ==
    /\ timer[g] = "failing"
    /\ StopEnds(g)
    /\ out' = [out EXCEPT ![Timer(g)] = {NewGame(info[g].owner, Failed, g)}]
    /\ timer' = [timer EXCEPT ![g] = "done"]
    /\ UNCHANGED <<hubVars, connVars, closed, asked, net, view>>

-----------------------------------------------------------------------------
(* The dedicated servers and the UDP listener.                             *)

(* A full socket buffer drops the datagram.                                *)
Datagram(g, r) ==
    net' = IF Len(net) < MaxNet
           THEN Append(net, [gid |-> g, port |-> boundport[g], report |-> r])
           ELSE net

BeginServing(g) ==
    /\ Serve(g)
    /\ UNCHANGED <<hubVars, timer, connVars, closed, asked, net, out, view>>

SendHeartBeat(g, r) ==
    /\ os[g] = "serving"
    /\ Datagram(g, r)
    /\ UNCHANGED <<hubVars, timer, connVars, closed, asked, out, view, procVars>>

(* Nobody was left in the game: a last report, and the process ends.       *)
Quit(g) ==
    /\ os[g] = "serving"
    /\ Datagram(g, Closing)
    /\ Die(g)
    /\ UNCHANGED <<hubVars, timer, connVars, closed, asked, out, view>>

Crash(g) ==
    /\ Die(g)
    /\ UNCHANGED <<hubVars, timer, connVars, closed, asked, net, out, view>>

(* The listener takes a datagram once the frames of the last one are sent. *)
Received(h) == out[Udp] = {} /\ net # <<>> /\ h = Head(net) /\ net' = Tail(net)

(* Mutant of ReadyRecipients: only the owner learns that its game is ready.*)
OwnerOnly(g) == {info[g].owner}

ReadyRecipients(g) == clients \cup {info[g].owner}

(* Mutant of HeartbeatReady: an unknown game is taken in as well.          *)
HeartbeatRevives(h) ==
    /\ Received(h)
    /\ h.gid \notin games
    /\ pending' = pending \ {h.gid}
    /\ games' = games \cup {h.gid}
    /\ StopTimers({h.gid})
    /\ info' = [info EXCEPT ![h.gid] = [@ EXCEPT !.port = h.port, !.report = h.report]]
    /\ out' = [out EXCEPT ![Udp] = NewGameTo(ReadyRecipients(h.gid), h.gid)]
    /\ UNCHANGED <<nextGID, clients, connVars, closed, asked, view, procVars>>

(* OnHeartbeat for a pending game: the game is ready, everybody learns it. *)
HeartbeatReady(h) ==
    /\ Received(h)
    /\ h.gid \in pending
    /\ pending' = pending \ {h.gid}
    /\ games' = games \cup {h.gid}
    /\ StopTimers({h.gid})
    /\ info' = [info EXCEPT ![h.gid] = [@ EXCEPT !.port = h.port, !.report = h.report]]
    /\ out' = [out EXCEPT ![Udp] = NewGameTo(ReadyRecipients(h.gid), h.gid)]
    /\ UNCHANGED <<nextGID, clients, connVars, closed, asked, view,
                   procVars>>

(* OnHeartbeat for a listed game: everybody learns of a change.            *)
HeartbeatUpdate(h) ==
    /\ Received(h)
    /\ h.gid \in games \ pending
    /\ info' = [info EXCEPT ![h.gid].report = h.report]
    /\ out' = [out EXCEPT ![Udp] =
                  IF info[h.gid].report # h.report
                  THEN NewGameTo(clients, h.gid) ELSE {}]
    /\ UNCHANGED <<nextGID, games, pending, clients, timer, connVars, closed,
                   asked, view, procVars>>

HeartbeatUnknown(h) ==
    /\ Received(h)
    /\ h.gid \notin games \cup pending
    /\ UNCHANGED <<hubVars, timer, connVars, closed, asked, out, view, procVars>>

OnHeartbeat ==
    \E h \in Heartbeats : HeartbeatReady(h) \/ HeartbeatUpdate(h) \/ HeartbeatUnknown(h)

(* cmd.Wait returned and the child left procs.                             *)
WaitReturns(g) ==
    /\ Reap(g)
    /\ UNCHANGED <<hubVars, timer, connVars, closed, asked, net, out, view>>

(* Only a listed game is removed; a pending one waits for its timer.       *)
GameExited(g) ==
    /\ waiter[g] = "exited"
    /\ waiter' = [waiter EXCEPT ![g] = "done"]
    /\ games' = games \ {g}
    /\ out' = [out EXCEPT ![Waiter(g)] =
                  IF g \in games THEN DelGameTo(clients, {g}) ELSE {}]
    /\ UNCHANGED <<nextGID, pending, clients, info, timer, connVars, closed,
                   asked, net, view, procs, doomed, os, boundport>>

-----------------------------------------------------------------------------
(* Where the players are.                                                  *)

(* The place recorded for opSetGame(g, s).                                 *)
PlaceOf(g, s) ==
    IF g = 0 THEN MainLobby ELSE <<g, IF s \in {1, 2} THEN s ELSE 1>>

SetClientGame(c, g, s) ==
    /\ c \in Movers
    /\ Reading(c)
    /\ acct[c] # NoAccount
    /\ g \in {0} \cup games \cup pending
    /\ place' = [place EXCEPT ![c] = PlaceOf(g, s)]
    /\ out' = [out EXCEPT ![Conn(c)] = PresenceTo(clients, acct[c], PlaceOf(g, s))]
    /\ UNCHANGED <<hubVars, timer, acct, cpc, cur, stops, tell, closed, asked,
                   net, view, procVars>>

(* The player created, selected or renamed a character.                    *)
BroadcastClientPresence(c) ==
    /\ c \in Renamers
    /\ Reading(c)
    /\ acct[c] # NoAccount
    /\ out' = [out EXCEPT ![Conn(c)] = PresenceTo(clients, acct[c], place[c])]
    /\ UNCHANGED <<hubVars, timer, connVars, closed, asked, net, view, procVars>>

-----------------------------------------------------------------------------

(* What the goroutine of connection c does by itself, once it has begun.   *)
ConnStep(c) ==
    \/ Join(c) \/ LeaveDone(c)
    \/ \E g \in Gids : StopFindsChild(c, g) \/ LeaveStop(c, g) \/ CreateStop(c, g)
    \/ StartSpawns(c) \/ StartFails(c) \/ StartRegisters(c) \/ ArmTimer(c)
    \/ FailStart(c) \/ FailStartReply(c)

(* What the player at the other end makes it do.                           *)
ClientStep(c) ==
    \/ \E a \in Accounts : HandleAuth(c, a)
    \/ Leave(c)
    \/ CreateGame(c) \/ JoinCreated(c) \/ RequestCreateGame(c)
    \/ \E g \in 0 .. MaxGID, s \in PlaceStatuses : SetClientGame(c, g, s)
    \/ BroadcastClientPresence(c)

TimerStep(g) ==
    TimerFires(g) \/ FailPending(g) \/ TimerFinds(g) \/ FailPendingReply(g)
WaiterStep(g) == WaitReturns(g) \/ GameExited(g)

ServerStep(g) ==
    \/ BeginServing(g) \/ Quit(g) \/ Crash(g)
    \/ \E r \in Reports : SendHeartBeat(g, r)

Write(t) == \E m \in out[t] : Deliver(t, m) \/ WriteFails(t, m)

Next ==
    \/ \E c \in Clients : ConnStep(c) \/ ClientStep(c)
    \/ \E g \in Gids : TimerStep(g) \/ WaiterStep(g) \/ ServerStep(g)
    \/ OnHeartbeat
    \/ \E t \in Goroutines : Write(t)

Spec == Init /\ [][Next]_vars

(* The Go scheduler runs every goroutine that can run, a timer fires, a    *)
(* write ends (a write deadline bounds it), a request that reached the     *)
(* connection is read in its turn, and reading from a closed connection    *)
(* fails.  Players and servers owe nobody a step.                          *)
Fairness ==
    /\ \A c \in Clients :
        /\ WF_vars(ConnStep(c))
        /\ SF_vars(RequestCreateGame(c))
        /\ WF_vars(closed[c] /\ Leave(c))
    /\ \A g \in Gids : WF_vars(TimerStep(g)) /\ WF_vars(WaiterStep(g))
    /\ WF_vars(OnHeartbeat)
    /\ \A t \in Goroutines : WF_vars(Write(t))

FairSpec == Spec /\ Fairness
=============================================================================
