--------------------------- MODULE LobbyHub_proofs ---------------------------
(***************************************************************************)
(* The hub's invariant is inductive, for any numbers of connections,       *)
(* players and games: one lemma per part of it, one step per action.  In   *)
(* this order: types, ids and live games; players, their games and the     *)
(* dedicated servers; frames and what clients show; the life of a game;    *)
(* and the theorems about the hub.                                         *)
(***************************************************************************)
EXTENDS LobbyHubInvariants, TLAPS

USE MaxGIDAssumption, PortAssumption, AccountAssumption, ReportAssumption,
    NetAssumption, SwitchAssumption

-----------------------------------------------------------------------------
(* Types of the helpers.                                                   *)

LEMMA GoroutineTypes ==
    /\ \A c \in Clients : Conn(c) \in Goroutines
    /\ \A g \in Gids : Timer(g) \in Goroutines /\ Waiter(g) \in Goroutines
    /\ Udp \in Goroutines
BY DEF Goroutines, Conn, Timer, Waiter, Udp

LEMMA FrameTypes ==
    /\ \A c \in Clients, s \in {Created, Failed}, g \in Gids : NewGame(c, s, g) \in Frames
    /\ \A c \in Clients, g \in Gids : DelGame(c, g) \in Frames
    /\ \A c \in Clients, a \in Accounts, p \in Places \cup {Offline} :
          Presence(c, a, p) \in Frames
BY DEF Frames, NewGameFrames, DelGameFrames, PresenceFrames, NewGame, DelGame, Presence

LEMMA FrameSetTypes ==
    ASSUME NEW peers \in SUBSET Clients
    PROVE  /\ \A g \in Gids : NewGameTo(peers, g) \subseteq Frames
           /\ \A gs \in SUBSET Gids : DelGameTo(peers, gs) \subseteq Frames
           /\ \A a \in Accounts, p \in Places \cup {Offline} :
                 PresenceTo(peers, a, p) \subseteq Frames
<1>1. Created \in {Created, Failed}
  OBVIOUS
<1> QED
  BY <1>1, FrameTypes DEF NewGameTo, DelGameTo, PresenceTo

LEMMA FrameFields ==
    ASSUME NEW m \in Frames
    PROVE  /\ m.to \in Clients
           /\ m.op \in {"NEWGAME", "DELGAME", "PRESENCE"}
           /\ m.op = "NEWGAME" => m.gid \in Gids /\ m.status \in {Created, Failed}
           /\ m.op = "DELGAME" => m.gid \in Gids
           /\ m.op = "PRESENCE" => m.account \in Accounts
                                   /\ m.place \in Places \cup {Offline}
BY DEF Frames, NewGameFrames, DelGameFrames, PresenceFrames

LEMMA ShowType ==
    ASSUME NEW v \in Views, NEW m \in Frames, NEW own \in BOOLEAN
    PROVE  Show(v, m, own) \in Views
<1>1. CASE m.op = "NEWGAME"
  <2>1. m.gid \in Gids /\ m.gid \in 0 .. MaxGID
    BY <1>1, FrameFields DEF Gids
  <2>2. Show(v, m, own) = ShowNewGame(v, m.gid, m.status, own)
    BY <1>1 DEF Show
  <2>3. [v EXCEPT !.games = @ \cup {m.gid}] \in Views
    BY <2>1 DEF Views
  <2>4. [v EXCEPT !.games = @ \cup {m.gid}, !.creategamestatus = Created,
                  !.createdgameid = m.gid] \in Views
    BY <2>1 DEF Views
  <2>5. [v EXCEPT !.games = @ \ {m.gid}, !.creategamestatus = Failed] \in Views
    BY <2>1 DEF Views
  <2> QED
    BY <2>2, <2>3, <2>4, <2>5 DEF ShowNewGame
<1>2. CASE m.op = "DELGAME"
  <2>1. [v EXCEPT !.games = @ \ {m.gid}] \in Views
    BY DEF Views
  <2> QED
    BY <1>2, <2>1 DEF Show, ShowDelGame
<1>3. CASE m.op = "PRESENCE"
  <2>1. m.account \in Accounts /\ m.place \in Places \cup {Offline}
    BY <1>3, FrameFields
  <2>2. [v EXCEPT !.presence[m.account] = m.place] \in Views
    BY <2>1 DEF Views
  <2> QED
    BY <1>3, <2>2 DEF Show, ShowPresence
<1> QED
  BY <1>1, <1>2, <1>3, FrameFields

LEMMA PlayerViewType ==
    ASSUME NEW v \in Views
    PROVE  AskedView(v) \in Views /\ PumpedView(v) \in Views /\ EmptyView \in Views
<1>1. AskedView(v) \in Views
  BY DEF AskedView, Views
<1>2. v.createdgameid \in 0 .. MaxGID /\ v.currentlobbygameid \in 0 .. MaxGID
  BY DEF Views
<1>3. \A i \in 0 .. MaxGID :
         [v EXCEPT !.creategamestatus = Idle, !.creategameclicked = FALSE,
                   !.currentlobbygameid = i] \in Views
  BY DEF Views
<1>4. PumpedView(v) \in Views
  BY <1>2, <1>3 DEF PumpedView
<1>5. EmptyView \in Views
  BY DEF EmptyView, Views
<1> QED
  BY <1>1, <1>4, <1>5

LEMMA JoinFramesType ==
    ASSUME TypeOK, NEW c \in Clients, acct[c] # NoAccount
    PROVE  JoinFrames(c) \subseteq Frames
<1> DEFINE peers == {o \in clients \ {c} : acct[o] # NoAccount}
<1>1. \A o \in Clients : place[o] \in Places /\ acct[o] \in Accounts \cup {NoAccount}
  BY DEF TypeOK
<1>2. peers \subseteq Clients /\ peers \cup {c} \subseteq Clients
  BY DEF TypeOK
<1>3. {NewGame(c, Created, g) : g \in games} \subseteq Frames
  BY FrameTypes DEF TypeOK
<1>4. {Presence(c, acct[o], place[o]) : o \in peers} \subseteq Frames
  BY <1>1, <1>2, FrameTypes
<1>5. PresenceTo(peers \cup {c}, acct[c], place[c]) \subseteq Frames
  BY <1>1, <1>2, FrameSetTypes
<1> QED
  BY <1>3, <1>4, <1>5 DEF JoinFrames

LEMMA StopTimersType ==
    ASSUME TypeOK, NEW gs, StopTimers(gs)
    PROVE  timer' \in [Gids -> TimerStates]
BY DEF TypeOK, StopTimers, TimerStates

LEMMA BindResultsType ==
    ASSUME TypeOK, NEW g \in Gids
    PROVE  BindResults(g) \subseteq Ports
<1>1. g % GamePortCount \in 0 .. (GamePortCount - 1)
  BY DEF Gids
<1>2. WantedPort(g) \in Ports
  BY <1>1 DEF WantedPort, Ports
<1> QED
  BY <1>2 DEF BindResults, Ports

LEMMA OwnTypes ==
    ASSUME TypeOK, NEW c \in Clients
    PROVE  OwnReady(c) \subseteq games /\ OwnPending(c) \subseteq pending
BY DEF OwnReady, OwnPending

LEMMA DatagramType ==
    ASSUME TypeOK, NEW g \in Gids, NEW r \in Reports, Datagram(g, r)
    PROVE  net' \in Seq(Heartbeats)
<1>1. [gid |-> g, port |-> boundport[g], report |-> r] \in Heartbeats
  BY DEF TypeOK, ProcTypeOK, Heartbeats
<1> QED
  BY <1>1 DEF Datagram, TypeOK

LEMMA ReceivedType ==
    ASSUME TypeOK, NEW h, Received(h)
    PROVE  net' \in Seq(Heartbeats) /\ h \in Heartbeats
BY DEF Received, TypeOK

LEMMA PlaceOfType ==
    ASSUME NEW g \in 0 .. MaxGID, NEW s
    PROVE  PlaceOf(g, s) \in Places
BY DEF PlaceOf, Places, MainLobby

LEMMA FailedFrameType ==
    ASSUME TypeOK, HandedOut, NEW g \in Gids, g < nextGID
    PROVE  {NewGame(info[g].owner, Failed, g)} \subseteq Frames
BY FrameTypes DEF HandedOut

LEMMA ReportType ==
    ASSUME NEW x \in Games, NEW p \in Ports, NEW r \in Reports
    PROVE  /\ [x EXCEPT !.report = r] \in Games
           /\ [x EXCEPT !.port = p, !.report = r] \in Games
BY DEF Games

LEMMA FrameContents ==
    /\ \A peers, g : \A m \in NewGameTo(peers, g) :
          m.op = "NEWGAME" /\ m.status = Created /\ m.gid = g
    /\ \A peers, gs : \A m \in DelGameTo(peers, gs) : m.op = "DELGAME" /\ m.gid \in gs
    /\ \A peers, a, p : \A m \in PresenceTo(peers, a, p) : m.op = "PRESENCE"
    /\ \A c, s, g :
          /\ NewGame(c, s, g).op = "NEWGAME"
          /\ NewGame(c, s, g).status = s
          /\ NewGame(c, s, g).gid = g
BY DEF NewGameTo, DelGameTo, PresenceTo, NewGame, DelGame, Presence

LEMMA JoinFrameContents ==
    ASSUME NEW c, NEW m \in JoinFrames(c)
    PROVE  /\ m.op \in {"NEWGAME", "PRESENCE"}
           /\ m.op = "NEWGAME" => m.status = Created /\ m.gid \in games
BY DEF JoinFrames, PresenceTo, NewGame, Presence

LEMMA CurUnique ==
    ASSUME TypeOK, HandedOut, NEW c \in Clients, NEW d \in Clients,
           cur[c] = cur[d], cur[c] \in Gids
    PROVE  c = d
<1>1. cur[c] > 0 /\ cur[d] > 0
  BY DEF Gids
<1>2. info[cur[c]].owner = c /\ info[cur[d]].owner = d
  BY <1>1 DEF HandedOut
<1> QED
  BY <1>2

LEMMA OneSession ==
    ASSUME Ownership, ~OverlappingSessions, NEW c \in Clients, NEW d \in Clients, c # d,
           acct[c] # NoAccount, cpc[c] # "gone", cpc[d] # "gone"
    PROVE  acct[c] # acct[d]
BY DEF Ownership

LEMMA StoppedInHand ==
    ASSUME LiveGames, Children, ~OverlappingSessions,
           NEW g \in Gids, Alive(g), BeingStopped(g)
    PROVE  g \in procs \cup doomed
<1>1. g \notin games \cup pending
  BY DEF LiveGames, NoKillOfLiveGame
<1> QED
  BY <1>1 DEF Children, NoStray, Starting

LEMMA GoroutinesDiffer ==
    /\ \A c, d \in Clients : c # d => Conn(c) # Conn(d)
    /\ \A g, k \in Gids : g # k => Timer(g) # Timer(k) /\ Waiter(g) # Waiter(k)
    /\ \A c \in Clients, g \in Gids :
          Conn(c) # Timer(g) /\ Conn(c) # Waiter(g) /\ Conn(c) # Udp
    /\ \A g, k \in Gids : Timer(g) # Waiter(k) /\ Timer(g) # Udp /\ Waiter(g) # Udp
BY DEF Conn, Timer, Waiter, Udp

LEMMA ShowNewGameRows ==
    ASSUME NEW v \in Views, NEW g, NEW s, NEW own
    PROVE  /\ v.games \ {g} \subseteq ShowNewGame(v, g, s, own).games
           /\ s = Created => v.games \cup {g} \subseteq ShowNewGame(v, g, s, own).games
BY DEF ShowNewGame, Views

LEMMA LiveIds ==
    ASSUME TypeOK, HandedOut, NEW g \in games \cup pending
    PROVE  g \in Gids /\ g < nextGID
<1>1. g \in Gids /\ nextGID \in Int
  BY DEF TypeOK
<1>2. ~(g >= nextGID)
  BY <1>1 DEF HandedOut
<1> QED
  BY <1>1, <1>2 DEF Gids

-----------------------------------------------------------------------------
(* Type correctness.                                                       *)

(* Every step keeps every variable in its type. *)
LEMMA TypeStep ==
    ASSUME TypeOK, HandedOut, [Next]_vars
    PROVE  TypeOK'
<1> USE DEF TypeOK, ProcTypeOK, hubVars, connVars, procVars, ConnStates,
    TimerStates
<1>1. ASSUME NEW c \in Clients, ConnStep(c)
     PROVE  TypeOK'
  <2>1. CASE Join(c)
    BY <2>1, JoinFramesType, GoroutineTypes DEF Join, HandedOut
  <2>2. CASE LeaveDone(c)
    BY <2>2 DEF LeaveDone
  <2>3. ASSUME NEW g \in Gids, LeaveStop(c, g)
       PROVE  TypeOK'
    BY <2>3 DEF LeaveStop, StopEnds, StopKills, StopMisses
  <2>4. ASSUME NEW g \in Gids, CreateStop(c, g)
       PROVE  TypeOK'
    <3>1. DelGameTo(tell[c], {g}) \subseteq Frames
      BY FrameSetTypes
    <3>2. out' \in [Goroutines -> SUBSET Frames]
      BY <2>4, <3>1, GoroutineTypes DEF CreateStop
    <3> QED
      BY <2>4, <3>2 DEF CreateStop, StopEnds, StopKills, StopMisses
  <2>5. CASE StartSpawns(c)
    BY <2>5 DEF StartSpawns, ReadyToStart, Spawn
  <2>6. CASE StartFails(c)
    BY <2>6 DEF StartFails, ReadyToStart
  <2>7. CASE StartRegisters(c)
    BY <2>7 DEF StartRegisters, Register, HandedOut, Creating
  <2>8. CASE ArmTimer(c)
    BY <2>8 DEF ArmTimer
  <2>9. CASE FailStart(c)
    BY <2>9 DEF FailStart
  <2>10. CASE FailStartReply(c)
    <3>1. cur[c] \in Gids /\ cur[c] < nextGID
      BY <2>10 DEF FailStartReply, HandedOut, Creating
    <3>2. out' \in [Goroutines -> SUBSET Frames]
      BY <2>10, <3>1, FailedFrameType, GoroutineTypes DEF FailStartReply
    <3> QED
      BY <2>10, <3>2 DEF FailStartReply, StopMisses
  <2>11. ASSUME NEW g \in Gids, StopFindsChild(c, g)
        PROVE  TypeOK'
    BY <2>11 DEF StopFindsChild, StopFinds
  <2> QED
    BY <1>1, <2>1, <2>2, <2>3, <2>4, <2>5, <2>6, <2>7, <2>8, <2>9, <2>10, <2>11
       DEF ConnStep
<1>2. ASSUME NEW c \in Clients, ClientStep(c)
     PROVE  TypeOK'
  <2>1. ASSUME NEW a \in Accounts, HandleAuth(c, a)
       PROVE  TypeOK'
    BY <2>1 DEF HandleAuth, Reading
  <2>2. CASE Leave(c)
    BY <2>2, OwnTypes, FrameSetTypes, GoroutineTypes, PlayerViewType DEF
       Leave, Reading, StopTimers
  <2>3. CASE CreateGame(c)
    BY <2>3, PlayerViewType DEF CreateGame
  <2>4. CASE JoinCreated(c)
    BY <2>4, PlayerViewType DEF JoinCreated
  <2>5. CASE RequestCreateGame(c)
    <3>1. nextGID + 1 \in 1 .. (MaxGID + 1) /\ nextGID \in Gids
      BY <2>5 DEF RequestCreateGame, Gids
    <3>2. 0 \in Ports
      BY DEF Ports
    <3>3. [owner |-> c, account |-> acct[c], port |-> 0, report |-> FirstReport] \in Games
      BY <3>2 DEF Games
    <3>4. info' \in [Gids -> Games]
      BY <2>5, <3>3 DEF RequestCreateGame
    <3>5. timer' \in [Gids -> TimerStates]
      BY <2>5, StopTimersType DEF RequestCreateGame
    <3>6. games' \in SUBSET Gids /\ pending' \in SUBSET Gids
      BY <2>5, <3>1, OwnTypes DEF RequestCreateGame
    <3>7. cur' \in [Clients -> 0 .. MaxGID]
      BY <2>5, <3>1 DEF RequestCreateGame, Gids
    <3>8. stops' \in [Clients -> SUBSET Gids]
      BY <2>5, OwnTypes DEF RequestCreateGame
    <3> QED
      BY <2>5, <3>1, <3>4, <3>5, <3>6, <3>7, <3>8 DEF RequestCreateGame, Reading
  <2>6. ASSUME NEW g \in 0 .. MaxGID, NEW s \in PlaceStatuses, SetClientGame(c, g, s)
       PROVE  TypeOK'
    <3>1. PlaceOf(g, s) \in Places /\ acct[c] \in Accounts
      BY <2>6, PlaceOfType DEF SetClientGame
    <3>2. PresenceTo(clients, acct[c], PlaceOf(g, s)) \subseteq Frames
      BY <3>1, FrameSetTypes
    <3> QED
      BY <2>6, <3>1, <3>2, GoroutineTypes DEF SetClientGame
  <2>7. CASE BroadcastClientPresence(c)
    BY <2>7, FrameSetTypes, GoroutineTypes DEF BroadcastClientPresence,
       Reading
  <2> QED
    BY <1>2, <2>1, <2>2, <2>3, <2>4, <2>5, <2>6, <2>7 DEF ClientStep
<1>3. ASSUME NEW g \in Gids, TimerStep(g)
     PROVE  TypeOK'
  <2>1. CASE TimerFires(g)
    BY <2>1 DEF TimerFires
  <2>2. CASE FailPending(g)
    BY <2>2 DEF FailPending
  <2>3. CASE FailPendingReply(g)
    <3>1. g < nextGID
      BY <2>3 DEF FailPendingReply, HandedOut, Gids
    <3>2. out' \in [Goroutines -> SUBSET Frames]
      BY <2>3, <3>1, FailedFrameType, GoroutineTypes DEF FailPendingReply
    <3> QED
      BY <2>3, <3>2 DEF FailPendingReply, StopEnds, StopKills, StopMisses
  <2>4. CASE TimerFinds(g)
    BY <2>4 DEF TimerFinds, StopFinds
  <2> QED
    BY <1>3, <2>1, <2>2, <2>3, <2>4 DEF TimerStep
<1>4. ASSUME NEW g \in Gids, WaiterStep(g)
     PROVE  TypeOK'
  <2>1. CASE WaitReturns(g)
    BY <2>1 DEF WaitReturns, Reap
  <2>2. CASE GameExited(g)
    <3>1. DelGameTo(clients, {g}) \subseteq Frames
      BY FrameSetTypes
    <3>2. out' \in [Goroutines -> SUBSET Frames]
      BY <2>2, <3>1, GoroutineTypes DEF GameExited
    <3> QED
      BY <2>2, <3>2 DEF GameExited
  <2> QED
    BY <1>4, <2>1, <2>2 DEF WaiterStep
<1>5. ASSUME NEW g \in Gids, ServerStep(g)
     PROVE  TypeOK'
  <2>1. CASE BeginServing(g)
    BY <2>1, BindResultsType DEF BeginServing, Serve
  <2>2. CASE Quit(g)
    BY <2>2, DatagramType DEF Quit, Die, Alive
  <2>3. CASE Crash(g)
    BY <2>3 DEF Crash, Die, Alive
  <2>4. ASSUME NEW r \in Reports, SendHeartBeat(g, r)
       PROVE  TypeOK'
    BY <2>4, DatagramType DEF SendHeartBeat
  <2> QED
    BY <1>5, <2>1, <2>2, <2>3, <2>4 DEF ServerStep
<1>6. ASSUME NEW h \in Heartbeats,
            HeartbeatReady(h) \/ HeartbeatUpdate(h) \/ HeartbeatUnknown(h)
     PROVE  TypeOK'
  <2>1. CASE HeartbeatReady(h)
    <3>1. h.gid \in Gids /\ h.port \in Ports /\ h.report \in Reports
      BY <1>6 DEF Heartbeats
    <3>2. h.gid < nextGID
      BY <2>1, LiveIds DEF HeartbeatReady
    <3>3. NewGameTo(ReadyRecipients(h.gid), h.gid) \subseteq Frames
      <4>1. info[h.gid].owner \in Clients
        BY <3>1, <3>2 DEF HandedOut
      <4>2. ReadyRecipients(h.gid) \in SUBSET Clients
        BY <4>1 DEF ReadyRecipients
      <4> QED
        BY <3>1, <4>2, FrameSetTypes
    <3>4. info' \in [Gids -> Games]
      BY <2>1, <3>1, ReportType DEF HeartbeatReady
    <3> QED
      BY <2>1, <3>1, <3>3, <3>4, ReceivedType, StopTimersType, GoroutineTypes DEF HeartbeatReady
  <2>2. CASE HeartbeatUpdate(h)
    <3>1. h.gid \in Gids /\ h.report \in Reports
      BY <1>6 DEF Heartbeats
    <3>2. NewGameTo(clients, h.gid) \subseteq Frames
      BY <3>1, FrameSetTypes
    <3>3. info' \in [Gids -> Games]
      BY <2>2, <3>1, ReportType DEF HeartbeatUpdate
    <3> QED
      BY <2>2, <3>2, <3>3, ReceivedType, GoroutineTypes DEF HeartbeatUpdate
  <2>3. CASE HeartbeatUnknown(h)
    BY <2>3, ReceivedType DEF HeartbeatUnknown
  <2> QED
    BY <1>6, <2>1, <2>2, <2>3
<1>7. ASSUME NEW t \in Goroutines, NEW m \in out[t], Deliver(t, m) \/ WriteFails(t, m)
     PROVE  TypeOK'
  <2>1. CASE Deliver(t, m)
    <3>1. m \in Frames /\ m.to \in Clients
      BY <1>7, FrameFields
    <3> DEFINE own == m.op = "NEWGAME" /\ info[m.gid].account = acct[m.to]
    <3>2. Show(view[m.to], m, own) \in Views
      BY <3>1, ShowType
    <3> QED
      BY <2>1, <3>1, <3>2 DEF Deliver
  <2>2. CASE WriteFails(t, m)
    BY <2>2 DEF WriteFails
  <2> QED
    BY <1>7, <2>1, <2>2
<1>8. CASE UNCHANGED vars
  BY <1>8 DEF vars
<1> QED
  BY <1>1, <1>2, <1>3, <1>4, <1>5, <1>6, <1>7, <1>8 DEF Next, OnHeartbeat,
     Write

-----------------------------------------------------------------------------
(* The ids handed out.                                                     *)

(* Every step keeps the bookkeeping of ids. *)
LEMMA HandedOutStep ==
    ASSUME TypeOK, HandedOut, [Next]_vars
    PROVE  HandedOut'
<1> USE DEF TypeOK, ProcTypeOK, HandedOut, Creating, Gids, hubVars, connVars,
    procVars
<1>1. ASSUME NEW c \in Clients, ConnStep(c)
     PROVE  HandedOut'
  <2>1. CASE Join(c)
    BY <2>1 DEF Join
  <2>2. CASE LeaveDone(c)
    BY <2>2 DEF LeaveDone
  <2>3. ASSUME NEW g \in Gids, LeaveStop(c, g)
       PROVE  HandedOut'
    BY <2>3 DEF LeaveStop, StopEnds, StopKills, StopMisses
  <2>4. ASSUME NEW g \in Gids, CreateStop(c, g)
       PROVE  HandedOut'
    BY <2>4 DEF CreateStop, StopEnds, StopKills, StopMisses
  <2>5. CASE StartSpawns(c)
    BY <2>5 DEF StartSpawns, ReadyToStart, Spawn
  <2>6. CASE StartFails(c)
    BY <2>6 DEF StartFails, ReadyToStart
  <2>7. CASE StartRegisters(c)
    BY <2>7 DEF StartRegisters, Register
  <2>8. CASE ArmTimer(c)
    BY <2>8 DEF ArmTimer
  <2>9. CASE FailStart(c)
    BY <2>9 DEF FailStart
  <2>10. CASE FailStartReply(c)
    BY <2>10 DEF FailStartReply, StopMisses
  <2>11. ASSUME NEW g \in Gids, StopFindsChild(c, g)
        PROVE  HandedOut'
    BY <2>11 DEF StopFindsChild, StopFinds
  <2> QED
    BY <1>1, <2>1, <2>2, <2>3, <2>4, <2>5, <2>6, <2>7, <2>8, <2>9, <2>10, <2>11
       DEF ConnStep
<1>2. ASSUME NEW c \in Clients, ClientStep(c)
     PROVE  HandedOut'
  <2>1. ASSUME NEW a \in Accounts, HandleAuth(c, a)
       PROVE  HandedOut'
    BY <2>1 DEF HandleAuth, Reading
  <2>2. CASE Leave(c)
    BY <2>2, OwnTypes DEF Leave, Reading, StopTimers
  <2>3. CASE CreateGame(c)
    BY <2>3 DEF CreateGame
  <2>4. CASE JoinCreated(c)
    BY <2>4 DEF JoinCreated
  <2>5. CASE RequestCreateGame(c)
    BY <2>5, OwnTypes DEF RequestCreateGame, Reading, StopTimers
  <2>6. ASSUME NEW g \in 0 .. MaxGID, NEW s \in PlaceStatuses, SetClientGame(c, g, s)
       PROVE  HandedOut'
    BY <2>6 DEF SetClientGame, Reading
  <2>7. CASE BroadcastClientPresence(c)
    BY <2>7 DEF BroadcastClientPresence, Reading
  <2> QED
    BY <1>2, <2>1, <2>2, <2>3, <2>4, <2>5, <2>6, <2>7 DEF ClientStep
<1>3. ASSUME NEW g \in Gids, TimerStep(g)
     PROVE  HandedOut'
  <2>1. CASE TimerFires(g)
    BY <2>1 DEF TimerFires
  <2>2. CASE FailPending(g)
    BY <2>2 DEF FailPending
  <2>3. CASE FailPendingReply(g)
    BY <2>3 DEF FailPendingReply, StopEnds, StopKills, StopMisses
  <2>4. CASE TimerFinds(g)
    BY <2>4 DEF TimerFinds, StopFinds
  <2> QED
    BY <1>3, <2>1, <2>2, <2>3, <2>4 DEF TimerStep
<1>4. ASSUME NEW g \in Gids, WaiterStep(g)
     PROVE  HandedOut'
  <2>1. CASE WaitReturns(g)
    BY <2>1 DEF WaitReturns, Reap
  <2>2. CASE GameExited(g)
    BY <2>2 DEF GameExited
  <2> QED
    BY <1>4, <2>1, <2>2 DEF WaiterStep
<1>5. ASSUME NEW g \in Gids, ServerStep(g)
     PROVE  HandedOut'
  <2>1. CASE BeginServing(g)
    BY <2>1 DEF BeginServing, Serve
  <2>2. CASE Quit(g)
    BY <2>2 DEF Quit, Datagram, Die, Alive
  <2>3. CASE Crash(g)
    BY <2>3 DEF Crash, Die, Alive
  <2>4. ASSUME NEW r \in Reports, SendHeartBeat(g, r)
       PROVE  HandedOut'
    BY <2>4 DEF SendHeartBeat, Datagram
  <2> QED
    BY <1>5, <2>1, <2>2, <2>3, <2>4 DEF ServerStep
<1>6. ASSUME NEW h \in Heartbeats,
            HeartbeatReady(h) \/ HeartbeatUpdate(h) \/ HeartbeatUnknown(h)
     PROVE  HandedOut'
  <2>1. CASE HeartbeatReady(h)
    BY SMTT(40), <2>1
       DEF HeartbeatReady, Received, StopTimers, Heartbeats, Games
  <2>2. CASE HeartbeatUpdate(h)
    BY SMTT(40), <2>2 DEF HeartbeatUpdate, Received, Heartbeats, Games
  <2>3. CASE HeartbeatUnknown(h)
    BY <2>3 DEF HeartbeatUnknown, Received
  <2> QED
    BY <1>6, <2>1, <2>2, <2>3
<1>7. ASSUME NEW t \in Goroutines, NEW m \in out[t], Deliver(t, m) \/ WriteFails(t, m)
     PROVE  HandedOut'
  <2>1. CASE Deliver(t, m)
    BY <2>1 DEF Deliver
  <2>2. CASE WriteFails(t, m)
    BY <2>2 DEF WriteFails
  <2> QED
    BY <1>7, <2>1, <2>2
<1>8. CASE UNCHANGED vars
  BY <1>8 DEF vars
<1> QED
  BY <1>1, <1>2, <1>3, <1>4, <1>5, <1>6, <1>7, <1>8 DEF Next, OnHeartbeat,
     Write

-----------------------------------------------------------------------------
(* Nobody stops a live game.                                               *)

(* Every step keeps live games out of the hands of those that stop games. *)
LEMMA LiveGamesStep ==
    ASSUME TypeOK, HandedOut, LiveGames, [Next]_vars
    PROVE  LiveGames'
<1> USE DEF TypeOK, ProcTypeOK, HandedOut, LiveGames, NoKillOfLiveGame,
    BeingStopped, Creating, Gids, hubVars, connVars, procVars
<1>1. ASSUME NEW c \in Clients, ConnStep(c)
     PROVE  LiveGames'
  <2>1. CASE Join(c)
    BY <2>1 DEF Join
  <2>2. CASE LeaveDone(c)
    BY <2>2 DEF LeaveDone
  <2>3. ASSUME NEW g \in Gids, LeaveStop(c, g)
       PROVE  LiveGames'
    BY <2>3 DEF LeaveStop, StopEnds, StopKills, StopMisses
  <2>4. ASSUME NEW g \in Gids, CreateStop(c, g)
       PROVE  LiveGames'
    BY <2>4 DEF CreateStop, StopEnds, StopKills, StopMisses
  <2>5. CASE StartSpawns(c)
    BY <2>5 DEF StartSpawns, ReadyToStart, Spawn
  <2>6. CASE StartFails(c)
    BY <2>6 DEF StartFails, ReadyToStart
  <2>7. CASE StartRegisters(c)
    BY <2>7 DEF StartRegisters, Register
  <2>8. CASE ArmTimer(c)
    BY <2>8 DEF ArmTimer
  <2>9. CASE FailStart(c)
    <3>1. ASSUME NEW g \in games' \cup pending'
          PROVE  ~BeingStopped(g)'
      <4>1. g \in games \cup pending /\ ~BeingStopped(g)
        BY <2>9 DEF FailStart
      <4>2. cpc'[c] = "failing" => g # cur[c]
        BY <2>9 DEF FailStart
      <4> QED
        BY <2>9, <4>1, <4>2 DEF FailStart
    <3> QED
      BY <2>9, <3>1 DEF FailStart
  <2>10. CASE FailStartReply(c)
    BY <2>10 DEF FailStartReply, StopMisses
  <2>11. ASSUME NEW g \in Gids, StopFindsChild(c, g)
        PROVE  LiveGames'
    BY <2>11 DEF StopFindsChild, StopFinds
  <2> QED
    BY <1>1, <2>1, <2>2, <2>3, <2>4, <2>5, <2>6, <2>7, <2>8, <2>9, <2>10, <2>11
       DEF ConnStep
<1>2. ASSUME NEW c \in Clients, ClientStep(c)
     PROVE  LiveGames'
  <2>1. ASSUME NEW a \in Accounts, HandleAuth(c, a)
       PROVE  LiveGames'
    BY <2>1 DEF HandleAuth, Reading
  <2>2. CASE Leave(c)
    <3>1. ASSUME NEW g \in games' \cup pending'
          PROVE  ~BeingStopped(g)'
      <4>1. g \in games \cup pending /\ ~BeingStopped(g)
        BY <2>2 DEF Leave
      <4>2. g \notin OwnReady(c) \cup OwnPending(c)
        BY <2>2, OwnTypes DEF Leave
      <4>3. timer'[g] # "failing"
        BY <2>2, <4>1 DEF Leave, StopTimers
      <4> QED
        BY <2>2, <4>1, <4>2, <4>3 DEF Leave
    <3>2. games' \cap pending' = {}
      <4>1. games' \subseteq games /\ pending' \subseteq pending
        BY <2>2 DEF Leave
      <4> QED
        BY <4>1
    <3> QED
      BY <3>1, <3>2
  <2>3. CASE CreateGame(c)
    BY <2>3 DEF CreateGame
  <2>4. CASE JoinCreated(c)
    BY <2>4 DEF JoinCreated
  <2>5. CASE RequestCreateGame(c)
    <3>1. games' \cap pending' = {}
      <4>1. nextGID \in Gids /\ nextGID \notin games
        BY <2>5 DEF RequestCreateGame
      <4>2. games' \subseteq games /\ pending' \subseteq pending \cup {nextGID}
        BY <2>5 DEF RequestCreateGame
      <4> QED
        BY <4>1, <4>2
    <3>2. ASSUME NEW g \in games' \cup pending'
          PROVE  ~BeingStopped(g)'
      <4>1. g \in Gids /\ ~BeingStopped(g)
        BY <2>5 DEF RequestCreateGame
      <4>2. g \notin OwnReady(c) \cup OwnPending(c)
        BY <2>5, OwnTypes DEF RequestCreateGame
      <4>3. timer'[g] # "failing"
        BY <2>5, <4>1 DEF RequestCreateGame, StopTimers
      <4>4. \A d \in Clients : cpc'[d] = "failing" => cpc[d] = "failing" /\ cur'[d] = cur[d]
        BY <2>5 DEF RequestCreateGame
      <4> QED
        BY <2>5, <4>1, <4>2, <4>3, <4>4 DEF RequestCreateGame
    <3> QED
      BY <3>1, <3>2
  <2>6. ASSUME NEW g \in 0 .. MaxGID, NEW s \in PlaceStatuses, SetClientGame(c, g, s)
       PROVE  LiveGames'
    BY <2>6 DEF SetClientGame, Reading
  <2>7. CASE BroadcastClientPresence(c)
    BY <2>7 DEF BroadcastClientPresence, Reading
  <2> QED
    BY <1>2, <2>1, <2>2, <2>3, <2>4, <2>5, <2>6, <2>7 DEF ClientStep
<1>3. ASSUME NEW g \in Gids, TimerStep(g)
     PROVE  LiveGames'
  <2>1. CASE TimerFires(g)
    BY <2>1 DEF TimerFires
  <2>2. CASE FailPending(g)
    BY <2>2 DEF FailPending
  <2>3. CASE FailPendingReply(g)
    BY <2>3 DEF FailPendingReply, StopEnds, StopKills, StopMisses
  <2>4. CASE TimerFinds(g)
    BY <2>4 DEF TimerFinds, StopFinds
  <2> QED
    BY <1>3, <2>1, <2>2, <2>3, <2>4 DEF TimerStep
<1>4. ASSUME NEW g \in Gids, WaiterStep(g)
     PROVE  LiveGames'
  <2>1. CASE WaitReturns(g)
    BY <2>1 DEF WaitReturns, Reap
  <2>2. CASE GameExited(g)
    BY <2>2 DEF GameExited
  <2> QED
    BY <1>4, <2>1, <2>2 DEF WaiterStep
<1>5. ASSUME NEW g \in Gids, ServerStep(g)
     PROVE  LiveGames'
  <2>1. CASE BeginServing(g)
    BY <2>1 DEF BeginServing, Serve
  <2>2. CASE Quit(g)
    BY <2>2 DEF Quit, Datagram, Die, Alive
  <2>3. CASE Crash(g)
    BY <2>3 DEF Crash, Die, Alive
  <2>4. ASSUME NEW r \in Reports, SendHeartBeat(g, r)
       PROVE  LiveGames'
    BY <2>4 DEF SendHeartBeat, Datagram
  <2> QED
    BY <1>5, <2>1, <2>2, <2>3, <2>4 DEF ServerStep
<1>6. ASSUME NEW h \in Heartbeats,
            HeartbeatReady(h) \/ HeartbeatUpdate(h) \/ HeartbeatUnknown(h)
     PROVE  LiveGames'
  <2>1. CASE HeartbeatReady(h)
    BY <2>1 DEF HeartbeatReady, Received, StopTimers, Heartbeats, Games
  <2>2. CASE HeartbeatUpdate(h)
    BY <2>2 DEF HeartbeatUpdate, Received, Heartbeats, Games
  <2>3. CASE HeartbeatUnknown(h)
    BY <2>3 DEF HeartbeatUnknown, Received
  <2> QED
    BY <1>6, <2>1, <2>2, <2>3
<1>7. ASSUME NEW t \in Goroutines, NEW m \in out[t], Deliver(t, m) \/ WriteFails(t, m)
     PROVE  LiveGames'
  <2>1. CASE Deliver(t, m)
    BY <2>1 DEF Deliver
  <2>2. CASE WriteFails(t, m)
    BY <2>2 DEF WriteFails
  <2> QED
    BY <1>7, <2>1, <2>2
<1>8. CASE UNCHANGED vars
  BY <1>8 DEF vars
<1> QED
  BY <1>1, <1>2, <1>3, <1>4, <1>5, <1>6, <1>7, <1>8 DEF Next, OnHeartbeat,
     Write

-----------------------------------------------------------------------------
(* Players and their games.                                                *)

(* Every step keeps the bookkeeping of owners. *)
LEMMA OwnershipStep ==
    ASSUME TypeOK, HandedOut, LiveGames, Ownership, [Next]_vars
    PROVE  Ownership'
<1> USE DEF TypeOK, ProcTypeOK, HandedOut, Ownership, Served, Creating, Gids,
    hubVars, connVars, procVars
<1>1. ASSUME NEW c \in Clients, ConnStep(c)
     PROVE  Ownership'
  <2>1. CASE Join(c)
    BY <2>1 DEF Join
  <2>2. CASE LeaveDone(c)
    <3>1. \A d \in Clients : Served(d)' <=> Served(d)
      BY <2>2 DEF LeaveDone
    <3>2. \A d \in Clients : cpc[d] = "gone" => cpc'[d] = "gone"
      BY <2>2 DEF LeaveDone
    <3>3. UNCHANGED <<clients, asked, acct, info, nextGID, games, pending>>
      BY <2>2 DEF LeaveDone
    <3>4. /\ clients \subseteq Clients
          /\ \A g \in games \cup pending : info[g].owner \in Clients
      BY DEF Games
    <3> QED
      BY ONLY Ownership, <3>1, <3>2, <3>3, <3>4 DEF Ownership
  <2>3. ASSUME NEW g \in Gids, LeaveStop(c, g)
       PROVE  Ownership'
    BY <2>3 DEF LeaveStop, StopEnds, StopKills, StopMisses
  <2>4. ASSUME NEW g \in Gids, CreateStop(c, g)
       PROVE  Ownership'
    BY <2>4 DEF CreateStop, StopEnds, StopKills, StopMisses
  <2>5. CASE StartSpawns(c)
    BY <2>5 DEF StartSpawns, ReadyToStart, Spawn
  <2>6. CASE StartFails(c)
    BY <2>6 DEF StartFails, ReadyToStart
  <2>7. CASE StartRegisters(c)
    BY <2>7 DEF StartRegisters, Register
  <2>8. CASE ArmTimer(c)
    BY <2>8 DEF ArmTimer
  <2>9. CASE FailStart(c)
    BY <2>9 DEF FailStart
  <2>10. CASE FailStartReply(c)
    BY <2>10 DEF FailStartReply, StopMisses
  <2>11. ASSUME NEW g \in Gids, StopFindsChild(c, g)
        PROVE  Ownership'
    BY <2>11 DEF StopFindsChild, StopFinds
  <2> QED
    BY <1>1, <2>1, <2>2, <2>3, <2>4, <2>5, <2>6, <2>7, <2>8, <2>9, <2>10, <2>11
       DEF ConnStep
<1>2. ASSUME NEW c \in Clients, ClientStep(c)
     PROVE  Ownership'
  <2>1. ASSUME NEW a \in Accounts, HandleAuth(c, a)
       PROVE  Ownership'
    BY <2>1 DEF HandleAuth, Reading
  <2>2. CASE Leave(c)
    <3>1. \A d \in Clients : /\ Served(d)' <=> Served(d) /\ d # c
                             /\ cpc[d] = "gone" => cpc'[d] = "gone"
      BY <2>2 DEF Leave, Reading
    <3>2. /\ clients' = clients \ {c} /\ asked' = [asked EXCEPT ![c] = FALSE]
          /\ games' = games \ OwnReady(c) /\ pending' = pending \ OwnPending(c)
          /\ UNCHANGED <<nextGID, info, acct>>
      BY <2>2 DEF Leave
    <3>3. \A g \in games' \cup pending' : Served(info[g].owner)'
      BY <2>2, <3>1, <3>2, LiveIds DEF OwnReady, OwnPending
    <3> HIDE DEF Served
    <3> QED
      BY <3>1, <3>2, <3>3
  <2>3. CASE CreateGame(c)
    BY <2>3 DEF CreateGame
  <2>4. CASE JoinCreated(c)
    BY <2>4 DEF JoinCreated
  <2>5. CASE RequestCreateGame(c)
    BY <2>5, OwnTypes DEF RequestCreateGame, Reading, StopTimers
  <2>6. ASSUME NEW g \in 0 .. MaxGID, NEW s \in PlaceStatuses, SetClientGame(c, g, s)
       PROVE  Ownership'
    BY <2>6 DEF SetClientGame, Reading
  <2>7. CASE BroadcastClientPresence(c)
    BY <2>7 DEF BroadcastClientPresence, Reading
  <2> QED
    BY <1>2, <2>1, <2>2, <2>3, <2>4, <2>5, <2>6, <2>7 DEF ClientStep
<1>3. ASSUME NEW g \in Gids, TimerStep(g)
     PROVE  Ownership'
  <2>1. CASE TimerFires(g)
    BY <2>1 DEF TimerFires
  <2>2. CASE FailPending(g)
    BY <2>2 DEF FailPending
  <2>3. CASE FailPendingReply(g)
    BY <2>3 DEF FailPendingReply, StopEnds, StopKills, StopMisses
  <2>4. CASE TimerFinds(g)
    BY <2>4 DEF TimerFinds, StopFinds
  <2> QED
    BY <1>3, <2>1, <2>2, <2>3, <2>4 DEF TimerStep
<1>4. ASSUME NEW g \in Gids, WaiterStep(g)
     PROVE  Ownership'
  <2>1. CASE WaitReturns(g)
    BY <2>1 DEF WaitReturns, Reap
  <2>2. CASE GameExited(g)
    BY <2>2 DEF GameExited
  <2> QED
    BY <1>4, <2>1, <2>2 DEF WaiterStep
<1>5. ASSUME NEW g \in Gids, ServerStep(g)
     PROVE  Ownership'
  <2>1. CASE BeginServing(g)
    BY <2>1 DEF BeginServing, Serve
  <2>2. CASE Quit(g)
    BY <2>2 DEF Quit, Datagram, Die, Alive
  <2>3. CASE Crash(g)
    BY <2>3 DEF Crash, Die, Alive
  <2>4. ASSUME NEW r \in Reports, SendHeartBeat(g, r)
       PROVE  Ownership'
    BY <2>4 DEF SendHeartBeat, Datagram
  <2> QED
    BY <1>5, <2>1, <2>2, <2>3, <2>4 DEF ServerStep
<1>6. ASSUME NEW h \in Heartbeats,
            HeartbeatReady(h) \/ HeartbeatUpdate(h) \/ HeartbeatUnknown(h)
     PROVE  Ownership'
  <2>1. CASE HeartbeatReady(h)
    BY SMTT(40), <2>1
       DEF HeartbeatReady, Received, StopTimers, Heartbeats, Games
  <2>2. CASE HeartbeatUpdate(h)
    BY SMTT(40), <2>2 DEF HeartbeatUpdate, Received, Heartbeats, Games
  <2>3. CASE HeartbeatUnknown(h)
    BY <2>3 DEF HeartbeatUnknown, Received
  <2> QED
    BY <1>6, <2>1, <2>2, <2>3
<1>7. ASSUME NEW t \in Goroutines, NEW m \in out[t], Deliver(t, m) \/ WriteFails(t, m)
     PROVE  Ownership'
  <2>1. CASE Deliver(t, m)
    <3>1. UNCHANGED <<hubVars, connVars, asked>>
      BY <2>1 DEF Deliver
    <3> QED
      BY <3>1
  <2>2. CASE WriteFails(t, m)
    BY <2>2 DEF WriteFails
  <2> QED
    BY <1>7, <2>1, <2>2
<1>8. CASE UNCHANGED vars
  BY <1>8 DEF vars
<1> QED
  BY <1>1, <1>2, <1>3, <1>4, <1>5, <1>6, <1>7, <1>8 DEF Next, OnHeartbeat,
     Write

(* Every step leaves each player at most one game. *)
LEMMA OneGameStep ==
    ASSUME TypeOK, HandedOut, LiveGames, Ownership, OneGamePerPlayer, [Next]_vars
    PROVE  OneGamePerPlayer'
<1> USE DEF TypeOK, OneGamePerPlayer, hubVars, connVars, procVars
<1>1. ASSUME NEW c \in Clients, ConnStep(c)
     PROVE  OneGamePerPlayer'
  <2>1. CASE Join(c)
    BY <2>1 DEF Join
  <2>2. CASE LeaveDone(c)
    BY <2>2 DEF LeaveDone
  <2>3. ASSUME NEW g \in Gids, LeaveStop(c, g)
       PROVE  OneGamePerPlayer'
    BY <2>3 DEF LeaveStop, StopEnds, StopKills, StopMisses
  <2>4. ASSUME NEW g \in Gids, CreateStop(c, g)
       PROVE  OneGamePerPlayer'
    BY <2>4 DEF CreateStop, StopEnds, StopKills, StopMisses
  <2>5. CASE StartSpawns(c)
    BY <2>5 DEF StartSpawns, ReadyToStart, Spawn
  <2>6. CASE StartFails(c)
    BY <2>6 DEF StartFails, ReadyToStart
  <2>7. CASE StartRegisters(c)
    BY <2>7 DEF StartRegisters, Register
  <2>8. CASE ArmTimer(c)
    BY <2>8 DEF ArmTimer
  <2>9. CASE FailStart(c)
    BY <2>9 DEF FailStart
  <2>10. CASE FailStartReply(c)
    BY <2>10 DEF FailStartReply, StopMisses
  <2>11. ASSUME NEW g \in Gids, StopFindsChild(c, g)
        PROVE  OneGamePerPlayer'
    BY <2>11 DEF StopFindsChild, StopFinds
  <2> QED
    BY <1>1, <2>1, <2>2, <2>3, <2>4, <2>5, <2>6, <2>7, <2>8, <2>9, <2>10, <2>11
       DEF ConnStep
<1>2. ASSUME NEW c \in Clients, ClientStep(c)
     PROVE  OneGamePerPlayer'
  <2>1. ASSUME NEW a \in Accounts, HandleAuth(c, a)
       PROVE  OneGamePerPlayer'
    BY <2>1 DEF HandleAuth, Reading
  <2>2. CASE Leave(c)
    BY <2>2, OwnTypes DEF Leave, Reading, StopTimers
  <2>3. CASE CreateGame(c)
    BY <2>3 DEF CreateGame
  <2>4. CASE JoinCreated(c)
    BY <2>4 DEF JoinCreated
  <2>5. CASE RequestCreateGame(c)
    <3>1. SUFFICES ASSUME ~OverlappingSessions, NEW g \in games' \cup pending',
                          NEW k \in games' \cup pending',
                          info'[g].account = info'[k].account, g # k
                   PROVE  FALSE
      OBVIOUS
    <3>2. ASSUME NEW i \in games' \cup pending', i # nextGID
          PROVE  i \in games \cup pending /\ info'[i] = info[i] /\ info[i].account # acct[c]
      <4>1. /\ i \in games \cup pending
            /\ i \notin OwnReady(c) \cup OwnPending(c)
            /\ info'[i] = info[i]
        <5>1. info'[i] = info[i]
          BY <2>5, <3>2 DEF RequestCreateGame
        <5>2. i \in games \ OwnReady(c) \/ i \in pending \ OwnPending(c)
          BY <2>5, <3>2 DEF RequestCreateGame
        <5>3. games \cap pending = {}
          BY DEF LiveGames
        <5> QED
          BY <5>1, <5>2, <5>3, OwnTypes
      <4>2. i \in Gids /\ i < nextGID
        BY <4>1, LiveIds
      <4>3. info[i].owner \in Clients /\ cpc[info[i].owner] # "gone"
        BY <4>1, <4>2 DEF HandedOut, Ownership, Served
      <4>4. info[i].account = acct[info[i].owner] /\ acct[info[i].owner] # NoAccount
        BY <4>2 DEF Ownership
      <4>5. cpc[c] # "gone"
        BY <2>5 DEF RequestCreateGame, Reading
      <4>6. CASE info[i].owner = c
        BY <4>1, <4>4, <4>6 DEF OwnReady, OwnPending
      <4>7. CASE info[i].owner # c
        BY <3>1, <4>1, <4>3, <4>4, <4>5, <4>7, OneSession
      <4> QED
        BY <4>6, <4>7
    <3>3. info'[nextGID].account = acct[c]
      BY <2>5 DEF RequestCreateGame
    <3>4. g # nextGID /\ k # nextGID
      BY <3>1, <3>2, <3>3
    <3> QED
      BY <3>1, <3>2, <3>4
  <2>6. ASSUME NEW g \in 0 .. MaxGID, NEW s \in PlaceStatuses, SetClientGame(c, g, s)
       PROVE  OneGamePerPlayer'
    BY <2>6 DEF SetClientGame, Reading
  <2>7. CASE BroadcastClientPresence(c)
    BY <2>7 DEF BroadcastClientPresence, Reading
  <2> QED
    BY <1>2, <2>1, <2>2, <2>3, <2>4, <2>5, <2>6, <2>7 DEF ClientStep
<1>3. ASSUME NEW g \in Gids, TimerStep(g)
     PROVE  OneGamePerPlayer'
  <2>1. CASE TimerFires(g)
    BY <2>1 DEF TimerFires
  <2>2. CASE FailPending(g)
    BY <2>2 DEF FailPending
  <2>3. CASE FailPendingReply(g)
    BY <2>3 DEF FailPendingReply, StopEnds, StopKills, StopMisses
  <2>4. CASE TimerFinds(g)
    BY <2>4 DEF TimerFinds, StopFinds
  <2> QED
    BY <1>3, <2>1, <2>2, <2>3, <2>4 DEF TimerStep
<1>4. ASSUME NEW g \in Gids, WaiterStep(g)
     PROVE  OneGamePerPlayer'
  <2>1. CASE WaitReturns(g)
    BY <2>1 DEF WaitReturns, Reap
  <2>2. CASE GameExited(g)
    BY <2>2 DEF GameExited
  <2> QED
    BY <1>4, <2>1, <2>2 DEF WaiterStep
<1>5. ASSUME NEW g \in Gids, ServerStep(g)
     PROVE  OneGamePerPlayer'
  <2>1. CASE BeginServing(g)
    BY <2>1 DEF BeginServing, Serve
  <2>2. CASE Quit(g)
    BY <2>2 DEF Quit, Datagram, Die, Alive
  <2>3. CASE Crash(g)
    BY <2>3 DEF Crash, Die, Alive
  <2>4. ASSUME NEW r \in Reports, SendHeartBeat(g, r)
       PROVE  OneGamePerPlayer'
    BY <2>4 DEF SendHeartBeat, Datagram
  <2> QED
    BY <1>5, <2>1, <2>2, <2>3, <2>4 DEF ServerStep
<1>6. ASSUME NEW h \in Heartbeats,
            HeartbeatReady(h) \/ HeartbeatUpdate(h) \/ HeartbeatUnknown(h)
     PROVE  OneGamePerPlayer'
  <2>1. CASE HeartbeatReady(h)
    BY <2>1 DEF HeartbeatReady, Received, StopTimers, Heartbeats, Games
  <2>2. CASE HeartbeatUpdate(h)
    BY <2>2 DEF HeartbeatUpdate, Received, Heartbeats, Games
  <2>3. CASE HeartbeatUnknown(h)
    BY <2>3 DEF HeartbeatUnknown, Received
  <2> QED
    BY <1>6, <2>1, <2>2, <2>3
<1>7. ASSUME NEW t \in Goroutines, NEW m \in out[t], Deliver(t, m) \/ WriteFails(t, m)
     PROVE  OneGamePerPlayer'
  <2>1. CASE Deliver(t, m)
    BY <2>1 DEF Deliver
  <2>2. CASE WriteFails(t, m)
    BY <2>2 DEF WriteFails
  <2> QED
    BY <1>7, <2>1, <2>2
<1>8. CASE UNCHANGED vars
  BY <1>8 DEF vars
<1> QED
  BY <1>1, <1>2, <1>3, <1>4, <1>5, <1>6, <1>7, <1>8 DEF Next, OnHeartbeat,
     Write

-----------------------------------------------------------------------------
(* The children of the lobby.                                              *)

(* Every step leaves a game being started to the goroutine that starts it. *)
LEMMA ChildrenStep ==
    ASSUME TypeOK, HandedOut, StopsHeld, StartUntouched, ProcsKnown, [Next]_vars
    PROVE  (StopsHeld /\ StartUntouched /\ ProcsKnown)'
<1> USE DEF TypeOK, ProcTypeOK, HandedOut, StopsHeld, StartUntouched,
    ProcsKnown, Starting, Alive, Creating, Gids, hubVars, connVars, procVars
<1>1. ASSUME NEW c \in Clients, ConnStep(c)
     PROVE  (StopsHeld /\ StartUntouched /\ ProcsKnown)'
  <2>1. CASE Join(c)
    BY <2>1 DEF Join
  <2>2. CASE LeaveDone(c)
    BY <2>2 DEF LeaveDone
  <2>3. ASSUME NEW g \in Gids, LeaveStop(c, g)
       PROVE  (StopsHeld /\ StartUntouched /\ ProcsKnown)'
    BY <2>3 DEF LeaveStop, StopEnds, StopKills, StopMisses
  <2>4. ASSUME NEW g \in Gids, CreateStop(c, g)
       PROVE  (StopsHeld /\ StartUntouched /\ ProcsKnown)'
    BY <2>4 DEF CreateStop, StopEnds, StopKills, StopMisses
  <2>5. CASE StartSpawns(c)
    <3>1. cur[c] \in Gids /\ \A d \in Clients \ {c} : cur[d] # cur[c]
      BY <2>5, CurUnique DEF StartSpawns, ReadyToStart
    <3>2. StopsHeld'
      BY <2>5 DEF StartSpawns, ReadyToStart
    <3>3. StartUntouched'
      BY <2>5, <3>1 DEF StartSpawns, ReadyToStart, Spawn
    <3>4. ProcsKnown'
      BY <2>5, <3>1 DEF StartSpawns, ReadyToStart, Spawn
    <3> QED
      BY <3>2, <3>3, <3>4
  <2>6. CASE StartFails(c)
    BY <2>6 DEF StartFails, ReadyToStart
  <2>7. CASE StartRegisters(c)
    <3>1. cur[c] \in Gids /\ \A d \in Clients \ {c} : cur[d] # cur[c]
      BY <2>7, CurUnique DEF StartRegisters
    <3>2. StopsHeld'
      BY <2>7 DEF StartRegisters
    <3>3. StartUntouched'
      BY <2>7, <3>1 DEF StartRegisters, Register
    <3>4. ProcsKnown'
      BY <2>7, <3>1 DEF StartRegisters, Register
    <3> QED
      BY <3>2, <3>3, <3>4
  <2>8. CASE ArmTimer(c)
    <3>1. cur[c] \in Gids /\ \A d \in Clients \ {c} : cur[d] # cur[c]
      BY <2>8, CurUnique DEF ArmTimer
    <3>2. StopsHeld'
      BY <2>8 DEF ArmTimer
    <3>3. StartUntouched'
      BY <2>8, <3>1 DEF ArmTimer
    <3>4. ProcsKnown'
      BY <2>8, <3>1 DEF ArmTimer
    <3> QED
      BY <3>2, <3>3, <3>4
  <2>9. CASE FailStart(c)
    BY <2>9 DEF FailStart
  <2>10. CASE FailStartReply(c)
    BY <2>10 DEF FailStartReply, StopMisses
  <2>11. ASSUME NEW g \in Gids, StopFindsChild(c, g)
        PROVE  (StopsHeld /\ StartUntouched /\ ProcsKnown)'
    BY <2>11 DEF StopFindsChild, StopFinds
  <2> QED
    BY <1>1, <2>1, <2>2, <2>3, <2>4, <2>5, <2>6, <2>7, <2>8, <2>9, <2>10, <2>11
       DEF ConnStep
<1>2. ASSUME NEW c \in Clients, ClientStep(c)
     PROVE  (StopsHeld /\ StartUntouched /\ ProcsKnown)'
  <2>1. ASSUME NEW a \in Accounts, HandleAuth(c, a)
       PROVE  (StopsHeld /\ StartUntouched /\ ProcsKnown)'
    BY <2>1 DEF HandleAuth, Reading
  <2>2. CASE Leave(c)
    BY <2>2, OwnTypes DEF Leave, Reading, StopTimers
  <2>3. CASE CreateGame(c)
    BY <2>3 DEF CreateGame
  <2>4. CASE JoinCreated(c)
    BY <2>4 DEF JoinCreated
  <2>5. CASE RequestCreateGame(c)
    <3>1. StopsHeld' /\ ProcsKnown'
      BY <2>5 DEF RequestCreateGame, Reading
    <3>2. \A k \in Gids : timer[k] = "unset" => timer'[k] = "unset"
      BY <2>5 DEF RequestCreateGame, StopTimers
    <3>3. StartUntouched'
      BY <2>5, <3>2 DEF RequestCreateGame, Reading
    <3> QED
      BY <3>1, <3>3
  <2>6. ASSUME NEW g \in 0 .. MaxGID, NEW s \in PlaceStatuses, SetClientGame(c, g, s)
       PROVE  (StopsHeld /\ StartUntouched /\ ProcsKnown)'
    BY <2>6 DEF SetClientGame, Reading
  <2>7. CASE BroadcastClientPresence(c)
    BY <2>7 DEF BroadcastClientPresence, Reading
  <2> QED
    BY <1>2, <2>1, <2>2, <2>3, <2>4, <2>5, <2>6, <2>7 DEF ClientStep
<1>3. ASSUME NEW g \in Gids, TimerStep(g)
     PROVE  (StopsHeld /\ StartUntouched /\ ProcsKnown)'
  <2>1. CASE TimerFires(g)
    BY <2>1 DEF TimerFires
  <2>2. CASE FailPending(g)
    BY <2>2 DEF FailPending
  <2>3. CASE FailPendingReply(g)
    BY <2>3 DEF FailPendingReply, StopEnds, StopKills, StopMisses
  <2>4. CASE TimerFinds(g)
    BY <2>4 DEF TimerFinds, StopFinds
  <2> QED
    BY <1>3, <2>1, <2>2, <2>3, <2>4 DEF TimerStep
<1>4. ASSUME NEW g \in Gids, WaiterStep(g)
     PROVE  (StopsHeld /\ StartUntouched /\ ProcsKnown)'
  <2>1. CASE WaitReturns(g)
    BY <2>1 DEF WaitReturns, Reap
  <2>2. CASE GameExited(g)
    BY <2>2 DEF GameExited
  <2> QED
    BY <1>4, <2>1, <2>2 DEF WaiterStep
<1>5. ASSUME NEW g \in Gids, ServerStep(g)
     PROVE  (StopsHeld /\ StartUntouched /\ ProcsKnown)'
  <2>1. CASE BeginServing(g)
    BY <2>1 DEF BeginServing, Serve
  <2>2. CASE Quit(g)
    BY <2>2 DEF Quit, Datagram, Die
  <2>3. CASE Crash(g)
    BY <2>3 DEF Crash, Die
  <2>4. ASSUME NEW r \in Reports, SendHeartBeat(g, r)
       PROVE  (StopsHeld /\ StartUntouched /\ ProcsKnown)'
    BY <2>4 DEF SendHeartBeat, Datagram
  <2> QED
    BY <1>5, <2>1, <2>2, <2>3, <2>4 DEF ServerStep
<1>6. ASSUME NEW h \in Heartbeats,
            HeartbeatReady(h) \/ HeartbeatUpdate(h) \/ HeartbeatUnknown(h)
     PROVE  (StopsHeld /\ StartUntouched /\ ProcsKnown)'
  <2>1. CASE HeartbeatReady(h)
    BY <2>1 DEF HeartbeatReady, Received, StopTimers, Heartbeats, Games
  <2>2. CASE HeartbeatUpdate(h)
    BY <2>2 DEF HeartbeatUpdate, Received, Heartbeats, Games
  <2>3. CASE HeartbeatUnknown(h)
    BY <2>3 DEF HeartbeatUnknown, Received
  <2> QED
    BY <1>6, <2>1, <2>2, <2>3
<1>7. ASSUME NEW t \in Goroutines, NEW m \in out[t], Deliver(t, m) \/ WriteFails(t, m)
     PROVE  (StopsHeld /\ StartUntouched /\ ProcsKnown)'
  <2>1. CASE Deliver(t, m)
    BY <2>1 DEF Deliver
  <2>2. CASE WriteFails(t, m)
    BY <2>2 DEF WriteFails
  <2> QED
    BY <1>7, <2>1, <2>2
<1>8. CASE UNCHANGED vars
  BY <1>8 DEF vars
<1> QED
  BY <1>1, <1>2, <1>3, <1>4, <1>5, <1>6, <1>7, <1>8 DEF Next, OnHeartbeat,
     Write

(* Every step keeps every live child in procs or about to enter it. *)
LEMMA NoStrayStep ==
    ASSUME TypeOK, HandedOut, LiveGames, Ownership, Children, [Next]_vars
    PROVE  NoStray'
<1> USE DEF TypeOK, ProcTypeOK, HandedOut, NoStray, Children, StartUntouched,
    Starting, Alive, Creating, Gids, hubVars, connVars, procVars
<1>1. ASSUME NEW c \in Clients, ConnStep(c)
     PROVE  NoStray'
  <2>1. CASE Join(c)
    BY <2>1 DEF Join
  <2>2. CASE LeaveDone(c)
    BY <2>2 DEF LeaveDone
  <2>3. ASSUME NEW g \in Gids, LeaveStop(c, g)
       PROVE  NoStray'
    BY <2>3 DEF LeaveStop, StopEnds, StopKills, StopMisses
  <2>4. ASSUME NEW g \in Gids, CreateStop(c, g)
       PROVE  NoStray'
    <3>1. games' = games /\ pending' = pending /\ cpc' = cpc /\ cur' = cur
      BY <2>4 DEF CreateStop
    <3>2. ASSUME NEW k \in Gids, Alive(k)'
          PROVE  Alive(k) /\ (k \in procs \cup doomed => k \in procs' \cup doomed')
      BY <2>4, <3>2 DEF CreateStop, StopEnds, StopKills, StopMisses
    <3> QED
      BY <3>1, <3>2
  <2>5. CASE StartSpawns(c)
    BY <2>5 DEF StartSpawns, ReadyToStart, Spawn
  <2>6. CASE StartFails(c)
    BY <2>6 DEF StartFails, ReadyToStart
  <2>7. CASE StartRegisters(c)
    BY <2>7 DEF StartRegisters, Register
  <2>8. CASE ArmTimer(c)
    BY <2>8 DEF ArmTimer
  <2>9. CASE FailStart(c)
    <3>1. ASSUME ~OverlappingSessions, NEW d \in Clients, NEW k \in Gids, Starting(d, k)'
          PROVE  k \in games' \cup pending'
      <4>1. d # c /\ Starting(d, k)
        BY <2>9, <3>1 DEF FailStart
      <4>2. k # cur[c]
        BY <4>1, CurUnique
      <4> QED
        BY <2>9, <3>1, <4>1, <4>2 DEF FailStart
    <3>2. ASSUME ~OverlappingSessions, NEW k \in Gids, Alive(k)'
          PROVE  \/ k \in procs' \cup doomed'
                 \/ \E d \in Clients : cpc'[d] = "spawned" /\ cur'[d] = k
      <4>1. k \in procs \cup doomed \/ \E d \in Clients : cpc[d] = "spawned" /\ cur[d] = k
        BY <2>9, <3>2 DEF FailStart
      <4> QED
        BY <2>9, <4>1 DEF FailStart
    <3> QED
      BY <3>1, <3>2
  <2>10. CASE FailStartReply(c)
    BY <2>10 DEF FailStartReply, StopMisses
  <2>11. ASSUME NEW g \in Gids, StopFindsChild(c, g)
        PROVE  NoStray'
    BY <2>11 DEF StopFindsChild, StopFinds
  <2> QED
    BY <1>1, <2>1, <2>2, <2>3, <2>4, <2>5, <2>6, <2>7, <2>8, <2>9, <2>10, <2>11
       DEF ConnStep
<1>2. ASSUME NEW c \in Clients, ClientStep(c)
     PROVE  NoStray'
  <2>1. ASSUME NEW a \in Accounts, HandleAuth(c, a)
       PROVE  NoStray'
    BY <2>1 DEF HandleAuth, Reading
  <2>2. CASE Leave(c)
    <3>1. ASSUME ~OverlappingSessions, NEW d \in Clients, NEW k \in Gids, Starting(d, k)'
          PROVE  k \in games' \cup pending'
      <4>1. CASE d # c
        <5>1. Starting(d, k) /\ k \in games \cup pending
          BY <2>2, <3>1, <4>1 DEF Leave, Reading
        <5>2. info[k].owner = d /\ info[k].account = acct[d] /\ acct[d] # NoAccount
          <6>1. k = cur[d] /\ k > 0 /\ k < nextGID /\ info[k].owner = d
            BY <5>1
          <6> QED
            BY <6>1 DEF Ownership
        <5>3. cpc[d] # "gone" /\ cpc[c] # "gone"
          BY <2>2, <5>1 DEF Leave, Reading
        <5>4. acct[d] # acct[c]
          BY <3>1, <4>1, <5>2, <5>3, OneSession
        <5>5. k \notin OwnReady(c) \cup OwnPending(c)
          BY <4>1, <5>2, <5>4 DEF OwnReady, OwnPending
        <5> QED
          BY <2>2, <5>1, <5>5 DEF Leave
      <4>2. CASE d = c
        BY <2>2, <3>1, <4>2 DEF Leave
      <4> QED
        BY <4>1, <4>2
    <3>2. ASSUME ~OverlappingSessions, NEW k \in Gids, Alive(k)'
          PROVE  \/ k \in procs' \cup doomed'
                 \/ \E d \in Clients : cpc'[d] = "spawned" /\ cur'[d] = k
      <4>1. k \in procs \cup doomed \/ \E d \in Clients : cpc[d] = "spawned" /\ cur[d] = k
        BY <2>2, <3>2 DEF Leave
      <4> QED
        BY <2>2, <4>1 DEF Leave, Reading
    <3> QED
      BY <3>1, <3>2
  <2>3. CASE CreateGame(c)
    BY <2>3 DEF CreateGame
  <2>4. CASE JoinCreated(c)
    BY <2>4 DEF JoinCreated
  <2>5. CASE RequestCreateGame(c)
    <3>1. ASSUME ~OverlappingSessions, NEW d \in Clients, NEW k \in Gids, Starting(d, k)'
          PROVE  k \in games' \cup pending'
      <4>1. CASE d # c
        <5>1. Starting(d, k) /\ k \in games \cup pending
          BY <2>5, <3>1, <4>1 DEF RequestCreateGame, Reading
        <5>2. info[k].owner = d /\ info[k].account = acct[d] /\ acct[d] # NoAccount
          <6>1. k = cur[d] /\ k > 0 /\ k < nextGID /\ info[k].owner = d
            BY <5>1
          <6> QED
            BY <6>1 DEF Ownership
        <5>3. cpc[d] # "gone" /\ cpc[c] # "gone"
          BY <2>5, <5>1 DEF RequestCreateGame, Reading
        <5>4. acct[d] # acct[c]
          BY <3>1, <4>1, <5>2, <5>3, OneSession
        <5>5. k \notin OwnReady(c) \cup OwnPending(c)
          BY <4>1, <5>2, <5>4 DEF OwnReady, OwnPending
        <5> QED
          BY <2>5, <5>1, <5>5 DEF RequestCreateGame
      <4>2. CASE d = c
        BY <2>5, <3>1, <4>2 DEF RequestCreateGame
      <4> QED
        BY <4>1, <4>2
    <3>2. ASSUME ~OverlappingSessions, NEW k \in Gids, Alive(k)'
          PROVE  \/ k \in procs' \cup doomed'
                 \/ \E d \in Clients : cpc'[d] = "spawned" /\ cur'[d] = k
      <4>1. k \in procs \cup doomed \/ \E d \in Clients : cpc[d] = "spawned" /\ cur[d] = k
        BY <2>5, <3>2 DEF RequestCreateGame
      <4> QED
        BY <2>5, <4>1 DEF RequestCreateGame, Reading
    <3> QED
      BY <3>1, <3>2
  <2>6. ASSUME NEW g \in 0 .. MaxGID, NEW s \in PlaceStatuses, SetClientGame(c, g, s)
       PROVE  NoStray'
    BY <2>6 DEF SetClientGame, Reading
  <2>7. CASE BroadcastClientPresence(c)
    BY <2>7 DEF BroadcastClientPresence, Reading
  <2> QED
    BY <1>2, <2>1, <2>2, <2>3, <2>4, <2>5, <2>6, <2>7 DEF ClientStep
<1>3. ASSUME NEW g \in Gids, TimerStep(g)
     PROVE  NoStray'
  <2>1. CASE TimerFires(g)
    BY <2>1 DEF TimerFires
  <2>2. CASE FailPending(g)
    <3>1. ASSUME ~OverlappingSessions, NEW d \in Clients, NEW k \in Gids, Starting(d, k)'
          PROVE  k \in games' \cup pending'
      <4>1. Starting(d, k) /\ timer[k] = "unset"
        BY <2>2, <3>1 DEF FailPending
      <4> QED
        BY <2>2, <3>1, <4>1 DEF FailPending
    <3>2. ASSUME ~OverlappingSessions, NEW k \in Gids, Alive(k)'
          PROVE  \/ k \in procs' \cup doomed'
                 \/ \E d \in Clients : cpc'[d] = "spawned" /\ cur'[d] = k
      BY <2>2, <3>2 DEF FailPending
    <3> QED
      BY <3>1, <3>2
  <2>3. CASE FailPendingReply(g)
    BY <2>3 DEF FailPendingReply, StopEnds, StopKills, StopMisses
  <2>4. CASE TimerFinds(g)
    BY <2>4 DEF TimerFinds, StopFinds
  <2> QED
    BY <1>3, <2>1, <2>2, <2>3, <2>4 DEF TimerStep
<1>4. ASSUME NEW g \in Gids, WaiterStep(g)
     PROVE  NoStray'
  <2>1. CASE WaitReturns(g)
    BY <2>1 DEF WaitReturns, Reap
  <2>2. CASE GameExited(g)
    <3>1. ASSUME ~OverlappingSessions, NEW d \in Clients, NEW k \in Gids, Starting(d, k)'
          PROVE  k \in games' \cup pending'
      <4>1. Starting(d, k) /\ waiter[k] = "none"
        BY <2>2, <3>1 DEF GameExited
      <4> QED
        BY <2>2, <3>1, <4>1 DEF GameExited
    <3>2. ASSUME ~OverlappingSessions, NEW k \in Gids, Alive(k)'
          PROVE  \/ k \in procs' \cup doomed'
                 \/ \E d \in Clients : cpc'[d] = "spawned" /\ cur'[d] = k
      BY <2>2, <3>2 DEF GameExited
    <3> QED
      BY <3>1, <3>2
  <2> QED
    BY <1>4, <2>1, <2>2 DEF WaiterStep
<1>5. ASSUME NEW g \in Gids, ServerStep(g)
     PROVE  NoStray'
  <2>1. CASE BeginServing(g)
    BY <2>1 DEF BeginServing, Serve
  <2>2. CASE Quit(g)
    BY <2>2 DEF Quit, Datagram, Die
  <2>3. CASE Crash(g)
    BY <2>3 DEF Crash, Die
  <2>4. ASSUME NEW r \in Reports, SendHeartBeat(g, r)
       PROVE  NoStray'
    BY <2>4 DEF SendHeartBeat, Datagram
  <2> QED
    BY <1>5, <2>1, <2>2, <2>3, <2>4 DEF ServerStep
<1>6. ASSUME NEW h \in Heartbeats,
            HeartbeatReady(h) \/ HeartbeatUpdate(h) \/ HeartbeatUnknown(h)
     PROVE  NoStray'
  <2>1. CASE HeartbeatReady(h)
    BY <2>1 DEF HeartbeatReady, Received, StopTimers, Heartbeats, Games
  <2>2. CASE HeartbeatUpdate(h)
    BY <2>2 DEF HeartbeatUpdate, Received, Heartbeats, Games
  <2>3. CASE HeartbeatUnknown(h)
    BY <2>3 DEF HeartbeatUnknown, Received
  <2> QED
    BY <1>6, <2>1, <2>2, <2>3
<1>7. ASSUME NEW t \in Goroutines, NEW m \in out[t], Deliver(t, m) \/ WriteFails(t, m)
     PROVE  NoStray'
  <2>1. CASE Deliver(t, m)
    BY <2>1 DEF Deliver
  <2>2. CASE WriteFails(t, m)
    BY <2>2 DEF WriteFails
  <2> QED
    BY <1>7, <2>1, <2>2
<1>8. CASE UNCHANGED vars
  BY <1>8 DEF vars
<1> QED
  BY <1>1, <1>2, <1>3, <1>4, <1>5, <1>6, <1>7, <1>8 DEF Next, OnHeartbeat,
     Write

(* Every step leaves every live child a game or a goroutine that stops it. *)
LEMMA NotLostStep ==
    ASSUME TypeOK, HandedOut, LiveGames, Children, NotLost, [Next]_vars
    PROVE  NotLost'
<1> USE DEF TypeOK, ProcTypeOK, HandedOut, NotLost, Alive, Creating, Gids,
    hubVars, connVars, procVars
<1>1. ASSUME NEW c \in Clients, ConnStep(c)
     PROVE  NotLost'
  <2>1. CASE Join(c)
    BY <2>1 DEF Join, BeingStopped
  <2>2. CASE LeaveDone(c)
    BY <2>2 DEF LeaveDone, BeingStopped
  <2>3. ASSUME NEW g \in Gids, LeaveStop(c, g)
       PROVE  NotLost'
    <3>1. ASSUME ~OverlappingSessions, NEW k \in Gids, Alive(k)'
          PROVE  k \in games' \cup pending' \/ BeingStopped(k)'
      <4>1. Alive(k)
        BY <2>3, <3>1 DEF LeaveStop, StopEnds, StopKills, StopMisses
      <4>2. k \in games \cup pending \/ BeingStopped(k)
        BY <3>1, <4>1
      <4>3. CASE k \in games \cup pending
        BY <2>3, <4>3 DEF LeaveStop
      <4>4. CASE BeingStopped(k)
        <5>1. k \in procs \cup doomed
          BY <3>1, <4>1, <4>4, StoppedInHand
        <5>2. k # g
          BY <2>3, <3>1, <5>1 DEF LeaveStop, StopEnds, StopKills, StopMisses
        <5> QED
          BY <2>3, <4>4, <5>2 DEF LeaveStop, BeingStopped
      <4> QED
        BY <4>2, <4>3, <4>4
    <3> QED
      BY <3>1
  <2>4. ASSUME NEW g \in Gids, CreateStop(c, g)
       PROVE  NotLost'
    <3>1. ASSUME ~OverlappingSessions, NEW k \in Gids, Alive(k)'
          PROVE  k \in games' \cup pending' \/ BeingStopped(k)'
      <4>1. Alive(k)
        BY <2>4, <3>1 DEF CreateStop, StopEnds, StopKills, StopMisses
      <4>2. k \in games \cup pending \/ BeingStopped(k)
        BY <3>1, <4>1
      <4>3. CASE k \in games \cup pending
        BY <2>4, <4>3 DEF CreateStop
      <4>4. CASE BeingStopped(k)
        <5>1. k \in procs \cup doomed
          BY <3>1, <4>1, <4>4, StoppedInHand
        <5>2. k # g
          BY <2>4, <3>1, <5>1 DEF CreateStop, StopEnds, StopKills, StopMisses
        <5> QED
          BY <2>4, <4>4, <5>2 DEF CreateStop, BeingStopped
      <4> QED
        BY <4>2, <4>3, <4>4
    <3> QED
      BY <3>1
  <2>5. CASE StartSpawns(c)
    <3>1. ASSUME ~OverlappingSessions, NEW k \in Gids, Alive(k)'
          PROVE  k \in games' \cup pending' \/ BeingStopped(k)'
      <4>1. CASE k = cur[c]
        BY <2>5, <3>1, <4>1 DEF StartSpawns, ReadyToStart, Children, NoStray, Starting
      <4>2. CASE k # cur[c]
        <5>1. Alive(k)
          BY <2>5, <3>1, <4>2 DEF StartSpawns, Spawn
        <5>2. k \in games \cup pending \/ BeingStopped(k)
          BY <3>1, <5>1
        <5> QED
          BY <2>5, <5>2 DEF StartSpawns, ReadyToStart, BeingStopped
      <4> QED
        BY <4>1, <4>2
    <3> QED
      BY <3>1
  <2>6. CASE StartFails(c)
    BY <2>6 DEF StartFails, ReadyToStart, BeingStopped
  <2>7. CASE StartRegisters(c)
    BY <2>7 DEF StartRegisters, Register, BeingStopped
  <2>8. CASE ArmTimer(c)
    <3>1. ASSUME ~OverlappingSessions, NEW k \in Gids, Alive(k)'
          PROVE  k \in games' \cup pending' \/ BeingStopped(k)'
      <4>1. Alive(k)
        BY <2>8, <3>1 DEF ArmTimer
      <4>2. k \in games \cup pending \/ BeingStopped(k)
        BY <3>1, <4>1
      <4>3. CASE k \in games \cup pending
        BY <2>8, <4>3 DEF ArmTimer
      <4>4. CASE BeingStopped(k)
        BY <2>8, <4>4 DEF ArmTimer, Children, StartUntouched, BeingStopped
      <4> QED
        BY <4>2, <4>3, <4>4
    <3> QED
      BY <3>1
  <2>9. CASE FailStart(c)
    <3>1. ASSUME ~OverlappingSessions, NEW k \in Gids, Alive(k)'
          PROVE  k \in games' \cup pending' \/ BeingStopped(k)'
      <4>1. Alive(k)
        BY <2>9, <3>1 DEF FailStart
      <4>2. k \in games \cup pending \/ BeingStopped(k)
        BY <3>1, <4>1
      <4>3. CASE k \in games \cup pending
        BY <2>9, <4>3 DEF FailStart, BeingStopped
      <4>4. CASE BeingStopped(k)
        BY <2>9, <4>4 DEF FailStart, BeingStopped
      <4> QED
        BY <4>2, <4>3, <4>4
    <3> QED
      BY <3>1
  <2>10. CASE FailStartReply(c)
    <3>1. ASSUME ~OverlappingSessions, NEW k \in Gids, Alive(k)'
          PROVE  k \in games' \cup pending' \/ BeingStopped(k)'
      <4>1. Alive(k)
        BY <2>10, <3>1 DEF FailStartReply, StopMisses
      <4>2. k \in games \cup pending \/ BeingStopped(k)
        BY <3>1, <4>1
      <4>3. CASE k \in games \cup pending
        BY <2>10, <4>3 DEF FailStartReply
      <4>4. CASE BeingStopped(k)
        <5>1. k \in procs \cup doomed
          BY <3>1, <4>1, <4>4, StoppedInHand
        <5>2. k # cur[c]
          BY <2>10, <4>1 DEF FailStartReply, Children, StartUntouched
        <5> QED
          BY <2>10, <4>4, <5>2 DEF FailStartReply, BeingStopped
      <4> QED
        BY <4>2, <4>3, <4>4
    <3> QED
      BY <3>1
  <2>11. ASSUME NEW g \in Gids, StopFindsChild(c, g)
        PROVE  NotLost'
    BY <2>11 DEF StopFindsChild, StopFinds, BeingStopped
  <2> QED
    BY <1>1, <2>1, <2>2, <2>3, <2>4, <2>5, <2>6, <2>7, <2>8, <2>9, <2>10, <2>11
       DEF ConnStep
<1>2. ASSUME NEW c \in Clients, ClientStep(c)
     PROVE  NotLost'
  <2>1. ASSUME NEW a \in Accounts, HandleAuth(c, a)
       PROVE  NotLost'
    BY <2>1 DEF HandleAuth, Reading, BeingStopped
  <2>2. CASE Leave(c)
    <3>1. ASSUME ~OverlappingSessions, NEW k \in Gids, Alive(k)'
          PROVE  k \in games' \cup pending' \/ BeingStopped(k)'
      <4>1. Alive(k)
        BY <2>2, <3>1 DEF Leave
      <4>2. k \in games \cup pending \/ BeingStopped(k)
        BY <3>1, <4>1
      <4>3. CASE k \in games \cup pending
        <5>1. k \in games' \cup pending' \/ k \in stops'[c]
          BY <2>2, <4>3, OwnTypes DEF Leave
        <5> QED
          BY <5>1 DEF BeingStopped
      <4>4. CASE BeingStopped(k)
        <5>1. stops[c] = {}
          BY <2>2 DEF Leave, Reading, Children, StopsHeld
        <5>2. timer[k] = "failing" => timer'[k] = "failing"
          BY <2>2 DEF Leave, StopTimers
        <5> QED
          BY <2>2, <4>4, <5>1, <5>2 DEF Leave, Reading, BeingStopped
      <4> QED
        BY <4>2, <4>3, <4>4
    <3> QED
      BY <3>1
  <2>3. CASE CreateGame(c)
    BY <2>3 DEF CreateGame, BeingStopped
  <2>4. CASE JoinCreated(c)
    BY <2>4 DEF JoinCreated, BeingStopped
  <2>5. CASE RequestCreateGame(c)
    <3>1. ASSUME ~OverlappingSessions, NEW k \in Gids, Alive(k)'
          PROVE  k \in games' \cup pending' \/ BeingStopped(k)'
      <4>1. Alive(k)
        BY <2>5, <3>1 DEF RequestCreateGame
      <4>2. k \in games \cup pending \/ BeingStopped(k)
        BY <3>1, <4>1
      <4>3. CASE k \in games \cup pending
        <5>1. k \in games' \cup pending' \/ k \in stops'[c]
          BY <2>5, <4>3, OwnTypes DEF RequestCreateGame
        <5> QED
          BY <5>1 DEF BeingStopped
      <4>4. CASE BeingStopped(k)
        <5>1. stops[c] = {}
          BY <2>5 DEF RequestCreateGame, Reading, Children, StopsHeld
        <5>2. timer[k] = "failing" => timer'[k] = "failing"
          BY <2>5 DEF RequestCreateGame, StopTimers
        <5> QED
          BY <2>5, <4>4, <5>1, <5>2 DEF RequestCreateGame, Reading, BeingStopped
      <4> QED
        BY <4>2, <4>3, <4>4
    <3> QED
      BY <3>1
  <2>6. ASSUME NEW g \in 0 .. MaxGID, NEW s \in PlaceStatuses, SetClientGame(c, g, s)
       PROVE  NotLost'
    BY <2>6 DEF SetClientGame, Reading, BeingStopped
  <2>7. CASE BroadcastClientPresence(c)
    BY <2>7 DEF BroadcastClientPresence, Reading, BeingStopped
  <2> QED
    BY <1>2, <2>1, <2>2, <2>3, <2>4, <2>5, <2>6, <2>7 DEF ClientStep
<1>3. ASSUME NEW g \in Gids, TimerStep(g)
     PROVE  NotLost'
  <2>1. CASE TimerFires(g)
    <3>1. ASSUME ~OverlappingSessions, NEW k \in Gids, Alive(k)'
          PROVE  k \in games' \cup pending' \/ BeingStopped(k)'
      <4>1. Alive(k)
        BY <2>1, <3>1 DEF TimerFires
      <4>2. k \in games \cup pending \/ BeingStopped(k)
        BY <3>1, <4>1
      <4>3. CASE k \in games \cup pending
        BY <2>1, <4>3 DEF TimerFires
      <4>4. CASE BeingStopped(k)
        BY <2>1, <4>4 DEF TimerFires, BeingStopped
      <4> QED
        BY <4>2, <4>3, <4>4
    <3> QED
      BY <3>1
  <2>2. CASE FailPending(g)
    <3>1. ASSUME ~OverlappingSessions, NEW k \in Gids, Alive(k)'
          PROVE  k \in games' \cup pending' \/ BeingStopped(k)'
      <4>1. Alive(k)
        BY <2>2, <3>1 DEF FailPending
      <4>2. k \in games \cup pending \/ BeingStopped(k)
        BY <3>1, <4>1
      <4>3. CASE k \in games \cup pending
        BY <2>2, <4>3 DEF FailPending, BeingStopped
      <4>4. CASE BeingStopped(k)
        BY <2>2, <4>4 DEF FailPending, BeingStopped
      <4> QED
        BY <4>2, <4>3, <4>4
    <3> QED
      BY <3>1
  <2>3. CASE FailPendingReply(g)
    <3>1. ASSUME ~OverlappingSessions, NEW k \in Gids, Alive(k)'
          PROVE  k \in games' \cup pending' \/ BeingStopped(k)'
      <4>1. Alive(k)
        BY <2>3, <3>1 DEF FailPendingReply, StopEnds, StopKills, StopMisses
      <4>2. k \in games \cup pending \/ BeingStopped(k)
        BY <3>1, <4>1
      <4>3. CASE k \in games \cup pending
        BY <2>3, <4>3 DEF FailPendingReply
      <4>4. CASE BeingStopped(k)
        <5>1. k \in procs \cup doomed
          BY <3>1, <4>1, <4>4, StoppedInHand
        <5>2. k # g
          BY <2>3, <3>1, <5>1 DEF FailPendingReply, StopEnds, StopKills, StopMisses
        <5> QED
          BY <2>3, <4>4, <5>2 DEF FailPendingReply, BeingStopped
      <4> QED
        BY <4>2, <4>3, <4>4
    <3> QED
      BY <3>1
  <2>4. CASE TimerFinds(g)
    BY <2>4 DEF TimerFinds, StopFinds, BeingStopped
  <2> QED
    BY <1>3, <2>1, <2>2, <2>3, <2>4 DEF TimerStep
<1>4. ASSUME NEW g \in Gids, WaiterStep(g)
     PROVE  NotLost'
  <2>1. CASE WaitReturns(g)
    BY <2>1 DEF WaitReturns, Reap, BeingStopped
  <2>2. CASE GameExited(g)
    <3>1. ASSUME ~OverlappingSessions, NEW k \in Gids, Alive(k)'
          PROVE  k \in games' \cup pending' \/ BeingStopped(k)'
      <4>1. Alive(k)
        BY <2>2, <3>1 DEF GameExited
      <4>2. k \in games \cup pending \/ BeingStopped(k)
        BY <3>1, <4>1
      <4>3. CASE k \in games \cup pending
        BY <2>2, <3>1, <4>3 DEF GameExited, Children, ProcsKnown
      <4>4. CASE BeingStopped(k)
        BY <2>2, <4>4 DEF GameExited, BeingStopped
      <4> QED
        BY <4>2, <4>3, <4>4
    <3> QED
      BY <3>1
  <2> QED
    BY <1>4, <2>1, <2>2 DEF WaiterStep
<1>5. ASSUME NEW g \in Gids, ServerStep(g)
     PROVE  NotLost'
  <2>1. CASE BeginServing(g)
    <3>1. ASSUME ~OverlappingSessions, NEW k \in Gids, Alive(k)'
          PROVE  k \in games' \cup pending' \/ BeingStopped(k)'
      <4>1. Alive(k)
        BY <2>1, <3>1 DEF BeginServing, Serve
      <4>2. k \in games \cup pending \/ BeingStopped(k)
        BY <3>1, <4>1
      <4>3. CASE k \in games \cup pending
        BY <2>1, <4>3 DEF BeginServing
      <4>4. CASE BeingStopped(k)
        BY <2>1, <4>4 DEF BeginServing, BeingStopped
      <4> QED
        BY <4>2, <4>3, <4>4
    <3> QED
      BY <3>1
  <2>2. CASE Quit(g)
    <3>1. ASSUME ~OverlappingSessions, NEW k \in Gids, Alive(k)'
          PROVE  k \in games' \cup pending' \/ BeingStopped(k)'
      <4>1. Alive(k)
        BY <2>2, <3>1 DEF Quit, Die
      <4>2. k \in games \cup pending \/ BeingStopped(k)
        BY <3>1, <4>1
      <4>3. CASE k \in games \cup pending
        BY <2>2, <4>3 DEF Quit
      <4>4. CASE BeingStopped(k)
        BY <2>2, <4>4 DEF Quit, BeingStopped
      <4> QED
        BY <4>2, <4>3, <4>4
    <3> QED
      BY <3>1
  <2>3. CASE Crash(g)
    <3>1. ASSUME ~OverlappingSessions, NEW k \in Gids, Alive(k)'
          PROVE  k \in games' \cup pending' \/ BeingStopped(k)'
      <4>1. Alive(k)
        BY <2>3, <3>1 DEF Crash, Die
      <4>2. k \in games \cup pending \/ BeingStopped(k)
        BY <3>1, <4>1
      <4>3. CASE k \in games \cup pending
        BY <2>3, <4>3 DEF Crash
      <4>4. CASE BeingStopped(k)
        BY <2>3, <4>4 DEF Crash, BeingStopped
      <4> QED
        BY <4>2, <4>3, <4>4
    <3> QED
      BY <3>1
  <2>4. ASSUME NEW r \in Reports, SendHeartBeat(g, r)
       PROVE  NotLost'
    BY <2>4 DEF SendHeartBeat, Datagram, BeingStopped
  <2> QED
    BY <1>5, <2>1, <2>2, <2>3, <2>4 DEF ServerStep
<1>6. ASSUME NEW h \in Heartbeats,
            HeartbeatReady(h) \/ HeartbeatUpdate(h) \/ HeartbeatUnknown(h)
     PROVE  NotLost'
  <2>1. CASE HeartbeatReady(h)
    BY <2>1 DEF HeartbeatReady, Received, StopTimers, BeingStopped,
       Heartbeats, Games
  <2>2. CASE HeartbeatUpdate(h)
    BY <2>2 DEF HeartbeatUpdate, Received, BeingStopped
  <2>3. CASE HeartbeatUnknown(h)
    BY <2>3 DEF HeartbeatUnknown, Received, BeingStopped
  <2> QED
    BY <1>6, <2>1, <2>2, <2>3
<1>7. ASSUME NEW t \in Goroutines, NEW m \in out[t], Deliver(t, m) \/ WriteFails(t, m)
     PROVE  NotLost'
  <2>1. CASE Deliver(t, m)
    BY <2>1 DEF Deliver, BeingStopped
  <2>2. CASE WriteFails(t, m)
    BY <2>2 DEF WriteFails, BeingStopped
  <2> QED
    BY <1>7, <2>1, <2>2
<1>8. CASE UNCHANGED vars
  BY <1>8 DEF vars, BeingStopped
<1> QED
  BY <1>1, <1>2, <1>3, <1>4, <1>5, <1>6, <1>7, <1>8 DEF Next, OnHeartbeat,
     Write

-----------------------------------------------------------------------------
(* What is said of a game agrees with what became of it.                   *)

(* Every step keeps the frames on their way in agreement with the tables. *)
LEMMA FramesAgreeStep ==
    ASSUME TypeOK, HandedOut, LiveGames, FramesAgree, [Next]_vars
    PROVE  FramesAgree'
<1> USE DEF TypeOK, ProcTypeOK, HandedOut, FramesAgree, Creating, Gids,
    Created, Failed, hubVars, connVars, procVars
<1>1. ASSUME NEW c \in Clients, ConnStep(c)
     PROVE  FramesAgree'
  <2>1. CASE Join(c)
    <3>1. ASSUME NEW m \in Frames, Agrees(m)
          PROVE  Agrees(m)'
      BY <2>1, <3>1, FrameFields DEF Join, Agrees
    <3>2. ASSUME NEW g \in games
          PROVE  /\ g < nextGID /\ g \notin pending /\ timer[g] # "failing"
                 /\ \A d \in Clients : cpc[d] = "failing" => cur[d] # g
      BY DEF LiveGames, NoKillOfLiveGame, BeingStopped
    <3>3. ASSUME NEW m \in JoinFrames(c)
          PROVE  Agrees(m)'
      <4>1. CASE m.op = "PRESENCE"
        BY <2>1, <4>1 DEF Agrees
      <4>2. CASE m.op = "NEWGAME" /\ m.status = Created /\ m.gid \in games
        <5>1. \A d \in Clients : cpc'[d] = "failing" => cpc[d] = "failing"
          BY <2>1 DEF Join
        <5>2. /\ m.gid < nextGID /\ m.gid \notin pending /\ timer[m.gid] # "failing"
              /\ \A d \in Clients : cpc[d] = "failing" => cur[d] # m.gid
          BY <3>2, <4>2
        <5> QED
          BY <2>1, <4>2, <5>1, <5>2 DEF Join, Agrees
      <4> QED
        BY <4>1, <4>2, JoinFrameContents
    <3> QED
      BY <2>1, <3>1, <3>3 DEF Join
  <2>2. CASE LeaveDone(c)
    BY <2>2, FrameFields DEF LeaveDone, Agrees
  <2>3. ASSUME NEW g \in Gids, LeaveStop(c, g)
       PROVE  FramesAgree'
    BY <2>3, FrameFields DEF LeaveStop, StopEnds, StopKills, StopMisses, Agrees
  <2>4. ASSUME NEW g \in Gids, CreateStop(c, g)
       PROVE  FramesAgree'
    <3>1. ASSUME NEW m \in Frames, Agrees(m)
          PROVE  Agrees(m)'
      BY <2>4, <3>1, FrameFields DEF CreateStop, Agrees, StopEnds, StopKills, StopMisses
    <3>2. \A m \in DelGameTo(tell[c], {g}) : Agrees(m)'
      BY <2>4, FrameContents DEF CreateStop, Agrees, LiveGames, NoKillOfLiveGame, BeingStopped
    <3> QED
      BY <2>4, <3>1, <3>2 DEF CreateStop
  <2>5. CASE StartSpawns(c)
    BY <2>5, FrameFields DEF StartSpawns, ReadyToStart, Spawn, Agrees
  <2>6. CASE StartFails(c)
    BY <2>6, FrameFields DEF StartFails, ReadyToStart, Agrees
  <2>7. CASE StartRegisters(c)
    BY <2>7, FrameFields DEF StartRegisters, Register, Agrees
  <2>8. CASE ArmTimer(c)
    BY <2>8, FrameFields DEF ArmTimer, Agrees
  <2>9. CASE FailStart(c)
    BY <2>9, FrameFields DEF FailStart, Agrees
  <2>10. CASE FailStartReply(c)
    <3>1. ASSUME NEW m \in Frames, Agrees(m)
          PROVE  Agrees(m)'
      BY <2>10, <3>1, FrameFields DEF FailStartReply, Agrees, StopMisses
    <3>2. cur[c] < nextGID /\ cur[c] \notin games \cup pending
      BY <2>10 DEF FailStartReply, LiveGames, NoKillOfLiveGame, BeingStopped
    <3>3. ASSUME NEW m \in {NewGame(info[cur[c]].owner, Failed, cur[c])}
          PROVE  Agrees(m)'
      <4>1. m.op = "NEWGAME" /\ m.status = Failed /\ m.gid = cur[c]
        BY FrameContents
      <4> QED
        BY <2>10, <3>2, <4>1 DEF FailStartReply, Agrees
    <3> QED
      BY <2>10, <3>1, <3>3 DEF FailStartReply
  <2>11. ASSUME NEW g \in Gids, StopFindsChild(c, g)
        PROVE  FramesAgree'
    BY <2>11, FrameFields DEF StopFindsChild, StopFinds, Agrees
  <2> QED
    BY <1>1, <2>1, <2>2, <2>3, <2>4, <2>5, <2>6, <2>7, <2>8, <2>9, <2>10, <2>11
       DEF ConnStep
<1>2. ASSUME NEW c \in Clients, ClientStep(c)
     PROVE  FramesAgree'
  <2>1. ASSUME NEW a \in Accounts, HandleAuth(c, a)
       PROVE  FramesAgree'
    BY <2>1, FrameFields DEF HandleAuth, Reading, Agrees
  <2>2. CASE Leave(c)
    <3>1. ASSUME NEW m \in Frames, Agrees(m)
          PROVE  Agrees(m)'
      BY <2>2, <3>1, FrameFields DEF Leave, Agrees, StopTimers
    <3>4. \A g \in games : g < nextGID
      BY DEF TypeOK
    <3>2. \A g \in OwnReady(c) : g < nextGID /\ g \notin games' \cup pending'
      BY <2>2, <3>4, OwnTypes DEF Leave, LiveGames
    <3>3. \A m \in out'[Conn(c)] : Agrees(m)'
      BY <2>2, <3>2, FrameContents, GoroutineTypes DEF Leave, Agrees
    <3> QED
      BY <2>2, <3>1, <3>3 DEF Leave
  <2>3. CASE CreateGame(c)
    BY <2>3, FrameFields DEF CreateGame, Agrees
  <2>4. CASE JoinCreated(c)
    BY <2>4, FrameFields DEF JoinCreated, Agrees
  <2>5. CASE RequestCreateGame(c)
    BY <2>5, OwnTypes, FrameFields DEF RequestCreateGame, Reading, StopTimers,
       Agrees
  <2>6. ASSUME NEW g \in 0 .. MaxGID, NEW s \in PlaceStatuses, SetClientGame(c, g, s)
       PROVE  FramesAgree'
    <3>1. ASSUME NEW m \in Frames, Agrees(m)
          PROVE  Agrees(m)'
      BY <2>6, <3>1, FrameFields DEF SetClientGame, Agrees
    <3>2. \A m \in PresenceTo(clients, acct[c], PlaceOf(g, s)) : Agrees(m)'
      BY <2>6, FrameContents DEF SetClientGame, Agrees
    <3> QED
      BY <2>6, <3>1, <3>2 DEF SetClientGame
  <2>7. CASE BroadcastClientPresence(c)
    <3>1. ASSUME NEW m \in Frames, Agrees(m)
          PROVE  Agrees(m)'
      BY <2>7, <3>1, FrameFields DEF BroadcastClientPresence, Agrees
    <3>2. \A m \in PresenceTo(clients, acct[c], place[c]) : Agrees(m)'
      BY <2>7, FrameContents DEF BroadcastClientPresence, Agrees
    <3> QED
      BY <2>7, <3>1, <3>2 DEF BroadcastClientPresence
  <2> QED
    BY <1>2, <2>1, <2>2, <2>3, <2>4, <2>5, <2>6, <2>7 DEF ClientStep
<1>3. ASSUME NEW g \in Gids, TimerStep(g)
     PROVE  FramesAgree'
  <2>1. CASE TimerFires(g)
    BY <2>1, FrameFields DEF TimerFires, Agrees
  <2>2. CASE FailPending(g)
    BY <2>2, FrameFields DEF FailPending, Agrees
  <2>3. CASE FailPendingReply(g)
    <3>1. ASSUME NEW m \in Frames, Agrees(m)
          PROVE  Agrees(m)'
      BY <2>3, <3>1, FrameFields DEF FailPendingReply, Agrees, StopEnds, StopKills, StopMisses
    <3>2. \A m \in {NewGame(info[g].owner, Failed, g)} : Agrees(m)'
      BY <2>3, FrameContents DEF FailPendingReply, Agrees, LiveGames, NoKillOfLiveGame,
         BeingStopped
    <3> QED
      BY <2>3, <3>1, <3>2 DEF FailPendingReply
  <2>4. CASE TimerFinds(g)
    BY <2>4, FrameFields DEF TimerFinds, StopFinds, Agrees
  <2> QED
    BY <1>3, <2>1, <2>2, <2>3, <2>4 DEF TimerStep
<1>4. ASSUME NEW g \in Gids, WaiterStep(g)
     PROVE  FramesAgree'
  <2>1. CASE WaitReturns(g)
    BY <2>1, FrameFields DEF WaitReturns, Reap, Agrees
  <2>2. CASE GameExited(g)
    <3>1. ASSUME NEW m \in Frames, Agrees(m)
          PROVE  Agrees(m)'
      BY <2>2, <3>1, FrameFields DEF GameExited, Agrees
    <3>2. g \in games => \A m \in DelGameTo(clients, {g}) : Agrees(m)'
      BY <2>2, FrameContents DEF GameExited, Agrees, LiveGames
    <3> QED
      BY <2>2, <3>1, <3>2 DEF GameExited
  <2> QED
    BY <1>4, <2>1, <2>2 DEF WaiterStep
<1>5. ASSUME NEW g \in Gids, ServerStep(g)
     PROVE  FramesAgree'
  <2>1. CASE BeginServing(g)
    BY <2>1, FrameFields DEF BeginServing, Serve, Agrees
  <2>2. CASE Quit(g)
    BY <2>2, FrameFields DEF Quit, Datagram, Die, Alive, Agrees
  <2>3. CASE Crash(g)
    BY <2>3, FrameFields DEF Crash, Die, Alive, Agrees
  <2>4. ASSUME NEW r \in Reports, SendHeartBeat(g, r)
       PROVE  FramesAgree'
    BY <2>4, FrameFields DEF SendHeartBeat, Datagram, Agrees
  <2> QED
    BY <1>5, <2>1, <2>2, <2>3, <2>4 DEF ServerStep
<1>6. ASSUME NEW h \in Heartbeats,
            HeartbeatReady(h) \/ HeartbeatUpdate(h) \/ HeartbeatUnknown(h)
     PROVE  FramesAgree'
  <2>1. CASE HeartbeatReady(h)
    <3>1. ASSUME NEW m \in Frames, Agrees(m)
          PROVE  Agrees(m)'
      BY <2>1, <3>1, FrameFields DEF HeartbeatReady, Agrees, StopTimers, Heartbeats
    <3>2. h.gid \in Gids /\ h.gid < nextGID /\ timer'[h.gid] # "failing"
          /\ \A c \in Clients : cpc[c] = "failing" => cur[c] # h.gid
      BY <2>1 DEF HeartbeatReady, StopTimers, LiveGames, NoKillOfLiveGame, BeingStopped
    <3>3. \A m \in NewGameTo(ReadyRecipients(h.gid), h.gid) : Agrees(m)'
      BY <2>1, <3>2, FrameContents DEF HeartbeatReady, Agrees
    <3> QED
      BY <2>1, <3>1, <3>3 DEF HeartbeatReady
  <2>2. CASE HeartbeatUpdate(h)
    <3>1. ASSUME NEW m \in Frames, Agrees(m)
          PROVE  Agrees(m)'
      BY <2>2, <3>1, FrameFields DEF HeartbeatUpdate, Agrees
    <3>2. h.gid \in Gids /\ h.gid < nextGID /\ timer[h.gid] # "failing"
          /\ \A c \in Clients : cpc[c] = "failing" => cur[c] # h.gid
      BY <2>2 DEF HeartbeatUpdate, LiveGames, NoKillOfLiveGame, BeingStopped
    <3>3. \A m \in NewGameTo(clients, h.gid) : Agrees(m)'
      BY <2>2, <3>2, FrameContents DEF HeartbeatUpdate, Agrees
    <3> QED
      BY <2>2, <3>1, <3>3 DEF HeartbeatUpdate
  <2>3. CASE HeartbeatUnknown(h)
    BY <2>3, FrameFields DEF HeartbeatUnknown, Received, Agrees
  <2> QED
    BY <1>6, <2>1, <2>2, <2>3
<1>7. ASSUME NEW t \in Goroutines, NEW m \in out[t], Deliver(t, m) \/ WriteFails(t, m)
     PROVE  FramesAgree'
  <2>1. CASE Deliver(t, m)
    BY <2>1, FrameFields DEF Deliver, Agrees
  <2>2. CASE WriteFails(t, m)
    BY <2>2, FrameFields DEF WriteFails, Agrees
  <2> QED
    BY <1>7, <2>1, <2>2
<1>8. CASE UNCHANGED vars
  BY <1>8 DEF vars, Agrees
<1> QED
  BY <1>1, <1>2, <1>3, <1>4, <1>5, <1>6, <1>7, <1>8 DEF Next, OnHeartbeat,
     Write

-----------------------------------------------------------------------------
(* No game is both advertised and reported failed.                         *)

(* Every step keeps the answers to create requests consistent. *)
LEMMA ConsistentStep ==
    ASSUME TypeOK, FramesAgree, Consistent, [Next]_vars
    PROVE  Consistent'
<1> USE DEF TypeOK, Consistent, Created, Failed
<1>1. ASSUME NEW c \in Clients, ConnStep(c)
     PROVE  Consistent'
  <2>1. CASE Join(c)
    <3>1. \A m \in JoinFrames(c) : m.op = "NEWGAME" => m.status = Created /\ m.gid \in games
      BY JoinFrameContents
    <3>2. \A u \in Goroutines : \A m \in out[u] :
             m.op = "NEWGAME" /\ m.status = Failed => m.gid \notin games \cup pending
      BY DEF FramesAgree, Agrees
    <3> QED
      BY <2>1, <3>1, <3>2 DEF Join
  <2>2. CASE LeaveDone(c)
    BY <2>2 DEF LeaveDone
  <2>3. ASSUME NEW g \in Gids, LeaveStop(c, g)
       PROVE  Consistent'
    BY <2>3 DEF LeaveStop, StopEnds, StopKills, StopMisses
  <2>4. ASSUME NEW g \in Gids, CreateStop(c, g)
       PROVE  Consistent'
    <3>1. \A m \in out'[Conn(c)] : m.op # "NEWGAME"
      BY <2>4, FrameContents, GoroutineTypes DEF CreateStop
    <3>2. \A u \in Goroutines \ {Conn(c)} : out'[u] = out[u]
      BY <2>4 DEF CreateStop
    <3>3. \A u \in Goroutines : \A m \in out'[u] : m.op = "NEWGAME" => m \in out[u]
      BY <3>1, <3>2
    <3> QED
      BY <3>3
  <2>5. CASE StartSpawns(c)
    BY <2>5 DEF StartSpawns, ReadyToStart, Spawn
  <2>6. CASE StartFails(c)
    BY <2>6 DEF StartFails, ReadyToStart
  <2>7. CASE StartRegisters(c)
    BY <2>7 DEF StartRegisters, Register
  <2>8. CASE ArmTimer(c)
    BY <2>8 DEF ArmTimer
  <2>9. CASE FailStart(c)
    BY <2>9 DEF FailStart
  <2>10. CASE FailStartReply(c)
    <3>1. ASSUME NEW m \in {NewGame(info[cur[c]].owner, Failed, cur[c])}
          PROVE  m.status = Failed /\ m.gid = cur[c]
      BY FrameContents
    <3>2. \A u \in Goroutines : \A n \in out[u] :
             n.op = "NEWGAME" /\ n.status = Created => n.gid # cur[c]
      BY <2>10 DEF FailStartReply, FramesAgree, Agrees
    <3> QED
      BY <2>10, <3>1, <3>2 DEF FailStartReply
  <2>11. ASSUME NEW g \in Gids, StopFindsChild(c, g)
        PROVE  Consistent'
    BY <2>11 DEF StopFindsChild, StopFinds
  <2> QED
    BY <1>1, <2>1, <2>2, <2>3, <2>4, <2>5, <2>6, <2>7, <2>8, <2>9, <2>10, <2>11
       DEF ConnStep
<1>2. ASSUME NEW c \in Clients, ClientStep(c)
     PROVE  Consistent'
  <2>1. ASSUME NEW a \in Accounts, HandleAuth(c, a)
       PROVE  Consistent'
    BY <2>1 DEF HandleAuth, Reading
  <2>2. CASE Leave(c)
    <3>1. \A m \in out'[Conn(c)] : m.op # "NEWGAME"
      BY <2>2, FrameContents, GoroutineTypes DEF Leave
    <3>2. \A u \in Goroutines \ {Conn(c)} : out'[u] = out[u]
      BY <2>2 DEF Leave
    <3>3. \A u \in Goroutines : \A m \in out'[u] : m.op = "NEWGAME" => m \in out[u]
      BY <3>1, <3>2
    <3> QED
      BY <3>3
  <2>3. CASE CreateGame(c)
    BY <2>3 DEF CreateGame
  <2>4. CASE JoinCreated(c)
    BY <2>4 DEF JoinCreated
  <2>5. CASE RequestCreateGame(c)
    BY <2>5 DEF RequestCreateGame, Reading, StopTimers
  <2>6. ASSUME NEW g \in 0 .. MaxGID, NEW s \in PlaceStatuses, SetClientGame(c, g, s)
       PROVE  Consistent'
    <3>1. \A m \in PresenceTo(clients, acct[c], PlaceOf(g, s)) : m.op # "NEWGAME"
      BY FrameContents
    <3> QED
      BY <2>6, <3>1 DEF SetClientGame
  <2>7. CASE BroadcastClientPresence(c)
    <3>1. \A m \in PresenceTo(clients, acct[c], place[c]) : m.op # "NEWGAME"
      BY FrameContents
    <3> QED
      BY <2>7, <3>1 DEF BroadcastClientPresence
  <2> QED
    BY <1>2, <2>1, <2>2, <2>3, <2>4, <2>5, <2>6, <2>7 DEF ClientStep
<1>3. ASSUME NEW g \in Gids, TimerStep(g)
     PROVE  Consistent'
  <2>1. CASE TimerFires(g)
    BY <2>1 DEF TimerFires
  <2>2. CASE FailPending(g)
    BY <2>2 DEF FailPending
  <2>3. CASE FailPendingReply(g)
    <3>1. ASSUME NEW m \in {NewGame(info[g].owner, Failed, g)}
          PROVE  m.status = Failed /\ m.gid = g
      BY FrameContents
    <3>2. \A u \in Goroutines : \A n \in out[u] :
             n.op = "NEWGAME" /\ n.status = Created => n.gid # g
      BY <2>3 DEF FailPendingReply, FramesAgree, Agrees
    <3> QED
      BY <2>3, <3>1, <3>2 DEF FailPendingReply
  <2>4. CASE TimerFinds(g)
    BY <2>4 DEF TimerFinds, StopFinds
  <2> QED
    BY <1>3, <2>1, <2>2, <2>3, <2>4 DEF TimerStep
<1>4. ASSUME NEW g \in Gids, WaiterStep(g)
     PROVE  Consistent'
  <2>1. CASE WaitReturns(g)
    BY <2>1 DEF WaitReturns, Reap
  <2>2. CASE GameExited(g)
    <3>1. \A m \in DelGameTo(clients, {g}) : m.op # "NEWGAME"
      BY FrameContents
    <3>2. \A u \in Goroutines \ {Waiter(g)} : out'[u] = out[u]
      BY <2>2 DEF GameExited
    <3>3. \A m \in out'[Waiter(g)] : m.op # "NEWGAME"
      BY <2>2, <3>1, GoroutineTypes DEF GameExited
    <3>4. \A u \in Goroutines : \A m \in out'[u] : m.op = "NEWGAME" => m \in out[u]
      BY <3>2, <3>3
    <3> QED
      BY <3>4
  <2> QED
    BY <1>4, <2>1, <2>2 DEF WaiterStep
<1>5. ASSUME NEW g \in Gids, ServerStep(g)
     PROVE  Consistent'
  <2>1. CASE BeginServing(g)
    BY <2>1 DEF BeginServing, Serve
  <2>2. CASE Quit(g)
    BY <2>2 DEF Quit, Datagram, Die, Alive
  <2>3. CASE Crash(g)
    BY <2>3 DEF Crash, Die, Alive
  <2>4. ASSUME NEW r \in Reports, SendHeartBeat(g, r)
       PROVE  Consistent'
    BY <2>4 DEF SendHeartBeat, Datagram
  <2> QED
    BY <1>5, <2>1, <2>2, <2>3, <2>4 DEF ServerStep
<1>6. ASSUME NEW h \in Heartbeats,
            HeartbeatReady(h) \/ HeartbeatUpdate(h) \/ HeartbeatUnknown(h)
     PROVE  Consistent'
  <2>1. CASE HeartbeatReady(h)
    <3>1. \A m \in NewGameTo(ReadyRecipients(h.gid), h.gid) :
             m.op = "NEWGAME" => m.status = Created /\ m.gid = h.gid
      BY FrameContents
    <3>2. \A u \in Goroutines : \A m \in out[u] :
             m.op = "NEWGAME" /\ m.status = Failed => m.gid \notin games \cup pending
      BY DEF FramesAgree, Agrees
    <3> QED
      BY <2>1, <3>1, <3>2 DEF HeartbeatReady
  <2>2. CASE HeartbeatUpdate(h)
    <3>1. \A m \in NewGameTo(clients, h.gid) :
             m.op = "NEWGAME" => m.status = Created /\ m.gid = h.gid
      BY FrameContents
    <3>2. \A u \in Goroutines : \A m \in out[u] :
             m.op = "NEWGAME" /\ m.status = Failed => m.gid \notin games \cup pending
      BY DEF FramesAgree, Agrees
    <3> QED
      BY <2>2, <3>1, <3>2 DEF HeartbeatUpdate
  <2>3. CASE HeartbeatUnknown(h)
    BY <2>3 DEF HeartbeatUnknown, Received
  <2> QED
    BY <1>6, <2>1, <2>2, <2>3
<1>7. ASSUME NEW t \in Goroutines, NEW m \in out[t], Deliver(t, m) \/ WriteFails(t, m)
     PROVE  Consistent'
  <2>1. CASE Deliver(t, m)
    BY <2>1 DEF Deliver
  <2>2. CASE WriteFails(t, m)
    BY <2>2 DEF WriteFails
  <2> QED
    BY <1>7, <2>1, <2>2
<1>8. CASE UNCHANGED vars
  BY <1>8 DEF vars
<1> QED
  BY <1>1, <1>2, <1>3, <1>4, <1>5, <1>6, <1>7, <1>8 DEF Next, OnHeartbeat,
     Write

-----------------------------------------------------------------------------
(* What is written and what clients show.                                  *)

(* Every step lets a goroutine send only when it has written everything. *)
LEMMA QuietStep ==
    ASSUME TypeOK, HandedOut, Children, QuietGoroutines, [Next]_vars
    PROVE  QuietGoroutines'
<1> USE DEF TypeOK, ProcTypeOK, HandedOut, QuietGoroutines, Creating, hubVars,
    connVars, procVars
<1>1. ASSUME NEW c \in Clients, ConnStep(c)
     PROVE  QuietGoroutines'
  <2>1. CASE Join(c)
    BY <2>1, GoroutineTypes, GoroutinesDiffer DEF Join
  <2>2. CASE LeaveDone(c)
    BY <2>2, GoroutineTypes, GoroutinesDiffer DEF LeaveDone
  <2>3. ASSUME NEW g \in Gids, LeaveStop(c, g)
       PROVE  QuietGoroutines'
    BY <2>3, GoroutineTypes, GoroutinesDiffer DEF LeaveStop, StopEnds, StopKills, StopMisses
  <2>4. ASSUME NEW g \in Gids, CreateStop(c, g)
       PROVE  QuietGoroutines'
    BY <2>4, GoroutineTypes, GoroutinesDiffer DEF CreateStop, StopEnds, StopKills, StopMisses
  <2>5. CASE StartSpawns(c)
    BY <2>5, GoroutineTypes, GoroutinesDiffer DEF StartSpawns, ReadyToStart,
       Spawn
  <2>6. CASE StartFails(c)
    BY <2>6, GoroutineTypes, GoroutinesDiffer DEF StartFails, ReadyToStart
  <2>7. CASE StartRegisters(c)
    BY <2>7, GoroutineTypes, GoroutinesDiffer DEF StartRegisters, Register,
       Children, StartUntouched, Starting
  <2>8. CASE ArmTimer(c)
    BY <2>8, GoroutineTypes, GoroutinesDiffer DEF ArmTimer, Children,
       StartUntouched
  <2>9. CASE FailStart(c)
    BY <2>9, GoroutineTypes, GoroutinesDiffer DEF FailStart
  <2>10. CASE FailStartReply(c)
    BY <2>10, GoroutineTypes, GoroutinesDiffer DEF FailStartReply, StopMisses
  <2>11. ASSUME NEW g \in Gids, StopFindsChild(c, g)
        PROVE  QuietGoroutines'
    BY <2>11, GoroutineTypes, GoroutinesDiffer DEF StopFindsChild, StopFinds
  <2> QED
    BY <1>1, <2>1, <2>2, <2>3, <2>4, <2>5, <2>6, <2>7, <2>8, <2>9, <2>10, <2>11
       DEF ConnStep
<1>2. ASSUME NEW c \in Clients, ClientStep(c)
     PROVE  QuietGoroutines'
  <2>1. ASSUME NEW a \in Accounts, HandleAuth(c, a)
       PROVE  QuietGoroutines'
    BY <2>1, GoroutineTypes, GoroutinesDiffer DEF HandleAuth, Reading
  <2>2. CASE Leave(c)
    BY <2>2, GoroutineTypes, GoroutinesDiffer DEF Leave, Reading, StopTimers
  <2>3. CASE CreateGame(c)
    BY <2>3, GoroutineTypes, GoroutinesDiffer DEF CreateGame
  <2>4. CASE JoinCreated(c)
    BY <2>4, GoroutineTypes, GoroutinesDiffer DEF JoinCreated
  <2>5. CASE RequestCreateGame(c)
    BY <2>5, GoroutineTypes, GoroutinesDiffer DEF RequestCreateGame, Reading,
       StopTimers
  <2>6. ASSUME NEW g \in 0 .. MaxGID, NEW s \in PlaceStatuses, SetClientGame(c, g, s)
       PROVE  QuietGoroutines'
    BY <2>6, GoroutineTypes, GoroutinesDiffer DEF SetClientGame, Reading
  <2>7. CASE BroadcastClientPresence(c)
    BY <2>7, GoroutineTypes, GoroutinesDiffer DEF BroadcastClientPresence,
       Reading
  <2> QED
    BY <1>2, <2>1, <2>2, <2>3, <2>4, <2>5, <2>6, <2>7 DEF ClientStep
<1>3. ASSUME NEW g \in Gids, TimerStep(g)
     PROVE  QuietGoroutines'
  <2>1. CASE TimerFires(g)
    BY <2>1, GoroutineTypes, GoroutinesDiffer DEF TimerFires
  <2>2. CASE FailPending(g)
    BY <2>2, GoroutineTypes, GoroutinesDiffer DEF FailPending
  <2>3. CASE FailPendingReply(g)
    BY <2>3, GoroutineTypes, GoroutinesDiffer DEF FailPendingReply, StopEnds, StopKills,
       StopMisses
  <2>4. CASE TimerFinds(g)
    BY <2>4, GoroutineTypes, GoroutinesDiffer DEF TimerFinds, StopFinds
  <2> QED
    BY <1>3, <2>1, <2>2, <2>3, <2>4 DEF TimerStep
<1>4. ASSUME NEW g \in Gids, WaiterStep(g)
     PROVE  QuietGoroutines'
  <2>1. CASE WaitReturns(g)
    BY <2>1, GoroutineTypes, GoroutinesDiffer DEF WaitReturns, Reap
  <2>2. CASE GameExited(g)
    BY <2>2, GoroutineTypes, GoroutinesDiffer DEF GameExited
  <2> QED
    BY <1>4, <2>1, <2>2 DEF WaiterStep
<1>5. ASSUME NEW g \in Gids, ServerStep(g)
     PROVE  QuietGoroutines'
  <2>1. CASE BeginServing(g)
    BY <2>1, GoroutineTypes, GoroutinesDiffer DEF BeginServing, Serve
  <2>2. CASE Quit(g)
    BY <2>2, GoroutineTypes, GoroutinesDiffer DEF Quit, Datagram, Die, Alive
  <2>3. CASE Crash(g)
    BY <2>3, GoroutineTypes, GoroutinesDiffer DEF Crash, Die, Alive
  <2>4. ASSUME NEW r \in Reports, SendHeartBeat(g, r)
       PROVE  QuietGoroutines'
    BY <2>4, GoroutineTypes, GoroutinesDiffer DEF SendHeartBeat, Datagram
  <2> QED
    BY <1>5, <2>1, <2>2, <2>3, <2>4 DEF ServerStep
<1>6. ASSUME NEW h \in Heartbeats,
            HeartbeatReady(h) \/ HeartbeatUpdate(h) \/ HeartbeatUnknown(h)
     PROVE  QuietGoroutines'
  <2>1. CASE HeartbeatReady(h)
    BY <2>1, GoroutineTypes, GoroutinesDiffer DEF HeartbeatReady, Received,
       StopTimers, Heartbeats, Games
  <2>2. CASE HeartbeatUpdate(h)
    BY <2>2, GoroutineTypes, GoroutinesDiffer DEF HeartbeatUpdate, Received,
       Heartbeats, Games
  <2>3. CASE HeartbeatUnknown(h)
    BY <2>3, GoroutineTypes, GoroutinesDiffer DEF HeartbeatUnknown, Received
  <2> QED
    BY <1>6, <2>1, <2>2, <2>3
<1>7. ASSUME NEW t \in Goroutines, NEW m \in out[t], Deliver(t, m) \/ WriteFails(t, m)
     PROVE  QuietGoroutines'
  <2>1. CASE Deliver(t, m)
    BY <2>1, GoroutineTypes, GoroutinesDiffer DEF Deliver
  <2>2. CASE WriteFails(t, m)
    BY <2>2, GoroutineTypes, GoroutinesDiffer DEF WriteFails
  <2> QED
    BY <1>7, <2>1, <2>2
<1>8. CASE UNCHANGED vars
  BY <1>8 DEF vars
<1> QED
  BY <1>1, <1>2, <1>3, <1>4, <1>5, <1>6, <1>7, <1>8 DEF Next, OnHeartbeat,
     Write

(* Every step keeps every listed game shown or announced to every client. *)
LEMMA RowsCoveredStep ==
    ASSUME TypeOK, HandedOut, FramesAgree, Ownership, QuietGoroutines, RowsCovered, [Next]_vars
    PROVE  RowsCovered'
<1> USE DEF TypeOK, RowsCovered, hubVars, connVars, procVars
<1>1. ASSUME NEW c \in Clients, ConnStep(c)
     PROVE  RowsCovered'
  <2>1. CASE Join(c)
    <3>1. out[Conn(c)] = {}
      BY <2>1 DEF Join, QuietGoroutines
    <3>2. \A u \in Goroutines : out[u] \subseteq out'[u]
      BY <2>1, <3>1 DEF Join
    <3>3. \A g \in games : NewGame(c, Created, g) \in out'[Conn(c)]
      BY <2>1, GoroutineTypes DEF Join, JoinFrames
    <3> QED
      BY <2>1, <3>2, <3>3, GoroutineTypes DEF Join
  <2>2. CASE LeaveDone(c)
    BY <2>2 DEF LeaveDone
  <2>3. ASSUME NEW g \in Gids, LeaveStop(c, g)
       PROVE  RowsCovered'
    BY <2>3 DEF LeaveStop, StopEnds, StopKills, StopMisses
  <2>4. ASSUME NEW g \in Gids, CreateStop(c, g)
       PROVE  RowsCovered'
    <3>1. out[Conn(c)] = {}
      BY <2>4, GoroutineTypes DEF CreateStop, QuietGoroutines
    <3>2. \A u \in Goroutines : out[u] \subseteq out'[u]
      BY <2>4, <3>1 DEF CreateStop
    <3> QED
      BY <2>4, <3>2 DEF CreateStop
  <2>5. CASE StartSpawns(c)
    BY <2>5 DEF StartSpawns, ReadyToStart, Spawn
  <2>6. CASE StartFails(c)
    BY <2>6 DEF StartFails, ReadyToStart
  <2>7. CASE StartRegisters(c)
    BY <2>7 DEF StartRegisters, Register
  <2>8. CASE ArmTimer(c)
    BY <2>8 DEF ArmTimer
  <2>9. CASE FailStart(c)
    BY <2>9 DEF FailStart
  <2>10. CASE FailStartReply(c)
    <3>1. out[Conn(c)] = {}
      BY <2>10, GoroutineTypes DEF FailStartReply, QuietGoroutines
    <3>2. \A u \in Goroutines : out[u] \subseteq out'[u]
      BY <2>10, <3>1 DEF FailStartReply
    <3> QED
      BY <2>10, <3>2 DEF FailStartReply
  <2>11. ASSUME NEW g \in Gids, StopFindsChild(c, g)
        PROVE  RowsCovered'
    BY <2>11 DEF StopFindsChild, StopFinds
  <2> QED
    BY <1>1, <2>1, <2>2, <2>3, <2>4, <2>5, <2>6, <2>7, <2>8, <2>9, <2>10, <2>11
       DEF ConnStep
<1>2. ASSUME NEW c \in Clients, ClientStep(c)
     PROVE  RowsCovered'
  <2>1. ASSUME NEW a \in Accounts, HandleAuth(c, a)
       PROVE  RowsCovered'
    BY <2>1 DEF HandleAuth, Reading
  <2>2. CASE Leave(c)
    <3>1. \A u \in Goroutines : out[u] \subseteq out'[u]
      BY <2>2, GoroutineTypes DEF Leave, Reading
    <3>2. \A d \in clients' : d \in clients /\ view'[d] = view[d]
      BY <2>2 DEF Leave
    <3>3. games' \subseteq games /\ closed' = closed
      BY <2>2 DEF Leave
    <3> QED
      BY <3>1, <3>2, <3>3
  <2>3. CASE CreateGame(c)
    <3>1. \A d \in Clients : view'[d].games = view[d].games
      BY <2>3 DEF CreateGame, AskedView, Views
    <3> QED
      BY <2>3, <3>1 DEF CreateGame
  <2>4. CASE JoinCreated(c)
    <3>1. \A d \in Clients : view'[d].games = view[d].games
      BY <2>4 DEF JoinCreated, PumpedView, Views
    <3> QED
      BY <2>4, <3>1 DEF JoinCreated
  <2>5. CASE RequestCreateGame(c)
    BY <2>5, OwnTypes DEF RequestCreateGame, Reading, StopTimers
  <2>6. ASSUME NEW g \in 0 .. MaxGID, NEW s \in PlaceStatuses, SetClientGame(c, g, s)
       PROVE  RowsCovered'
    <3>1. out[Conn(c)] = {}
      BY <2>6, GoroutineTypes DEF SetClientGame, Reading, QuietGoroutines
    <3>2. \A u \in Goroutines : out[u] \subseteq out'[u]
      BY <2>6, <3>1 DEF SetClientGame
    <3> QED
      BY <2>6, <3>2 DEF SetClientGame
  <2>7. CASE BroadcastClientPresence(c)
    <3>1. out[Conn(c)] = {}
      BY <2>7, GoroutineTypes DEF BroadcastClientPresence, Reading, QuietGoroutines
    <3>2. \A u \in Goroutines : out[u] \subseteq out'[u]
      BY <2>7, <3>1 DEF BroadcastClientPresence
    <3> QED
      BY <2>7, <3>2 DEF BroadcastClientPresence
  <2> QED
    BY <1>2, <2>1, <2>2, <2>3, <2>4, <2>5, <2>6, <2>7 DEF ClientStep
<1>3. ASSUME NEW g \in Gids, TimerStep(g)
     PROVE  RowsCovered'
  <2>1. CASE TimerFires(g)
    BY <2>1 DEF TimerFires
  <2>2. CASE FailPending(g)
    BY <2>2 DEF FailPending
  <2>3. CASE FailPendingReply(g)
    <3>1. out[Timer(g)] = {}
      BY <2>3, GoroutineTypes DEF FailPendingReply, QuietGoroutines
    <3>2. \A u \in Goroutines : out[u] \subseteq out'[u]
      BY <2>3, <3>1 DEF FailPendingReply
    <3> QED
      BY <2>3, <3>2 DEF FailPendingReply
  <2>4. CASE TimerFinds(g)
    BY <2>4 DEF TimerFinds, StopFinds
  <2> QED
    BY <1>3, <2>1, <2>2, <2>3, <2>4 DEF TimerStep
<1>4. ASSUME NEW g \in Gids, WaiterStep(g)
     PROVE  RowsCovered'
  <2>1. CASE WaitReturns(g)
    BY <2>1 DEF WaitReturns, Reap
  <2>2. CASE GameExited(g)
    <3>1. out[Waiter(g)] = {}
      BY <2>2, GoroutineTypes DEF GameExited, QuietGoroutines
    <3>2. \A u \in Goroutines : out[u] \subseteq out'[u]
      BY <2>2, <3>1 DEF GameExited
    <3> QED
      BY <2>2, <3>2 DEF GameExited
  <2> QED
    BY <1>4, <2>1, <2>2 DEF WaiterStep
<1>5. ASSUME NEW g \in Gids, ServerStep(g)
     PROVE  RowsCovered'
  <2>1. CASE BeginServing(g)
    BY <2>1 DEF BeginServing, Serve
  <2>2. CASE Quit(g)
    BY <2>2 DEF Quit, Datagram, Die, Alive
  <2>3. CASE Crash(g)
    BY <2>3 DEF Crash, Die, Alive
  <2>4. ASSUME NEW r \in Reports, SendHeartBeat(g, r)
       PROVE  RowsCovered'
    BY <2>4 DEF SendHeartBeat, Datagram
  <2> QED
    BY <1>5, <2>1, <2>2, <2>3, <2>4 DEF ServerStep
<1>6. ASSUME NEW h \in Heartbeats,
            HeartbeatReady(h) \/ HeartbeatUpdate(h) \/ HeartbeatUnknown(h)
     PROVE  RowsCovered'
  <2>1. CASE HeartbeatReady(h)
    <3>1. out[Udp] = {}
      BY <2>1 DEF HeartbeatReady, Received
    <3>2. \A u \in Goroutines : out[u] \subseteq out'[u]
      BY <2>1, <3>1 DEF HeartbeatReady
    <3>3. \A c \in clients : NewGame(c, Created, h.gid) \in out'[Udp]
      BY <2>1, GoroutineTypes DEF HeartbeatReady, NewGameTo, ReadyRecipients
    <3> QED
      BY <2>1, <3>2, <3>3, GoroutineTypes DEF HeartbeatReady
  <2>2. CASE HeartbeatUpdate(h)
    <3>1. out[Udp] = {}
      BY <2>2, GoroutineTypes DEF HeartbeatUpdate, Received, QuietGoroutines
    <3>2. \A u \in Goroutines : out[u] \subseteq out'[u]
      BY <2>2, <3>1 DEF HeartbeatUpdate
    <3> QED
      BY <2>2, <3>2 DEF HeartbeatUpdate
  <2>3. CASE HeartbeatUnknown(h)
    BY <2>3 DEF HeartbeatUnknown, Received
  <2> QED
    BY <1>6, <2>1, <2>2, <2>3
<1>7. ASSUME NEW t \in Goroutines, NEW m \in out[t], Deliver(t, m) \/ WriteFails(t, m)
     PROVE  RowsCovered'
  <2>1. CASE Deliver(t, m)
    <3> DEFINE own == m.op = "NEWGAME" /\ info[m.gid].account = acct[m.to]
    <3>1. SUFFICES ASSUME NEW d \in clients, NEW g \in games, ~closed[d],
                          \A u \in Goroutines : NewGame(d, Created, g) \notin out'[u]
                   PROVE  g \in view'[d].games
      BY <2>1 DEF Deliver
    <3>2. m \in Frames /\ m.to \in Clients /\ view[d] \in Views
      BY <1>7, FrameFields
    <3>3. Listening(d)
      BY <3>1 DEF Listening, Ownership, Served
    <3>4. CASE m = NewGame(d, Created, g)
      <4>1. m.to = d /\ m.op = "NEWGAME" /\ m.status = Created /\ m.gid = g
        BY <3>4 DEF NewGame
      <4>2. view'[d] = ShowNewGame(view[d], g, Created, own)
        BY <2>1, <3>3, <4>1 DEF Deliver, Show
      <4> QED
        BY <3>2, <4>2, ShowNewGameRows
    <3>5. CASE m # NewGame(d, Created, g)
      <4>1. g \in view[d].games
        BY <2>1, <3>1, <3>5 DEF Deliver
      <4>2. CASE m.to # d
        BY <2>1, <3>2, <4>1, <4>2 DEF Deliver
      <4>3. CASE m.to = d
        <5>1. view'[d] = Show(view[d], m, own)
          BY <2>1, <3>3, <4>3 DEF Deliver
        <5>2. Agrees(m)
          BY <1>7 DEF FramesAgree
        <5>3. CASE m.op = "NEWGAME"
          <6>1. m.status = Failed => m.gid # g
            BY <5>2, <5>3 DEF Agrees
          <6>2. Show(view[d], m, own) = ShowNewGame(view[d], m.gid, m.status, own)
            BY <5>3 DEF Show
          <6> QED
            BY <3>2, <4>1, <5>1, <5>3, <6>1, <6>2, FrameFields, ShowNewGameRows
        <5>4. CASE m.op = "DELGAME"
          BY <3>2, <4>1, <5>1, <5>2, <5>4 DEF Agrees, Show, ShowDelGame, Views
        <5>5. CASE m.op = "PRESENCE"
          BY <3>2, <4>1, <5>1, <5>5 DEF Show, ShowPresence, Views
        <5> QED
          BY <3>2, <5>3, <5>4, <5>5, FrameFields
      <4> QED
        BY <4>2, <4>3
    <3> QED
      BY <3>4, <3>5
  <2>2. CASE WriteFails(t, m)
    <3>1. m \in Frames /\ m.to \in Clients
      BY <1>7, FrameFields
    <3>2. \A d \in Clients, g \in games, u \in Goroutines :
             NewGame(d, Created, g) \in out[u] =>
                NewGame(d, Created, g) \in out'[u] \/ closed'[d]
      BY <2>2, <3>1 DEF WriteFails, NewGame
    <3>3. \A d \in Clients : closed[d] => closed'[d]
      BY <2>2, <3>1 DEF WriteFails
    <3> QED
      BY <2>2, <3>2, <3>3 DEF WriteFails
  <2> QED
    BY <1>7, <2>1, <2>2
<1>8. CASE UNCHANGED vars
  BY <1>8 DEF vars
<1> QED
  BY <1>1, <1>2, <1>3, <1>4, <1>5, <1>6, <1>7, <1>8 DEF Next, OnHeartbeat,
     Write

-----------------------------------------------------------------------------
(* A player is taken off the lists only by the connection it leaves by.    *)

LEMMA PlacesAreNotOffline ==
    \A p \in Places : p # Offline
BY OfflineAssumption DEF Places

LEMMA JoinPlaces ==
    ASSUME TypeOK, NEW c \in Clients, NEW m \in JoinFrames(c), m.op = "PRESENCE"
    PROVE  m.place # Offline
<1>1. \A o \in Clients : place[o] # Offline
  BY PlacesAreNotOffline DEF TypeOK
<1>2. m.op = "PRESENCE" => \E o \in Clients : m.place = place[o]
  BY DEF JoinFrames, PresenceTo, NewGame, Presence, TypeOK
<1> QED
  BY <1>1, <1>2

(* Frames that take nobody off a list change nothing, as long as those who *)
(* leave go on leaving.                                                    *)
LEMMA OfflineKept ==
    ASSUME OfflineLeft,
           \A d \in Clients : cpc[d] = "leave" => cpc'[d] = "leave" /\ acct'[d] = acct[d],
           \A u \in Goroutines : \A m \in out'[u] :
              m \in out[u] \/ ~(m.op = "PRESENCE" /\ m.place = Offline)
    PROVE  OfflineLeft'
BY DEF OfflineLeft

(* Every step keeps the players that are taken off the lists those that    *)
(* leave.                                                                  *)
LEMMA OfflineLeftStep ==
    ASSUME TypeOK, OfflineLeft, [Next]_vars
    PROVE  OfflineLeft'
<1> USE DEF TypeOK, hubVars, connVars, procVars
<1>1. ASSUME NEW c \in Clients, ConnStep(c)
     PROVE  OfflineLeft'
  <2>1. CASE Join(c)
    BY <2>1, OfflineKept, JoinPlaces DEF Join
  <2>2. CASE LeaveDone(c)
    <3>1. \A u \in Goroutines : \A m \in out[u] : u # Conn(c)
      BY <2>2 DEF LeaveDone
    <3>2. out' = out /\ acct' = acct
          /\ \A d \in Clients : Conn(d) # Conn(c) => cpc'[d] = cpc[d]
      BY <2>2, GoroutinesDiffer DEF LeaveDone
    <3>3. SUFFICES ASSUME NEW t \in Goroutines, NEW m \in out[t],
                          m.op = "PRESENCE", m.place = Offline
                   PROVE  \E d \in Clients :
                             t = Conn(d) /\ cpc'[d] = "leave" /\ acct[d] = m.account
      BY <3>2 DEF OfflineLeft
    <3>4. PICK d \in Clients : t = Conn(d) /\ cpc[d] = "leave" /\ acct[d] = m.account
      BY <3>3 DEF OfflineLeft
    <3> QED
      BY <3>1, <3>2, <3>4
  <2>3. ASSUME NEW g \in Gids, LeaveStop(c, g)
       PROVE  OfflineLeft'
    BY <2>3, OfflineKept DEF LeaveStop, StopEnds, StopKills, StopMisses
  <2>4. ASSUME NEW g \in Gids, CreateStop(c, g)
       PROVE  OfflineLeft'
    BY <2>4, OfflineKept, FrameContents DEF CreateStop, StopEnds, StopKills, StopMisses
  <2>5. CASE StartSpawns(c)
    BY <2>5, OfflineKept DEF StartSpawns, ReadyToStart, Spawn
  <2>6. CASE StartFails(c)
    BY <2>6, OfflineKept DEF StartFails, ReadyToStart
  <2>7. CASE StartRegisters(c)
    BY <2>7, OfflineKept DEF StartRegisters, Register
  <2>8. CASE ArmTimer(c)
    BY <2>8, OfflineKept DEF ArmTimer
  <2>9. CASE FailStart(c)
    BY <2>9, OfflineKept DEF FailStart
  <2>10. CASE FailStartReply(c)
    BY <2>10, OfflineKept, FrameContents DEF FailStartReply, StopMisses
  <2>11. ASSUME NEW g \in Gids, StopFindsChild(c, g)
        PROVE  OfflineLeft'
    BY <2>11, OfflineKept DEF StopFindsChild, StopFinds
  <2> QED
    BY <1>1, <2>1, <2>2, <2>3, <2>4, <2>5, <2>6, <2>7, <2>8, <2>9, <2>10, <2>11
       DEF ConnStep
<1>2. ASSUME NEW c \in Clients, ClientStep(c)
     PROVE  OfflineLeft'
  <2>1. ASSUME NEW a \in Accounts, HandleAuth(c, a)
       PROVE  OfflineLeft'
    BY <2>1, OfflineKept DEF HandleAuth, Reading
  <2>2. CASE Leave(c)
    <3>1. cpc'[c] = "leave" /\ acct' = acct
          /\ \A d \in Clients : cpc[d] = "leave" => cpc'[d] = "leave"
      BY <2>2 DEF Leave, Reading
    <3>2. \A m \in out'[Conn(c)] : m.op = "PRESENCE" => m.account = acct[c]
      BY <2>2, GoroutineTypes DEF Leave, DelGameTo, PresenceTo, DelGame, Presence
    <3>3. \A u \in Goroutines : u = Conn(c) \/ out'[u] = out[u]
      BY <2>2 DEF Leave
    <3>4. SUFFICES ASSUME NEW t \in Goroutines, NEW m \in out'[t],
                          m.op = "PRESENCE", m.place = Offline
                   PROVE  \E d \in Clients :
                             t = Conn(d) /\ cpc'[d] = "leave" /\ acct'[d] = m.account
      BY DEF OfflineLeft
    <3>5. CASE t = Conn(c)
      BY <3>1, <3>2, <3>4, <3>5
    <3>6. CASE t # Conn(c)
      BY <3>1, <3>3, <3>4, <3>6 DEF OfflineLeft
    <3> QED
      BY <3>5, <3>6
  <2>3. CASE CreateGame(c)
    BY <2>3, OfflineKept DEF CreateGame
  <2>4. CASE JoinCreated(c)
    BY <2>4, OfflineKept DEF JoinCreated
  <2>5. CASE RequestCreateGame(c)
    BY <2>5, OfflineKept DEF RequestCreateGame, Reading
  <2>6. ASSUME NEW g \in 0 .. MaxGID, NEW s \in PlaceStatuses, SetClientGame(c, g, s)
       PROVE  OfflineLeft'
    <3>1. \A m \in PresenceTo(clients, acct[c], PlaceOf(g, s)) : m.place # Offline
      BY PlaceOfType, PlacesAreNotOffline DEF PresenceTo, Presence
    <3> QED
      BY <2>6, <3>1, OfflineKept DEF SetClientGame
  <2>7. CASE BroadcastClientPresence(c)
    <3>1. \A m \in PresenceTo(clients, acct[c], place[c]) : m.place # Offline
      BY PlacesAreNotOffline DEF PresenceTo, Presence
    <3> QED
      BY <2>7, <3>1, OfflineKept DEF BroadcastClientPresence
  <2> QED
    BY <1>2, <2>1, <2>2, <2>3, <2>4, <2>5, <2>6, <2>7 DEF ClientStep
<1>3. ASSUME NEW g \in Gids, TimerStep(g)
     PROVE  OfflineLeft'
  <2>1. CASE TimerFires(g)
    BY <2>1, OfflineKept DEF TimerFires
  <2>2. CASE FailPending(g)
    BY <2>2, OfflineKept DEF FailPending
  <2>3. CASE FailPendingReply(g)
    BY <2>3, OfflineKept, FrameContents DEF FailPendingReply, StopEnds, StopKills, StopMisses
  <2>4. CASE TimerFinds(g)
    BY <2>4, OfflineKept DEF TimerFinds, StopFinds
  <2> QED
    BY <1>3, <2>1, <2>2, <2>3, <2>4 DEF TimerStep
<1>4. ASSUME NEW g \in Gids, WaiterStep(g)
     PROVE  OfflineLeft'
  <2>1. CASE WaitReturns(g)
    BY <2>1, OfflineKept DEF WaitReturns, Reap
  <2>2. CASE GameExited(g)
    BY <2>2, OfflineKept, FrameContents DEF GameExited
  <2> QED
    BY <1>4, <2>1, <2>2 DEF WaiterStep
<1>5. ASSUME NEW g \in Gids, ServerStep(g)
     PROVE  OfflineLeft'
  <2>1. CASE BeginServing(g)
    BY <2>1, OfflineKept DEF BeginServing, Serve
  <2>2. CASE Quit(g)
    BY <2>2, OfflineKept DEF Quit, Datagram, Die, Alive
  <2>3. CASE Crash(g)
    BY <2>3, OfflineKept DEF Crash, Die, Alive
  <2>4. ASSUME NEW r \in Reports, SendHeartBeat(g, r)
       PROVE  OfflineLeft'
    BY <2>4, OfflineKept DEF SendHeartBeat, Datagram
  <2> QED
    BY <1>5, <2>1, <2>2, <2>3, <2>4 DEF ServerStep
<1>6. ASSUME NEW h \in Heartbeats,
            HeartbeatReady(h) \/ HeartbeatUpdate(h) \/ HeartbeatUnknown(h)
     PROVE  OfflineLeft'
  <2>1. CASE HeartbeatReady(h)
    BY <2>1, OfflineKept, FrameContents DEF HeartbeatReady
  <2>2. CASE HeartbeatUpdate(h)
    BY <2>2, OfflineKept, FrameContents DEF HeartbeatUpdate
  <2>3. CASE HeartbeatUnknown(h)
    BY <2>3, OfflineKept DEF HeartbeatUnknown
  <2> QED
    BY <1>6, <2>1, <2>2, <2>3
<1>7. ASSUME NEW t \in Goroutines, NEW m \in out[t], Deliver(t, m) \/ WriteFails(t, m)
     PROVE  OfflineLeft'
  <2>1. CASE Deliver(t, m)
    BY <2>1, OfflineKept DEF Deliver
  <2>2. CASE WriteFails(t, m)
    BY <2>2, OfflineKept DEF WriteFails
  <2> QED
    BY <1>7, <2>1, <2>2
<1>8. CASE UNCHANGED vars
  BY <1>8, OfflineKept DEF vars
<1> QED
  BY <1>1, <1>2, <1>3, <1>4, <1>5, <1>6, <1>7, <1>8 DEF Next, OnHeartbeat,
     Write

-----------------------------------------------------------------------------
(* Every joined player is listed or announced.                             *)

(* More frames on their way, and fewer clients to tell or to tell of.      *)
LEMMA PlayersKept ==
    ASSUME TypeOK, PlayersCovered, clients' \subseteq clients,
           \A d \in clients' :
              /\ acct'[d] = acct[d]
              /\ closed[d] => closed'[d]
              /\ view'[d].presence = view[d].presence,
           \A u \in Goroutines : out[u] \subseteq out'[u]
    PROVE  PlayersCovered'
<1>1. SUFFICES ASSUME ~OverlappingSessions, NEW c \in clients', NEW o \in clients',
                      ~closed'[c]
               PROVE  \/ view'[c].presence[acct'[o]] # Offline
                      \/ \E t \in Goroutines : \E m \in out'[t] :
                            m.to = c /\ m.op = "PRESENCE" /\ m.account = acct'[o]
  BY DEF PlayersCovered
<1>2. \/ view[c].presence[acct[o]] # Offline
      \/ \E t \in Goroutines : \E m \in out[t] :
            m.to = c /\ m.op = "PRESENCE" /\ m.account = acct[o]
  BY <1>1 DEF PlayersCovered
<1> QED
  BY <1>1, <1>2

LEMMA PlayerViewPresence ==
    ASSUME NEW v \in Views
    PROVE  /\ AskedView(v).presence = v.presence
           /\ PumpedView(v).presence = v.presence
BY DEF AskedView, PumpedView, Views

LEMMA ShowPresences ==
    ASSUME NEW v \in Views, NEW m \in Frames, NEW own \in BOOLEAN
    PROVE  /\ m.op # "PRESENCE" => Show(v, m, own).presence = v.presence
           /\ m.op = "PRESENCE" =>
                Show(v, m, own).presence = [v.presence EXCEPT ![m.account] = m.place]
<1>1. CASE m.op = "NEWGAME"
  <2>1. Show(v, m, own) = ShowNewGame(v, m.gid, m.status, own)
    BY <1>1 DEF Show
  <2> QED
    BY <1>1, <2>1 DEF ShowNewGame, Views
<1>2. CASE m.op = "DELGAME"
  BY <1>2 DEF Show, ShowDelGame, Views
<1>3. CASE m.op = "PRESENCE"
  BY <1>3 DEF Show, ShowPresence, Views
<1> QED
  BY <1>1, <1>2, <1>3, FrameFields

(* Every step keeps every joined player listed or announced. *)
LEMMA PlayersCoveredStep ==
    ASSUME TypeOK, Ownership, QuietGoroutines, OfflineLeft, PlayersCovered, [Next]_vars
    PROVE  PlayersCovered'
<1> USE DEF TypeOK, hubVars, connVars, procVars
<1>1. ASSUME NEW c \in Clients, ConnStep(c)
     PROVE  PlayersCovered'
  <2>1. CASE Join(c)
    <3>1. out[Conn(c)] = {} /\ Conn(c) \in Goroutines
      BY <2>1, GoroutineTypes DEF Join, QuietGoroutines
    <3>2. \A u \in Goroutines : out[u] \subseteq out'[u]
      BY <2>1, <3>1 DEF Join
    <3>3. acct' = acct /\ closed' = closed /\ view' = view /\ clients' = clients \cup {c}
          /\ out'[Conn(c)] = JoinFrames(c)
      BY <2>1, <3>1 DEF Join
    <3>4. \A o \in clients : acct[o] # NoAccount
      BY DEF Ownership
    <3>5. \A o \in clients' : Presence(c, acct[o], place[o]) \in out'[Conn(c)]
      BY <3>3, <3>4 DEF JoinFrames, PresenceTo
    <3>6. \A o \in clients' : Presence(o, acct[c], place[c]) \in out'[Conn(c)]
      BY <3>3, <3>4 DEF JoinFrames, PresenceTo
    <3>7. \A d, a, p : /\ Presence(d, a, p).to = d
                       /\ Presence(d, a, p).op = "PRESENCE"
                       /\ Presence(d, a, p).account = a
      BY DEF Presence
    <3>8. SUFFICES ASSUME ~OverlappingSessions, NEW d \in clients', NEW o \in clients',
                          ~closed[d]
                   PROVE  \/ view[d].presence[acct[o]] # Offline
                          \/ \E t \in Goroutines : \E m \in out'[t] :
                                m.to = d /\ m.op = "PRESENCE" /\ m.account = acct[o]
      BY <3>3 DEF PlayersCovered
    <3>9. CASE d = c \/ o = c
      <4>1. \E m \in out'[Conn(c)] : m.to = d /\ m.op = "PRESENCE" /\ m.account = acct[o]
        <5>1. CASE d = c
          <6> DEFINE p == Presence(c, acct[o], place[o])
          <6>1. p \in out'[Conn(c)]
            BY <3>5
          <6>2. p.to = d /\ p.op = "PRESENCE" /\ p.account = acct[o]
            BY <3>7, <5>1
          <6> QED
            BY <6>1, <6>2
        <5>2. CASE o = c
          <6>1. Presence(d, acct[c], place[c]) \in out'[Conn(c)]
            BY <3>6
          <6> QED
            BY <3>7, <5>2, <6>1
        <5> QED
          BY <3>9, <5>1, <5>2
      <4> QED
        BY <3>1, <4>1
    <3>10. CASE d \in clients /\ o \in clients
      BY <3>2, <3>8, <3>10 DEF PlayersCovered
    <3> QED
      BY <3>3, <3>9, <3>10
  <2>2. CASE LeaveDone(c)
    BY <2>2, PlayersKept DEF LeaveDone
  <2>3. ASSUME NEW g \in Gids, LeaveStop(c, g)
       PROVE  PlayersCovered'
    BY <2>3, PlayersKept DEF LeaveStop, StopEnds, StopKills, StopMisses
  <2>4. ASSUME NEW g \in Gids, CreateStop(c, g)
       PROVE  PlayersCovered'
    <3>1. \A u \in Goroutines : out[u] \subseteq out'[u]
      BY <2>4 DEF CreateStop
    <3> QED
      BY <2>4, <3>1, PlayersKept DEF CreateStop
  <2>5. CASE StartSpawns(c)
    BY <2>5, PlayersKept DEF StartSpawns, ReadyToStart, Spawn
  <2>6. CASE StartFails(c)
    BY <2>6, PlayersKept DEF StartFails, ReadyToStart
  <2>7. CASE StartRegisters(c)
    BY <2>7, PlayersKept DEF StartRegisters, Register
  <2>8. CASE ArmTimer(c)
    BY <2>8, PlayersKept DEF ArmTimer
  <2>9. CASE FailStart(c)
    BY <2>9, PlayersKept DEF FailStart
  <2>10. CASE FailStartReply(c)
    <3>1. out[Conn(c)] = {}
      BY <2>10 DEF FailStartReply, QuietGoroutines
    <3>2. \A u \in Goroutines : out[u] \subseteq out'[u]
      BY <2>10, <3>1 DEF FailStartReply
    <3> QED
      BY <2>10, <3>2, PlayersKept DEF FailStartReply
  <2>11. ASSUME NEW g \in Gids, StopFindsChild(c, g)
        PROVE  PlayersCovered'
    BY <2>11, PlayersKept DEF StopFindsChild, StopFinds
  <2> QED
    BY <1>1, <2>1, <2>2, <2>3, <2>4, <2>5, <2>6, <2>7, <2>8, <2>9, <2>10, <2>11
       DEF ConnStep
<1>2. ASSUME NEW c \in Clients, ClientStep(c)
     PROVE  PlayersCovered'
  <2>1. ASSUME NEW a \in Accounts, HandleAuth(c, a)
       PROVE  PlayersCovered'
    <3>1. c \notin clients
      BY <2>1 DEF HandleAuth, Ownership
    <3>2. \A d \in clients' : acct'[d] = acct[d]
      BY <2>1, <3>1 DEF HandleAuth
    <3> QED
      BY <2>1, <3>2, PlayersKept DEF HandleAuth
  <2>2. CASE Leave(c)
    <3>1. \A u \in Goroutines : out[u] \subseteq out'[u]
      BY <2>2 DEF Leave, Reading
    <3>2. \A d \in clients' : d \in clients /\ view'[d] = view[d]
      BY <2>2 DEF Leave
    <3>3. clients' \subseteq clients /\ closed' = closed /\ acct' = acct
      BY <2>2 DEF Leave
    <3> QED
      BY <3>1, <3>2, <3>3, PlayersKept
  <2>3. CASE CreateGame(c)
    <3>1. \A d \in Clients : view'[d].presence = view[d].presence
      BY <2>3, PlayerViewPresence DEF CreateGame
    <3> QED
      BY <2>3, <3>1, PlayersKept DEF CreateGame
  <2>4. CASE JoinCreated(c)
    <3>1. \A d \in Clients : view'[d].presence = view[d].presence
      BY <2>4, PlayerViewPresence DEF JoinCreated
    <3> QED
      BY <2>4, <3>1, PlayersKept DEF JoinCreated
  <2>5. CASE RequestCreateGame(c)
    BY <2>5, PlayersKept DEF RequestCreateGame
  <2>6. ASSUME NEW g \in 0 .. MaxGID, NEW s \in PlaceStatuses, SetClientGame(c, g, s)
       PROVE  PlayersCovered'
    <3>1. \A u \in Goroutines : out[u] \subseteq out'[u]
      BY <2>6 DEF SetClientGame, Reading
    <3> QED
      BY <2>6, <3>1, PlayersKept DEF SetClientGame
  <2>7. CASE BroadcastClientPresence(c)
    <3>1. \A u \in Goroutines : out[u] \subseteq out'[u]
      BY <2>7 DEF BroadcastClientPresence, Reading
    <3> QED
      BY <2>7, <3>1, PlayersKept DEF BroadcastClientPresence
  <2> QED
    BY <1>2, <2>1, <2>2, <2>3, <2>4, <2>5, <2>6, <2>7 DEF ClientStep
<1>3. ASSUME NEW g \in Gids, TimerStep(g)
     PROVE  PlayersCovered'
  <2>1. CASE TimerFires(g)
    BY <2>1, PlayersKept DEF TimerFires
  <2>2. CASE FailPending(g)
    BY <2>2, PlayersKept DEF FailPending
  <2>3. CASE FailPendingReply(g)
    <3>1. out[Timer(g)] = {}
      BY <2>3 DEF FailPendingReply, QuietGoroutines
    <3>2. \A u \in Goroutines : out[u] \subseteq out'[u]
      BY <2>3, <3>1 DEF FailPendingReply
    <3> QED
      BY <2>3, <3>2, PlayersKept DEF FailPendingReply
  <2>4. CASE TimerFinds(g)
    BY <2>4, PlayersKept DEF TimerFinds, StopFinds
  <2> QED
    BY <1>3, <2>1, <2>2, <2>3, <2>4 DEF TimerStep
<1>4. ASSUME NEW g \in Gids, WaiterStep(g)
     PROVE  PlayersCovered'
  <2>1. CASE WaitReturns(g)
    BY <2>1, PlayersKept DEF WaitReturns, Reap
  <2>2. CASE GameExited(g)
    <3>1. out[Waiter(g)] = {}
      BY <2>2 DEF GameExited, QuietGoroutines
    <3>2. \A u \in Goroutines : out[u] \subseteq out'[u]
      BY <2>2, <3>1 DEF GameExited
    <3> QED
      BY <2>2, <3>2, PlayersKept DEF GameExited
  <2> QED
    BY <1>4, <2>1, <2>2 DEF WaiterStep
<1>5. ASSUME NEW g \in Gids, ServerStep(g)
     PROVE  PlayersCovered'
  <2>1. CASE BeginServing(g)
    BY <2>1, PlayersKept DEF BeginServing
  <2>2. CASE Quit(g)
    BY <2>2, PlayersKept DEF Quit
  <2>3. CASE Crash(g)
    BY <2>3, PlayersKept DEF Crash
  <2>4. ASSUME NEW r \in Reports, SendHeartBeat(g, r)
       PROVE  PlayersCovered'
    BY <2>4, PlayersKept DEF SendHeartBeat
  <2> QED
    BY <1>5, <2>1, <2>2, <2>3, <2>4 DEF ServerStep
<1>6. ASSUME NEW h \in Heartbeats,
            HeartbeatReady(h) \/ HeartbeatUpdate(h) \/ HeartbeatUnknown(h)
     PROVE  PlayersCovered'
  <2>1. CASE HeartbeatReady(h)
    <3>1. \A u \in Goroutines : out[u] \subseteq out'[u]
      BY <2>1 DEF HeartbeatReady, Received
    <3> QED
      BY <2>1, <3>1, PlayersKept DEF HeartbeatReady
  <2>2. CASE HeartbeatUpdate(h)
    <3>1. \A u \in Goroutines : out[u] \subseteq out'[u]
      BY <2>2 DEF HeartbeatUpdate, Received
    <3> QED
      BY <2>2, <3>1, PlayersKept DEF HeartbeatUpdate
  <2>3. CASE HeartbeatUnknown(h)
    BY <2>3, PlayersKept DEF HeartbeatUnknown
  <2> QED
    BY <1>6, <2>1, <2>2, <2>3
<1>7. ASSUME NEW t \in Goroutines, NEW m \in out[t], Deliver(t, m) \/ WriteFails(t, m)
     PROVE  PlayersCovered'
  <2>1. CASE Deliver(t, m)
    <3> DEFINE own == m.op = "NEWGAME" /\ info[m.gid].account = acct[m.to]
    <3>0. /\ clients' = clients /\ acct' = acct /\ closed' = closed
          /\ own \in BOOLEAN
      BY <2>1 DEF Deliver
    <3>1. SUFFICES ASSUME ~OverlappingSessions, NEW d \in clients, NEW o \in clients,
                          ~closed[d],
                          \A u \in Goroutines : \A n \in out'[u] :
                             ~(n.to = d /\ n.op = "PRESENCE" /\ n.account = acct[o])
                   PROVE  view'[d].presence[acct[o]] # Offline
      BY <3>0 DEF PlayersCovered
    <3>2. /\ m \in Frames /\ m.to \in Clients /\ view[d] \in Views
          /\ acct[o] \in Accounts
      BY <1>7, <3>1, FrameFields DEF Ownership
    <3>3. Listening(d)
      BY <3>1 DEF Listening, Ownership, Served
    <3>4. m.to = d => view'[d] = Show(view[d], m, own)
      BY <2>1, <3>2, <3>3 DEF Deliver
    <3>5. m.to # d => view'[d] = view[d]
      BY <2>1, <3>2 DEF Deliver
    <3>9. /\ m.op # "PRESENCE" => Show(view[d], m, own).presence = view[d].presence
          /\ m.op = "PRESENCE" => Show(view[d], m, own).presence =
                                    [view[d].presence EXCEPT ![m.account] = m.place]
      BY <3>0, <3>2, ShowPresences
    <3> HIDE DEF own
    <3>6. \A u \in Goroutines : \A n \in out[u] : n \in out'[u] \/ n = m
      BY <2>1 DEF Deliver
    <3>7. CASE m.to = d /\ m.op = "PRESENCE" /\ m.account = acct[o]
      <4>1. Served(o)
        BY DEF Ownership
      <4>2. m.place # Offline
        <5>1. ASSUME NEW e \in Clients, cpc[e] = "leave", acct[e] = acct[o]
              PROVE  FALSE
          BY <3>1, <3>2, <4>1, <5>1, OneSession, AccountAssumption DEF Served
        <5> QED
          BY <3>7, <5>1 DEF OfflineLeft
      <4>3. view'[d].presence = [view[d].presence EXCEPT ![m.account] = m.place]
        BY <3>2, <3>4, <3>7, <3>9
      <4>4. view[d].presence \in [Accounts -> Places \cup {Offline}]
        BY <3>2 DEF Views
      <4> QED
        BY <3>2, <3>7, <4>2, <4>3, <4>4
    <3>8. CASE ~(m.to = d /\ m.op = "PRESENCE" /\ m.account = acct[o])
      <4>1. view[d].presence[acct[o]] # Offline
        BY <3>1, <3>6, <3>8 DEF PlayersCovered
      <4>2. CASE m.to # d
        BY <3>5, <4>1, <4>2
      <4>3. CASE m.to = d /\ m.op # "PRESENCE"
        BY <3>2, <3>4, <3>9, <4>1, <4>3
      <4>4. CASE m.to = d /\ m.op = "PRESENCE" /\ m.account # acct[o]
        <5>1. view'[d].presence = [view[d].presence EXCEPT ![m.account] = m.place]
          BY <3>2, <3>4, <3>9, <4>4
        <5>2. view[d].presence \in [Accounts -> Places \cup {Offline}]
          BY <3>2 DEF Views
        <5> QED
          BY <3>2, <4>1, <4>4, <5>1, <5>2
      <4> QED
        BY <3>8, <4>2, <4>3, <4>4
    <3> QED
      BY <3>7, <3>8
  <2>2. CASE WriteFails(t, m)
    <3>1. m \in Frames /\ m.to \in Clients
      BY <1>7, FrameFields
    <3>2. /\ clients' = clients /\ acct' = acct /\ view' = view
          /\ \A d \in Clients : closed[d] => closed'[d]
          /\ closed'[m.to]
          /\ \A u \in Goroutines : \A n \in out[u] : n \in out'[u] \/ n = m
      BY <2>2, <3>1 DEF WriteFails
    <3> QED
      BY <3>2 DEF PlayersCovered
  <2> QED
    BY <1>7, <2>1, <2>2
<1>8. CASE UNCHANGED vars
  BY <1>8, PlayersKept DEF vars
<1> QED
  BY <1>1, <1>2, <1>3, <1>4, <1>5, <1>6, <1>7, <1>8 DEF Next, OnHeartbeat,
     Write

-----------------------------------------------------------------------------
(* The hub implements the life of a game.                                  *)

LEMMA LifecycleInit ==
    ASSUME Init
    PROVE  Lifecycle!Init
BY DEF Init, Lifecycle!Init, Lifecycle!Ids, Phase, Gids

(* Dropping games, or doing nothing to them, is an End or a stutter.       *)
LEMMA DroppingIsEnd ==
    ASSUME TypeOK, HandedOut, LiveGames, nextGID' = nextGID,
           games' \subseteq games, pending' \subseteq pending
    PROVE  Lifecycle!End
<1> DEFINE dropped == (games \cup pending) \ (games' \cup pending')
<1>1. dropped \in SUBSET Lifecycle!Live
  BY DEF Lifecycle!Live, Lifecycle!Ids, Phase, TypeOK, Gids
<1>2. ASSUME NEW g \in Gids
      PROVE  Phase'[g] = IF g \in dropped THEN "gone" ELSE Phase[g]
  <2>1. g \in games \cup pending => g < nextGID
    BY DEF TypeOK, HandedOut, Gids
  <2> QED
    BY <2>1 DEF Phase, LiveGames
<1>3. Phase' = [g \in Gids |-> IF g \in dropped THEN "gone" ELSE Phase[g]]
  BY <1>2 DEF Phase
<1> QED
  BY <1>1, <1>3 DEF Lifecycle!End, Lifecycle!Ids, Gids

LEMMA RequestIsRequest ==
    ASSUME TypeOK, HandedOut, LiveGames, NEW c \in Clients, RequestCreateGame(c)
    PROVE  Lifecycle!Request
<1> DEFINE dropped == OwnReady(c) \cup OwnPending(c)
<1>1. nextGID \in Lifecycle!Unused /\ \A g \in Lifecycle!Unused : nextGID <= g
  BY DEF Lifecycle!Unused, Lifecycle!Ids, Phase, TypeOK, HandedOut, Gids, RequestCreateGame
<1>2. dropped \in SUBSET Lifecycle!Live
  BY OwnTypes DEF Lifecycle!Live, Lifecycle!Ids, Phase, TypeOK, Gids
<1>3. ASSUME NEW g \in Gids
      PROVE  Phase'[g] = IF g = nextGID THEN "pending"
                         ELSE IF g \in dropped THEN "gone" ELSE Phase[g]
  BY OwnTypes DEF Phase, HandedOut, LiveGames, RequestCreateGame, TypeOK, Gids
<1>4. Phase' = Lifecycle!After(nextGID, "pending", dropped)
  BY <1>3 DEF Phase, Lifecycle!After, Lifecycle!Ids, Gids
<1> QED
  BY <1>1, <1>2, <1>4 DEF Lifecycle!Request

LEMMA ReadyIsReady ==
    ASSUME TypeOK, HandedOut, LiveGames, NEW h \in Heartbeats, HeartbeatReady(h)
    PROVE  Lifecycle!Ready
<1>1. h.gid \in Gids /\ h.gid \in pending
  BY DEF HeartbeatReady, TypeOK
<1>2. Phase[h.gid] = "pending"
  BY <1>1 DEF Phase
<1>3. ASSUME NEW g \in Gids
      PROVE  Phase'[g] = IF g = h.gid THEN "ready" ELSE Phase[g]
  BY <1>1 DEF Phase, HeartbeatReady, LiveGames
<1>4. Phase' = Lifecycle!After(h.gid, "ready", {})
  BY <1>3 DEF Phase, Lifecycle!After, Lifecycle!Ids, Gids
<1> QED
  BY <1>1, <1>2, <1>4 DEF Lifecycle!Ready, Lifecycle!Ids, Gids

(* Every step of the hub is a step of the life of a game, or none. *)
LEMMA LifecycleStep ==
    ASSUME TypeOK, HandedOut, LiveGames, [Next]_vars
    PROVE  [Lifecycle!Next]_Phase
<1> USE DEF Lifecycle!Next, hubVars, connVars, procVars
<1>1. ASSUME NEW c \in Clients, ConnStep(c)
     PROVE  [Lifecycle!Next]_Phase
  <2>1. CASE Join(c)
    BY <2>1, DroppingIsEnd DEF Join
  <2>2. CASE LeaveDone(c)
    BY <2>2, DroppingIsEnd DEF LeaveDone
  <2>3. ASSUME NEW g \in Gids, LeaveStop(c, g)
       PROVE  [Lifecycle!Next]_Phase
    BY <2>3, DroppingIsEnd DEF LeaveStop, StopEnds, StopKills, StopMisses
  <2>4. ASSUME NEW g \in Gids, CreateStop(c, g)
       PROVE  [Lifecycle!Next]_Phase
    BY <2>4, DroppingIsEnd DEF CreateStop, StopEnds, StopKills, StopMisses
  <2>5. CASE StartSpawns(c)
    BY <2>5, DroppingIsEnd DEF StartSpawns, ReadyToStart, Spawn
  <2>6. CASE StartFails(c)
    BY <2>6, DroppingIsEnd DEF StartFails, ReadyToStart
  <2>7. CASE StartRegisters(c)
    BY <2>7, DroppingIsEnd DEF StartRegisters, Register
  <2>8. CASE ArmTimer(c)
    BY <2>8, DroppingIsEnd DEF ArmTimer
  <2>9. CASE FailStart(c)
    BY <2>9, DroppingIsEnd DEF FailStart
  <2>10. CASE FailStartReply(c)
    BY <2>10, DroppingIsEnd DEF FailStartReply, StopMisses
  <2>11. ASSUME NEW g \in Gids, StopFindsChild(c, g)
        PROVE  [Lifecycle!Next]_Phase
    BY <2>11, DroppingIsEnd DEF StopFindsChild, StopFinds
  <2> QED
    BY <1>1, <2>1, <2>2, <2>3, <2>4, <2>5, <2>6, <2>7, <2>8, <2>9, <2>10, <2>11
       DEF ConnStep
<1>2. ASSUME NEW c \in Clients, ClientStep(c)
     PROVE  [Lifecycle!Next]_Phase
  <2>1. ASSUME NEW a \in Accounts, HandleAuth(c, a)
       PROVE  [Lifecycle!Next]_Phase
    BY <2>1, DroppingIsEnd DEF HandleAuth, Reading
  <2>2. CASE Leave(c)
    BY <2>2, DroppingIsEnd DEF Leave, Reading, StopTimers
  <2>3. CASE CreateGame(c)
    BY <2>3, DroppingIsEnd DEF CreateGame
  <2>4. CASE JoinCreated(c)
    BY <2>4, DroppingIsEnd DEF JoinCreated
  <2>5. CASE RequestCreateGame(c)
    BY <2>5, RequestIsRequest
  <2>6. ASSUME NEW g \in 0 .. MaxGID, NEW s \in PlaceStatuses, SetClientGame(c, g, s)
       PROVE  [Lifecycle!Next]_Phase
    BY <2>6, DroppingIsEnd DEF SetClientGame, Reading
  <2>7. CASE BroadcastClientPresence(c)
    BY <2>7, DroppingIsEnd DEF BroadcastClientPresence, Reading
  <2> QED
    BY <1>2, <2>1, <2>2, <2>3, <2>4, <2>5, <2>6, <2>7 DEF ClientStep
<1>3. ASSUME NEW g \in Gids, TimerStep(g)
     PROVE  [Lifecycle!Next]_Phase
  <2>1. CASE TimerFires(g)
    BY <2>1, DroppingIsEnd DEF TimerFires
  <2>2. CASE FailPending(g)
    BY <2>2, DroppingIsEnd DEF FailPending
  <2>3. CASE FailPendingReply(g)
    BY <2>3, DroppingIsEnd DEF FailPendingReply, StopEnds, StopKills, StopMisses
  <2>4. CASE TimerFinds(g)
    BY <2>4, DroppingIsEnd DEF TimerFinds, StopFinds
  <2> QED
    BY <1>3, <2>1, <2>2, <2>3, <2>4 DEF TimerStep
<1>4. ASSUME NEW g \in Gids, WaiterStep(g)
     PROVE  [Lifecycle!Next]_Phase
  <2>1. CASE WaitReturns(g)
    BY <2>1, DroppingIsEnd DEF WaitReturns, Reap
  <2>2. CASE GameExited(g)
    BY <2>2, DroppingIsEnd DEF GameExited
  <2> QED
    BY <1>4, <2>1, <2>2 DEF WaiterStep
<1>5. ASSUME NEW g \in Gids, ServerStep(g)
     PROVE  [Lifecycle!Next]_Phase
  <2>1. CASE BeginServing(g)
    BY <2>1, DroppingIsEnd DEF BeginServing, Serve
  <2>2. CASE Quit(g)
    BY <2>2, DroppingIsEnd DEF Quit, Datagram, Die, Alive
  <2>3. CASE Crash(g)
    BY <2>3, DroppingIsEnd DEF Crash, Die, Alive
  <2>4. ASSUME NEW r \in Reports, SendHeartBeat(g, r)
       PROVE  [Lifecycle!Next]_Phase
    BY <2>4, DroppingIsEnd DEF SendHeartBeat, Datagram
  <2> QED
    BY <1>5, <2>1, <2>2, <2>3, <2>4 DEF ServerStep
<1>6. ASSUME NEW h \in Heartbeats,
            HeartbeatReady(h) \/ HeartbeatUpdate(h) \/ HeartbeatUnknown(h)
     PROVE  [Lifecycle!Next]_Phase
  <2>1. CASE HeartbeatReady(h)
    BY <2>1, ReadyIsReady
  <2>2. CASE HeartbeatUpdate(h)
    BY <2>2, DroppingIsEnd DEF HeartbeatUpdate, Received
  <2>3. CASE HeartbeatUnknown(h)
    BY <2>3, DroppingIsEnd DEF HeartbeatUnknown, Received
  <2> QED
    BY <1>6, <2>1, <2>2, <2>3
<1>7. ASSUME NEW t \in Goroutines, NEW m \in out[t], Deliver(t, m) \/ WriteFails(t, m)
     PROVE  [Lifecycle!Next]_Phase
  <2>1. CASE Deliver(t, m)
    BY <2>1, DroppingIsEnd DEF Deliver
  <2>2. CASE WriteFails(t, m)
    BY <2>2, DroppingIsEnd DEF WriteFails
  <2> QED
    BY <1>7, <2>1, <2>2
<1>8. CASE UNCHANGED vars
  BY <1>8, DroppingIsEnd DEF vars
<1> QED
  BY <1>1, <1>2, <1>3, <1>4, <1>5, <1>6, <1>7, <1>8 DEF Next, OnHeartbeat,
     Write

-----------------------------------------------------------------------------
(* The theorems.                                                           *)

LEMMA InitInvariant ==
    ASSUME Init
    PROVE  IInv
<1> USE DEF Init, ProcInit
<1>1. TypeOK
  <2>1. \A g \in Gids : [owner |-> NoClient, account |-> NoAccount,
                         port |-> 0, report |-> FirstReport] \in Games
    BY DEF Games, Ports
  <2>2. EmptyView \in Views
    BY DEF EmptyView, Views
  <2>3. MainLobby \in Places /\ 0 \in Ports
    BY DEF MainLobby, Places, Ports
  <2>4. <<>> \in Seq(Heartbeats)
    OBVIOUS
  <2> QED
    BY <2>1, <2>2, <2>3, <2>4 DEF TypeOK, ProcTypeOK, ConnStates, TimerStates
<1>2. HandedOut
  BY DEF HandedOut, Creating, Gids
<1>3. LiveGames
  BY DEF LiveGames, NoKillOfLiveGame
<1>4. FramesAgree /\ Consistent
  BY DEF FramesAgree, Consistent
<1>5. Ownership /\ OneGamePerPlayer
  BY DEF Ownership, OneGamePerPlayer, Gids
<1>6. Children /\ NotLost
  BY DEF Children, StopsHeld, StartUntouched, ProcsKnown, NoStray, Starting, Alive, NotLost
<1>7. QuietGoroutines /\ RowsCovered
  BY GoroutineTypes DEF QuietGoroutines, RowsCovered
<1>8. OfflineLeft /\ PlayersCovered
  BY DEF OfflineLeft, PlayersCovered
<1> QED
  BY <1>1, <1>2, <1>3, <1>4, <1>5, <1>6, <1>7, <1>8 DEF IInv

LEMMA InvariantStep ==
    ASSUME IInv, [Next]_vars
    PROVE  IInv'
<1> USE DEF IInv
<1>1. TypeOK' /\ HandedOut' /\ LiveGames'
  BY TypeStep, HandedOutStep, LiveGamesStep
<1>2. FramesAgree' /\ Consistent'
  BY FramesAgreeStep, ConsistentStep
<1>3. Ownership' /\ OneGamePerPlayer'
  BY OwnershipStep, OneGameStep
<1>4. Children'
  BY ChildrenStep, NoStrayStep DEF Children
<1>5. NotLost' /\ QuietGoroutines' /\ RowsCovered'
  BY NotLostStep, QuietStep, RowsCoveredStep
<1>6. OfflineLeft' /\ PlayersCovered'
  BY OfflineLeftStep, PlayersCoveredStep
<1> QED
  BY <1>1, <1>2, <1>3, <1>4, <1>5, <1>6

(* The inductive invariant holds in every reachable state: what each of    *)
(* the theorems below is read off from.                                    *)
THEOREM Invariance == Spec => []IInv
<1>1. Init => IInv
  BY InitInvariant
<1>2. IInv /\ [Next]_vars => IInv'
  BY InvariantStep
<1> QED
  BY <1>1, <1>2, PTL DEF Spec

(* Every variable of the hub, its children and its clients keeps its type. *)
THEOREM TypeCorrect == Spec => []TypeOK
<1>1. IInv => TypeOK
  BY DEF IInv
<1> QED
  BY <1>1, Invariance, PTL

(* Leave, RequestCreateGame and failPending stop only games they dropped   *)
(* under Hub.mu first: a pending or listed game is nobody's to stop.       *)
THEOREM LiveGamesAreSafe == Spec => []NoKillOfLiveGame
<1>1. IInv => NoKillOfLiveGame
  BY DEF IInv, LiveGames
<1> QED
  BY <1>1, Invariance, PTL

(* The timer of a create request and the first heartbeat race for Hub.mu,  *)
(* and only one of them answers: no game is failed to its owner and        *)
(* announced, or still listed.                                             *)
THEOREM AnswersAreConsistent == Spec => []NoContradiction
<1>1. ASSUME IInv
      PROVE  NoContradiction
  <2>1. FramesAgree /\ Consistent
    BY <1>1 DEF IInv
  <2>2. SUFFICES ASSUME NEW t \in Goroutines, NEW u \in Goroutines,
                        NEW m \in out[t], NEW n \in out[u],
                        m.op = "NEWGAME", m.status = Failed
                 PROVE  /\ m.gid \notin games \cup pending
                        /\ ~(n.op = "NEWGAME" /\ n.status = Created /\ n.gid = m.gid)
    BY DEF NoContradiction
  <2>3. Agrees(m)
    BY <2>1 DEF FramesAgree
  <2> QED
    BY <2>1, <2>2, <2>3 DEF Agrees, Consistent
<1>2. IInv => NoContradiction
  BY <1>1
<1> QED
  BY <1>2, Invariance, PTL

(* A player has at most one pending or listed game while no account is     *)
(* served on two connections at once.                                      *)
THEOREM OneGame == Spec => []OneGamePerPlayer
<1>1. IInv => OneGamePerPlayer
  BY DEF IInv
<1> QED
  BY <1>1, Invariance, PTL

(* No dedicated server is left behind while no account is served on two    *)
(* connections at once: it has a game, or whoever dropped its game finds   *)
(* it in procs or has taken it from there to kill it.                      *)
THEOREM NoServerIsLost == Spec => []NoOrphan
<1>1. ASSUME IInv
      PROVE  NoOrphan
  <2>1. SUFFICES ASSUME ~OverlappingSessions, NEW g \in Gids, Alive(g)
                 PROVE  /\ g \in games \cup pending \/ BeingStopped(g)
                        /\ BeingStopped(g) => g \in procs \cup doomed
    BY DEF NoOrphan
  <2>2. NotLost /\ LiveGames /\ Children
    BY <1>1 DEF IInv
  <2>3. g \in games \cup pending \/ BeingStopped(g)
    BY <2>1, <2>2 DEF NotLost
  <2>4. BeingStopped(g) => g \in procs \cup doomed
    BY <2>1, <2>2, StoppedInHand
  <2> QED
    BY <2>3, <2>4
<1>2. IInv => NoOrphan
  BY <1>1
<1> QED
  BY <1>2, Invariance, PTL

(* Join's snapshot of the games and OnHeartbeat's snapshot of the clients  *)
(* leave no gap: a client that was written everything lists every game the *)
(* hub lists.                                                              *)
THEOREM NoRowIsMissed == Spec => []NoMissingRow
<1>1. ASSUME IInv
      PROVE  NoMissingRow
  <2>1. SUFFICES ASSUME NEW c \in clients, NEW g \in games,
                        ~closed[c], RowFramesTo(c, g) = {}
                 PROVE  g \in view[c].games
    BY DEF NoMissingRow
  <2>2. ASSUME NEW t \in Goroutines
        PROVE  NewGame(c, Created, g) \notin out[t]
    BY <2>1, <2>2 DEF RowFramesTo, FramesTo, NewGame
  <2>3. RowsCovered
    BY <1>1 DEF IInv
  <2> QED
    BY <2>1, <2>2, <2>3 DEF RowsCovered
<1>2. IInv => NoMissingRow
  BY <1>1
<1> QED
  BY <1>2, Invariance, PTL

(* Join introduces the newcomer and the others to each other under one     *)
(* lock, and a player is taken off the lists only when it leaves: a client *)
(* that was written everything lists every joined player, while no account *)
(* is served on two connections at once.                                   *)
THEOREM NoPlayerIsMissed == Spec => []NoMissingPlayer
<1>1. ASSUME IInv
      PROVE  NoMissingPlayer
  <2>1. SUFFICES ASSUME ~OverlappingSessions, NEW c \in clients, NEW o \in clients,
                        ~closed[c], PresenceFramesTo(c, acct[o]) = {}
                 PROVE  view[c].presence[acct[o]] # Offline
    BY DEF NoMissingPlayer
  <2>2. ASSUME NEW t \in Goroutines, NEW m \in out[t]
        PROVE  ~(m.to = c /\ m.op = "PRESENCE" /\ m.account = acct[o])
    BY <2>1, <2>2 DEF PresenceFramesTo, FramesTo
  <2>3. PlayersCovered
    BY <1>1 DEF IInv
  <2> QED
    BY <2>1, <2>2, <2>3 DEF PlayersCovered
<1>2. IInv => NoMissingPlayer
  BY <1>1
<1> QED
  BY <1>2, Invariance, PTL

(* The hub implements the life of a game: ids in order, each for one game, *)
(* which is ready at most once and never comes back once dropped.          *)
THEOREM HubImplementsLifecycle == Spec => LifecycleSpec
<1>1. Init => Lifecycle!Init
  BY LifecycleInit
<1>2. IInv /\ [Next]_vars => [Lifecycle!Next]_Phase
  BY LifecycleStep DEF IInv
<1> QED
  BY <1>1, <1>2, Invariance, PTL DEF Spec, LifecycleSpec, Lifecycle!Spec
=============================================================================
