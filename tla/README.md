# Silencer: a TLA+ model of the lobby and its game servers

Silencer is a multiplayer game.  Players meet in a **lobby server**
(`services/lobby`, Go); the lobby starts one **dedicated server** process per
game (`clients/silencer -s`, C++); **game clients** talk TCP to the lobby and UDP
to the dedicated server.  This directory holds TLA+ modules that model the
lobby (its hub, processes, accounts and maps), a game on its dedicated server (its
peers, its snapshots and the rules of a match) and the client's self-update, TLC
configurations that check them on small instances, and proofs that TLAPS checks for
every size.

## 1. The system

| Component | State | Operations | Talks to |
|---|---|---|---|
| **Hub** `services/lobby/hub.go` | `nextGID`, `games`, `pending`, `clients`, `heartbeats`, all under `Hub.mu`; a timer per pending game | `Join`, `Leave`, `RequestCreateGame`, `failPending`, `OnHeartbeat`, `GameExited`, `SetClientGame`, `BroadcastClientPresence`, `Chat`, `KickAccountID` | connections (frames), process manager (Start, Stop, the exit callback), event publisher |
| **Connections** `client.go` | `accountID`, `user`, `channel`, `gameID`, `gameStatus`, `closed` | one goroutine per connection reading frames; `send` with a 5 s deadline; pings every 10 s; a 30 s read deadline | hub, store |
| **Process manager** `proc.go` | `procs`, a waiter goroutine per child | `Start`, `Stop`, `StopAll` | the operating system; hub (`onExit`) |
| **Heartbeat listener** `udp.go` | the socket buffer | `serveUDP` | hub |
| **Player store** `store.go` | users, characters, statistics, bans; `lobby.json` | login, create, select and rename character, update and upgrade stats, ban, delete | Mongo mirror |
| **Player auth** `playerauth.go`, `won_compat.go` | none | HTTP handlers: login, ban, delete | store, hub (kick) |
| **Mongo mirror** `mongosync.go`, **events** `events.go` | connections to MongoDB and RabbitMQ | asynchronous upserts; best-effort publishing | outside services |
| **Map store** `maps.go` | map files, index, links | upload, fetch, delete | the file system |
| **Client lobby connection** `clients/silencer/src/net/lobby.cpp` | game list, presence, create-game status, socket buffers | the receiving switch, requests | lobby server; game loop |
| **Game loop** `game/loop/game_loop.cpp`, **connect flow** `game/session/` | screen, `creategameclicked`, current game | the create-game pump, joining, map download | client lobby connection, world |
| **Dedicated server** `net/dedicatedserver.cpp`, `game/init/game_init.cpp` | empty time, ban list, heartbeat counter | start-up, heartbeat, quitting when empty | lobby (UDP), peers |
| **Peers** `world/network/world_network.cpp`, `world_peer_registry.cpp` | peer slots, parked peers, host | connect, disconnect, park, rejoin, ready | clients (UDP) |
| **Replication** `world/network/world_replication.cpp` | snapshots by tick, acknowledged base | delta snapshots | clients (UDP) |
| **Updater** `clients/silencer/src/updater` | the state the screen shows, a worker thread, a cancel flag; the installed bundle, `.new`, `.old`, the downloaded archive | offer, consent, download, verify, hand over to stage 2, swap, relaunch | lobby (a refused version), other clients of the same installation |
| **Launcher** | running process | download, start | manifests |
| **Match rules** `game/modes/data_retrieval_mode.cpp`, `game/actor/team.cpp`, `stations/terminal.cpp`, `objects/pickup.cpp`, `actors/player/player.cpp` | terminals, teams' progress and secrets, who carries what | hacking, locating, taking, dropping, returning and tracing a secret | peers (drop-outs, kicks), session (the end of a match) |
| Physics, rendering, UI, web, admin API, SDKs, tools | see `PROJECT.json` | | |

### What is hard

* *Goroutines and the hub's lock.*  Every handler decides under `Hub.mu` and acts
  after it: it stops processes, starts them, sets timers and writes frames
  unlocked.  Connection goroutines, the UDP goroutine, timer goroutines and
  waiters interleave between any two of those steps.
* *Frames written outside the lock.*  Two goroutines can tell one client about one
  game or player in either order.
* *A game has many keepers.*  A create request ends by a heartbeat, a timer, a
  failed start, a child that exits, a `Leave` or the next request, and several can
  happen at once.
* *Processes.*  A child exists before the lobby can find it, dies when it likes, and
  its last datagrams may be read after its death.  Ports are reused.
* *Two connections of one account.*  Nothing forbids them.
* *Files.*  The store and the map store change memory first and ignore errors when they
  save, and the map store those of its links; a crash may fall between any two writes,
  and a download reads its file after it gave up the lock.
* *Copies.*  A connection keeps its own copy of its user, a ban and its kick are two
  steps, the mirror's writes come in any order.
* *Peers that come and go.*  A match parks who drops out; slots, teams, players and
  results are found through each other, by number and by account.
* *Deltas over UDP.*  Server and client must hold the same base for a snapshot,
  whatever was lost, repeated or reordered, in rings that overwrite themselves.
* *An update outlives its client.*  A worker thread, the main loop and a second process
  hand it on; each may die, and a new client may start beside them.
* *One tick, many objects.*  Terminals, teams and players tick one after the other and
  change each other.
* `PROJECT.json` lists each hazard at its line, with the properties that watch it.

### What makes each part correct

* **Hub**: ids are handed out once; a game goes unused, pending, ready, gone and
  never back; nobody kills the server of a live game; no server outlives its
  game; a player has one game; every client's list converges to the hub's; every
  create request is answered.
* **Process manager**: what `Stop` must kill it can find, or somebody else is about to
  kill; live servers have ports.
* **Client**: it joins the game it created, and leaves its waiting panel when there
  is none.
* **Store**: an id stays whose it was; a result counts once, in the counters' width;
  a banned player is not served once it is kicked; others see the characters one has;
  the mirror follows.
* **Map store**: index, files and links agree after any crash; a download is whole.
* **Peers**: a team holds peers that are there, a parked place is kept for its account,
  nobody enters a match late, everybody that played gets one result.
* **Replication**: a client rebuilds the state the server sent, whatever is lost.
* **Match**: no secret is made up or counted twice, a team locates one at a time, the
  first team with enough wins at once.
* **Updater**: a cancel that is in time holds; what is installed was verified; some
  whole release is always on disk.

## 2. Modules

| Module | What it models |
|---|---|
| `LobbyView` | what a client shows of the lobby: a fold of `Show` over the frames it receives, and its create-game status |
| `ProcManager` | the table of children, the operating-system process of each game, its waiter and its port; one operator per half-step |
| `LobbyHub` | the hub with its goroutines, connections, timers, heartbeats and frames on their way; extends the two above |
| `LobbyHubProperties` | what the hub promises; what the documentation says and the code does not do |
| `LobbyHubInvariants` | the inductive invariant, in named parts |
| `GameLifecycle` | the abstract specification: the life of a game |
| `MCLobbyHub` | instances for TLC |
| `ProcPool` | the process manager under any callers, up to the lobby's shutdown |
| `LobbyHub_proofs` | proofs about the hub |
| `ProcPool_proofs` | proofs about ports and shutdown |
| `PlayerStore` | the store's contents and every change and file conversion, as operators |
| `Accounts` | the store under its lock, `lobby.json`, connections, bans and kicks, the Mongo mirror; extends `PlayerStore` |
| `MapStore` | community maps: memory, files, index and links, step by step |
| `GamePeers` | the players of one game on its server, from connecting to results |
| `Snapshots` | delta snapshots from the server to one client |
| `Secrets` | a data-retrieval match, in the order of the world's tick |
| `Updater` | the client's self-update, its worker and its stage 2, on one installation |
| `MCAccounts`, `MCMapStore`, `MCGamePeers`, `MCSnapshots`, `MCSecrets`, `MCUpdater` | instances for TLC |
| `GamePeers_proofs` | proofs about the players of a game |
| `Secrets_proofs` | proofs about a match |
| `Updater_proofs` | proofs about the self-update |
| `MapStore_proofs` | proofs about the map store |
| `Snapshots_proofs` | proofs about delta snapshots |
| `Accounts_proofs` | proofs about accounts: levels, the store's operations, the file, kicks, copies and the mirror |

`LobbyHub` composes: it extends `ProcManager`, which extends `LobbyView`, and each of
its actions says what it does to the hub's tables, to the connection's goroutine, to
the children and to the frames on their way.  `GameLifecycle` is instantiated in
`LobbyHubProperties` with `phase` computed from `pending`, `games` and `nextGID`.

### How state and actions correspond to the code

* A connection (`Clients`) is used once: a player that reconnects takes another
  element.  `cpc[c]` is the place of its goroutine: `reading` frames, `joining`,
  `create` (dropping old games), `spawned` and `arming` (inside `proc.Start` and
  before `time.AfterFunc`), `startfailed` and `failing` (inside `failPending`),
  `leave`, `gone`.
* `games`, `pending`, `clients`, `nextGID` are the hub's fields; `info[g]` is the
  `LobbyGame` with its owner.  `timer[g]` is the timer and its goroutine:
  `unset`, `armed`, `stopped`, `fired`, `failing` (after the critical section of
  `failPending`), `done`.
* `out[t]` holds the frames goroutine `t` has decided on and not yet written.  A
  critical section fills it; `Deliver` writes one frame; the goroutine goes on when
  it is empty.  It is a set: a goroutine's frames of one fan-out go to different
  clients or are about different games and players, so their order is not visible.
  One exception over-approximates: when one account is on two connections, `Join`
  sends two presence frames about it, in the code in a fixed order.
* `WriteFails` is `send` failing on a `SlowClients` connection: the connection is
  closed for good and its own goroutine's read fails next.
* Each critical section is one action: `Join`, `Leave`, `RequestCreateGame`,
  `FailStart`/`FailPending`, `HeartbeatReady`/`HeartbeatUpdate`/`HeartbeatUnknown`,
  `GameExited`, `SetClientGame`, `BroadcastClientPresence`.  What follows each outside
  the lock is further actions: `LeaveStop`, `CreateStop`, `StartSpawns`,
  `StartRegisters`, `ArmTimer`, `FailStartReply`, `FailPendingReply`.
* `procManager.Stop` has two halves: under `p.mu` it takes the child out of `procs`
  (`StopFinds`), after the unlock it kills it (`StopKills`); `doomed` holds the children
  in between, and a `Stop` that finds nothing does nothing (`StopMisses`).  In the hub
  these are `StopFindsChild` or `TimerFinds`, and then `LeaveStop`, `CreateStop` or
  `FailPendingReply`.  In `ProcPool` any number of goroutines may be between the halves;
  `mine` is the child the `Stop` of `StopAll`'s own loop has taken.
* `os[g]` is the process: `none`, `spawned`, `serving` (port bound or not, connected
  to the lobby), `dead`.  A `kill` takes effect at once.
* `net` is the UDP socket buffer; a datagram is lost when it is full.
* `view[c]` is the client at the other end, and `asked[c]` its create request on the
  way.  A client asks again only when its waiting panel is gone.

* **Accounts.**  `mem` and `file` are the store in memory and `lobby.json`; `lock` is
  `Store.mu` with the request that holds it.  A change takes two steps: the handler
  changes `mem` (`LoginNew`, `CreateCharacter`, `UpdateStats`, ...), and `Save` writes
  the file or fails, starts the mirror's goroutine, answers, and gives the lock back.
  `Crash` may fall between them; `Start` is `NewStore`, which migrates, sweeps and
  saves.  `copy[c]` is `c.user` as others are shown it.  A store call returns a snapshot
  of the account (`got[c]`) and has released `Store.mu` by then; `SetUser` makes it the
  copy, and only then does the handler of `c` go on to `Join` or to the next request.  A
  ban fills `kicks`, and `KickAccountID` closes one connection, whichever Go's map
  yields first.  `writes` are upserts on their way, `syncing` what `SyncAll` has still
  to go through.
* **MapStore.**  `op` is the change that holds `mu` and the step it is at: `write` (the
  file), `index`, `link`.  `Upload` and `Delete` begin a change, `Written`, `SaveIndex`
  and `UpdateLink` take it on, `WriteFails` and `Crash` cut it short.  `saveIndex` may fail
  in each of its calls (`NotSaved`): the temporary file (`temp`) is written in part, or
  not opened and stays what an earlier failure left; it is renamed, or not, and then the
  old index stays.  A link may fail to be made or removed, in a change (`unlinked`) and at
  a start (`failed`), and links may be off (`linking`).  The index keeps
  `bySHA1` in the order Go's map iteration had, so of several maps of one name any may
  come last (`Orders`).  `get[d]` is a download between `LookUp` and `ReadFile`.
* **GamePeers.**  `peers` is `peerlist`, `teams` the team objects by number, `roster`
  `ingameusers`.  A datagram, the sweep or a phase of the tick is one action, as the
  server is one thread.  `phase` puts `gameplaystate`, `sharedstate` and the end of the
  match together; `crashed` is where the code follows a null pointer.
* **Snapshots.**  `sent` and `kept` are the two sides' `oldsnapshots`, rings of `N`
  slots; `acked` is `peer.lasttick`, `acks` the inputs that carry it.  `near` is what
  `RelevantToPlayer` lets through, chosen anew each tick.  `truth` in a packet is
  history: what the decoded snapshot is compared with.
* **Secrets.**  `turn` is the object whose turn it is: newer objects and the terminals,
  each team, then the inputs and the network.  Where players are is their choice; a
  clock of seconds may run out at any tick.  `ptrace[p]` is a player's `tracetime`,
  which runs on after a secret was returned until its next tick.  `carrier`,
  `delivered`, `beaming` are the teams' `playerwithsecret`, `secretdelivered`,
  `beamingterminalid`.

* **Updater.**  `client[c]` is a process: `run` is where its main thread is (`joining`
  inside `Consent`, which waits for the last worker; `exiting` from the end of
  `Game::Loop` to the end of the process), `worker` where its worker is, `state`, `sha`,
  `cancel` and `retries` are the fields of `Updater`, `updating` says that the update
  screen is open.  `Fetched` is the download's end and the one look at the flag;
  `BeginVerify` and `HandOff` are the other two locked sections of `Run`, and
  `Compared`, between them, is the comparison of the hashes, which holds no lock: an
  offer may come on either side of it.  `verified` is history: the release the
  comparison found good, which is what `PumpStage2` launches.  `stage2[c]` is the
  process `PumpStage2` started: it removes leftovers, extracts, and swaps by two renames
  (`Park`, `Place`), each of which may fail.  `install`, `staged`, `old`, `zip` are the
  disk, shared by all.  `Die` and `Crash` kill a client or a stage 2 anywhere;
  `Relaunch` and the player (`Open`) start clients, also beside a parent that has not
  ended in the ten seconds stage 2 waits.

### Abstractions

A row is its game id and status (name, map, password, teams are payload); a report is
the server's state byte together with its parked accounts; presence is a game id and a
status, without the name.  The `heartbeats` map is telemetry nobody reads back and is
left out, as are chat, message of the day, channels and the event publisher.
`KickAccountID` is modelled with the accounts, where `Join` and `Leave` are what the
hub's are to them.  `Accounts` has one upgradable statistic for the five that are
upgraded alike, and one agency of the former file format for the five; passwords are
left out (a login that fails changes nothing).  A result's experience is not negative
and fits the game server's `int` (`MatchAssumption`), so the store's sum of it and a
character's 16 bits (`store.go:355`) stays in its 32 bits.  `Snapshots` has objects of
one field; its network loses a snapshot that would come after its base's slot was taken
(`InTime`), as the code does not check this and promises nothing beyond.  The login's
verdict is left to the choice of who logs in (`Logins`).  `OverlappingSessions` says
whether an account may log in while an older connection of it is still served; the code
never checks, so `TRUE` is the code, and `FALSE` is the environment in which players use
one connection at a time. Properties that need `FALSE` say so in their own text.

`Updater` is the update on macOS, one of the two platforms the lobby offers it to.  A
bundle or an archive is a release, or `Torn`; that a bundle of one release is whole is
taken from the archive's being whole, which is what the hash is of.  The code's attempts
to remove a directory are taken to succeed unless their process dies.  The proviso
`~second` says that the player opened no second client beside a client or a stage 2: the
code has no lock for this, and with one the properties fail (below).

## 3. Properties and runs

Ids (`MaxGID`), connections, accounts, the socket buffer (`MaxNet`) and the values of
reports are the only bounds of the hub.  Ids are handed out by the code's 32-bit
counter, whose wrap-around is out of scope.  Deadlock is checked in `secrets` only: the
other systems may rest, when every connection is gone, every id used, a bound on changes
reached, or no bundle left in place to start.

| Run | Instance | Shows |
|---|---|---|
| `hub_two_players` | 2 connections, 2 accounts, 1 game; two reports | `NoMissingRow`; `LifecycleSpec`, the refinement of `GameLifecycle` |
| `hub_one_owner` | 1 connection, 2 games, failing writes, fairness | `TypeOK`, `NoKillOfLiveGame`, `NoContradiction`, `NoOrphan`, `OneGamePerPlayer`, `CreateAnswered`, `DroppedServerEnds`: the second request races everything left over from the first |
| `hub_players` | 3 connections (a player that reconnects and another one), 1 game, failing writes | `NoMissingPlayer` |
| `pool_shutdown` | 3 games on 2 ports, any number of `Stop`s at a time | `NearbyGamesGetPorts`, `SurvivorsWereTaken` |
| `accounts` | 2 names, 4 ids, 3 characters, 2 connections, or 1 and the mirror; an old file with a veteran at level 98, alone or with a second account to migrate; 3 changes, crashes or failed writes | `TypeOK`, `OneIdentity`, `ResultsCounted`, `BanSurvivors`, `OwnChangesShown`, `MirrorFollows` |
| `maps` | 2 contents, 3 spellings of 2 names, 1 download; 6 changes, crashes or failed calls | `CatalogueStored`, `DownloadsWhole`, `LinksFollow` |
| `peers` | 2 accounts, 3 clients, 3 slots, 2 teams of 2 | `TeamsOfPlayers`, `PlacesKept`, `NobodyJoinsLate`, `OneResult` |
| `snapshots` | 1 object, 2 values, rings of 3, ticks 5 to 11, 1 peer list or drop-out | `NewestDecoded` |
| `secrets` | 2 players against 1, 2 terminals, 1 secret at a time | `TypeOK`, `CarrierCarries`, `WinnerHasEnough`, `NothingFromNothing`, `OneLocationAtATime` |
| `updater` | 2 releases, 2 client processes, 1 retry | `TypeOK`, `CancelHolds`, `InstallsWhatWasVerified`, `WholeReleaseStays` |

One game and two players are enough for rows: every row property is about one
client and one game, and another goroutine is needed only to race with, which the
owner's connection, the UDP goroutine, the timer and the waiter all are.  Two games
of one player are enough for the races of a request with its predecessor: each
request drops all earlier ones, so a third game meets only what the second met.
`hub_one_owner` has one value of report, as its properties do not look at them.
`hub_players` drops every heartbeat (`MaxNet = 0`): its game stays pending until it
times out, which is enough for a place to name it, and keeps three connections small.
Three games on two ports give one pair that shares a port and two that do not.

*Accounts*: a change, a crash and a change that would reuse an id are the three steps
`OneIdentity` needs; a veteran at level 98 reaches the top level and the 16-bit edge of
its experience with one result; two connections of one account are what a kick and a
copy can miss.  The lobby either has a mirror and one connection or none and two
(`Casts`): the mirror sees only the store.  With two connections both accounts have
progress to migrate, in either order of Go's map; `MaxChar` leaves one id to create.
*Maps*: two spellings of one name are what a link and a key can disagree on, two
contents what an upload can replace; six changes let a content be uploaded, deleted,
uploaded again under another name, cut short and restarted.  *Peers*: one account with
two clients gives two peers of one account, a third slot lets somebody else connect; two
teams of two give a change of team and of agency room to succeed and to fail.
*Snapshots*: the rings have 36 slots in the code; three suffice for a base to be
acknowledged, overwritten, and found again by the wrap, and seven ticks let this happen
twice.  *Secrets*: two agents of one team can carry, hack and die around each other, the
third is the other team and may drop out or be kicked (`Leavers`); `MaxSecrets` bounds
what is located, about or counted at a time.  With one secret there is one carrier:
`secrets_two.cfg`, run by hand, has two secrets and two carriers around one terminal,
and the theorems any number. *Updater*: two releases let an archive hold another than
the one asked for, and let a client be moved on and back; the second process is the
successor of a parent that is slow to end, or a client opened by hand.  Nothing else is
bounded but the retries the screen offers (3 in the code).

The violation runs check what the repository says of itself and find a
counterexample; the findings in `PROJECT.json` quote the lines.

| Run | The code |
|---|---|
| `hub_ghost_game` | A server exits while its game is pending; `GameExited` ignores pending games; the heartbeat still in the socket buffer then lists the dead game. |
| `hub_wrong_game_joined` | The client takes an update of its previous game for the answer to its request. |

### Known divergences

These configurations state what the repository says and also end in a counterexample.
They are kept to be run by hand (`tlc -config <name>.cfg <module>`).

| Configuration | The repository says | The code |
|---|---|---|
| `hub_stale_row` (`NoStaleRow`) | "the server fans out `opDelGame` for any game owned by the leaver and `opPresence` (action=remove) to peers" (`shared/lobby-protocol/protocol.md:91-93`) | `Leave` (`hub.go:149-153`) and `GameExited` (`:190-192`) send their `DELGAME`s after the lock, while the UDP goroutine still writes the `NEWGAME`s of a heartbeat handled before: the row stays. |
| `hub_stale_player` (`NoStalePlayer`) | the same | `Join` writes its snapshot of the players (`hub.go:85-88`) after the `Leave` it did not see: the player that left stays listed. |
| `hub_failure_shown` (`FailureEndsTheWait`) | status 2 "triggers the client's \"Could not create game\" dialog" (`hub.go:358-359`) | The lobby tick tests for status 1 only (`game_loop.cpp:588`): the waiting panel stays. |
| `hub_overlap_server_left` (`NoServerOfAGoneCreator`) | "when a creator disconnects, the lobby kills their spawned dedicated server" (`services/lobby/README.md:96-97`) | With two connections of one account, `Stop` runs between fork and registration (`proc.go:56-61`): the server is never killed. |
| `pool_ports_run_out` (`PortPerConcurrentGame`), module `ProcPool` | "up to 200 concurrent games", "one UDP port per concurrent game" (`README.md:22`, `:39`) | The port is base + id % count, whoever holds it (`proc.go:53`): a long game keeps the port of a later id, whose server is advertised with port 0. |
| `accounts_mirror` (`MirrorUpToDate`) | "every mutation ... is asynchronously upserted ... so the admin dashboard always has up-to-date data" (`services/lobby/README.md:83-86`) | Each upsert is a goroutine of its own (`mongosync.go:68`): an older document may be written last and stays until the next change. |
| `maps_restart` (`LastUploadWins`) | "(last-upload wins)" (`maps.go:42`), "Delete removes a map by name" (`:248`) | A replaced map stays in `bySHA1`, and the index lists it in no order (`maps.go:151`): after a restart a name may stand for an older map, or for one again that was deleted. |
| `peers_agency` (`EverybodyHasATeam`) | a player that switches its agency is reassigned "to the correct team immediately" (`CHANGELOG.md:627-629`) | `MSG_SETAGENCY` takes the peer out of its team and ignores that no other was found (`world_network.cpp:405-408`): it enters the match without a player. |
| `peers_spectator` (`NoSpecialSkip`) | "Observers are not added to `ingameusers` on connect, so no special skip is needed" (`docs/superpowers/specs/2026-05-10-spectating-phase3-design.md:136-137`) | An account that plays also watches with a second client; when results are counted the server reads the agency of that peer's team (`game_session.cpp:190`), before it asks whether there is one: there is none. |
| `updater_cleanup` (`OnlyStaleLeftovers`) | a client's start "removes stale updater leftovers from a prior ... self-update" (`updaterstage2.h:13-15`) | It removes `.old` unasked (`updaterstage2.cpp:392-396`): a client opened just before stage 2 parks the old version there removes the only copy the rollback has. |
| `snapshots_deletions` (`DeletionsReported`) | the comment on the search for deleted objects since the last acknowledged snapshot (`world_replication.cpp:346-348`) | Snapshots are kept at tick % ring, and searched at age % ring (`:349`); the search ends after one slot once ticks exceed the ring (`:366`): a deleted object seen only in the others is not reported. |
| `snapshots_rejoin` (`RejoinDecoded`) | "retaining ... snapshot history", "with all state intact" (`CHANGELOG.md:272-274`) | A client that comes back within the ring's length gets deltas against snapshots it no longer has. |
| `secrets_terminal` (`TerminalOfOneTeam`) | "one that is not already beaming or has a secret ready" (`docs/specs/07-game-objectives.md:27-28`) | A terminal chosen while it is hacked falls back to `HACKERGONE` when the hacker goes (`terminal.cpp:59-65`) and may be chosen for the other team. |
| `secrets_returns` (`EachReturnCounts`) | "`team.secrets` increments by 1" (`07-game-objectives.md:77`) | Two agents of a team return secrets in one tick; the second overwrites `secretdelivered` (`player.cpp:2605`), one is counted. |

Met on the way, with no property of their own: a secret whose trace runs out in an
agent's hands is destroyed (`player.cpp:354-364`), while the document says it is dropped
(`07-game-objectives.md:67`); a kicked agent takes its secret with it and its team goes on
following it (`CarrierCarries` leaves out those that are gone); progress is lost when no
terminal is free (`team.cpp:74-79`); a kicked player gets a loss at once and another at the
end, and two peers of one account have its result counted twice (`OneResult` speaks of
accounts that played once and were not kicked).  An update the player cancels after the
worker looked at the flag goes on, and may be installed while the screen offers it anew
(`updater.cpp:176`); all clients of a machine download to one file (`:170`), so one may
take another's archive from under its stage 2; when a rename fails stage 2 ends without
starting any client (`updaterstage2.cpp:500-507`), and when it dies between the two nothing
ever moves `.old` back; on Windows files are replaced one by one (`:351-378`), and a failure
leaves a mix of two versions, as its log says.

### Fairness

`Fairness` asks weak fairness of each connection's goroutine, of each timer and
waiter, of the UDP goroutine and of each writer: the Go scheduler is fair, `send`
ends within its deadline and the runtime's timers fire.  `RequestCreateGame` gets
strong fairness: its goroutine alternates between this and other frames, and a request
that has reached the connection is read in its turn.  A connection whose write
failed is closed, so its read fails and `Leave` runs.  Nothing is asked of players,
clients' game loops or dedicated servers: they may stop, crash or keep silent, and
`CreateAnswered` holds all the same because of the 30 s timer.

The other modules state no fairness and no liveness: whether a match is won, a map is
uploaded or a client comes back is up to players and the network.

### Mutants

Each property of each passing run has a mutant in `PROJECT.json`: an operator placed
before a definition that changes it as a plausible slip would (`FailUnchecked` forgets
to look whether the game is still pending, `OwnerOnly` forgets the other clients,
`StopForgets` drops the table entry without the kill, `ArmNothing` forgets the timer,
`WantedPortQuotient` takes `\div` for `%`, `DeleteUnasked` removes a file another name
still has, `BasesLate` is off by one about the age of a base, `HandleDisconnectInTeam`
leaves a slot in its team, `DropAllItemsKept` drops a secret and keeps it).  With it the
property fails.

## 4. Proofs

TLAPS checks, for any sets of connections and accounts, any number of games, any port
range and both values of `OverlappingSessions`:

| Theorem | Says |
|---|---|
| `Invariance` | `Spec => []IInv` |
| `TypeCorrect` | `Spec => []TypeOK` |
| `LiveGamesAreSafe` | `Spec => []NoKillOfLiveGame` |
| `AnswersAreConsistent` | `Spec => []NoContradiction` |
| `OneGame` | `Spec => []OneGamePerPlayer` |
| `NoServerIsLost` | `Spec => []NoOrphan` |
| `NoRowIsMissed` | `Spec => []NoMissingRow` |
| `NoPlayerIsMissed` | `Spec => []NoMissingPlayer` |
| `HubImplementsLifecycle` | `Spec => LifecycleSpec`, the refinement |
| `SurvivorsAreExplained` | `PoolSpec => []SurvivorsWereTaken` |
| `NearbyGamesDoNotCollide` | `PoolSpec => NearbyGamesGetPorts` |

and, in `Secrets_proofs`, for any finite sets of players, teams and terminals and any
numbers of secrets:

| Theorem | Says |
|---|---|
| `TypeCorrect` | `Spec => []TypeOK` |
| `TheCarrierCarries` | `Spec => []CarrierCarries` |
| `TheWinnerHasEnough` | `Spec => []WinnerHasEnough` |
| `LocatesOneAtATime` | `Spec => OneLocationAtATime` |
| `NothingIsMadeUp` | `Spec => NothingFromNothing` |

and, in `GamePeers_proofs`, for any accounts, clients, agencies, slots and limits:

| Theorem | Says |
|---|---|
| `TypeCorrect` | `Spec => []TypeOK` |
| `TeamsCorrect` | `Spec => []TeamsOfPlayers` |
| `PlacesCorrect` | `Spec => []PlacesKept` |
| `LateCorrect` | `Spec => []NobodyJoinsLate` |
| `ResultsCorrect` | `Spec => []OneResult` |

and, in `Updater_proofs`, for any clients, releases and number of retries:

| Theorem | Says |
|---|---|
| `TypeCorrect` | `Spec => []TypeOK` |
| `CancelCorrect` | `Spec => []CancelHolds` |
| `InstallCorrect` | `Spec => []InstallsWhatWasVerified` |
| `WholeCorrect` | `Spec => []WholeReleaseStays` |

and, in `MapStore_proofs`, for any names, spellings, contents and downloads:

| Theorem | Says |
|---|---|
| `TypeCorrect` | `Spec => []TypeOK` |
| `CatalogueCorrect` | `Spec => []CatalogueStored` |
| `DownloadsCorrect` | `Spec => []DownloadsWhole` |
| `LinksCorrect` | `Spec => []LinksFollow` |

and, in `Snapshots_proofs`, for any objects, values, length of the rings and delay up to
that length:

| Theorem | Says |
|---|---|
| `TypeCorrect` | `Spec => []TypeOK` |
| `NewestCorrect` | `Spec => []NewestDecoded` |

and, in `Accounts_proofs`, for any names, characters, connections, results, files an
earlier lobby wrote, and any number of changes, crashes and failed writes:

| Theorem | Says |
|---|---|
| `AccountsKept` | `Spec => []AccountsInv` |
| `TypeCorrect` | `Spec => []TypeOK` |
| `IdentitiesAreKept` | `Spec => []OneIdentity` |
| `EveryResultCounts` | `Spec => []ResultsCounted` |
| `OnlyMissedStay` | `Spec => []BanSurvivors` |
| `OwnChangesAreShown` | `Spec => []OwnChangesShown` |
| `MirrorIsCurrent` | `Spec => []MirrorFollows` |

The assumptions are the named `ASSUME`s of the modules the proofs extend, about their
constants only: what sets they range over (`MaxGIDAssumption`, `PortAssumption`,
`KeyAssumption`, ...), that a mark for nothing is none of the values it stands beside
(`MarkAssumption`, `NothingAssumption`, `AbsenceAssumption`, `LockAssumption`), and bounds
the code's own constants meet.  One is about data: the file a lobby first finds
(`CastAssumption`) was written by a lobby (`WellKept`): an id is one account's, a
character is one account's, and no experience has reached the next level.  How many of
its accounts have still to migrate is left open.  TLC
evaluates them in the runs of those modules.

**The invariant of the hub.**  None of the properties is inductive.  `IInv` is the
conjunction of:

* `HandedOut`: an id not yet handed out has no timer, process, waiter or table entry,
  and one that was has an owner.  Needed because `RequestCreateGame` takes `nextGID`
  and everything said of other games must be said of nothing for it.
* `LiveGames`: a game is not both pending and ready, and nobody is about to stop a live
  one.  Inductive with `HandedOut`: whoever stops a game removed it first, and only
  `RequestCreateGame` adds one, with a fresh id.
* `FramesAgree` and `Consistent`: a frame on its way agrees with the tables *now*.  A
  row is on its way only after its game left `pending` for good; a failed or deleted
  one only when it is in neither table.
* `Ownership` and `OneGamePerPlayer`: whose the games are, and that the owner is still
  served.
* `Children` and `NotLost`: which children `procs` holds.  A live child not in `procs`
  or `doomed` belongs to a connection between fork and registration (`NoStray`), and then
  its game is still pending, as neither its timer nor its waiter exists yet (`StartUntouched`).
  This is the argument for `NoOrphan`, and the place where two connections of one
  account break it.
* `QuietGoroutines` and `RowsCovered`: a goroutine fills `out` only when it is empty, so
  no announcement is overwritten; every joined client shows a listed game or has its
  announcement on the way.
* `PlayersCovered` and `OfflineLeft`: the same of players.  A joined client shows every
  joined player or has a frame about it on the way.  That frame must not be the one that
  takes the player off: such a frame is written by the connection the player is leaving
  by (`OfflineLeft`), and while no account is on two connections that player is not
  joined; with two the hub announces the one that stays no more, and the part is false.

Each part has a lemma that every step preserves it (one step per action, one level
down per conjunct the action disturbs).
`LifecycleStep` maps each step to a step or a stutter of `GameLifecycle`: `Leave` and
`GameExited` to `End`, `FailStart` and `FailPending` to `End`, `RequestCreateGame` to
`Request`, `HeartbeatReady` to `Ready`.

**The process manager.**  `PoolInv` says that each serving child holds the port it wants
or none, and that a child `StopAll` found is dead, or still to be stopped and still in
`procs`, or taken out of it by a `Stop` that has not killed it.  `StopAll`'s own `Stop`
kills what it took before the loop goes on; another goroutine's may lose the race
against `os.Exit`, and then the child outlives the lobby although `StopAll` had found
it.  `main` waits for no other goroutine, so this is all a shutdown promises.  The ports
need a lemma of arithmetic: ids less than `GamePortCount` apart have different
remainders.

**A match.**  `TypeOK` is inductive as it stands, with the guards of `PickUpItem` and
`TraceOfPickUp` keeping the counts of what lies about above zero.  `CarrierCarries` and
`WinnerHasEnough` are inductive with it.  `OneLocationAtATime` needs an invariant of its
own, `LocatedOnce`: a team that waits for a terminal has no progress, since
`OnSecretBeamReady` resets it and neither `Hack` nor `BuyInfo` adds any while it waits;
so it never reaches the threshold again before it forgets the terminal.
`NothingFromNothing` compares counts before and after a step.  `Each` makes the numbers
that lie about or are counted into sets, one element for each, so that one more for a team
is one element more (`OneMore`) and all counts are cardinalities of finite sets
(`EachFinite`, `PartIsSmaller`).  Then `TotalStep` goes through the actions: each changes
at most two of the counts, up in the one by no more than down in the other (`OnlyMoves`),
or touches terminals only, where what becomes ready is what the property allows
(`OnlyTerminals`).

**The players of a game.**  Every step is of one of a few kinds (`StepKinds`): nobody
moves, the match starts, somebody comes, changes the team, or goes for good.  The
invariant has a lemma per part over these kinds: the members of a team are players that
are there (`MembersPlay`) and of that team only (`OneTeam`, which gives `TeamsOfPlayers`);
in a match each of them is in the line-up (`StartedWith`, which is `NobodyJoinsLate` by
slot), and each of the line-up still has its place (`PlacesKept`): who goes for good is an
observer, and observers are in no team, or was kicked.  `NoResultYet` says that only an
account that was kicked has a result before the count.  `OneResult` then follows when
results are counted (`Counts`, `WonWithTeam`): the winner's team is among the teams of the
account's peers exactly when it is the one the account started in, since any peer of it in
a team is in the line-up too.  That the line-up is finite, which cardinalities need, is
part of the invariant, as accounts may be infinitely many.

**The self-update.**  The invariant has three parts besides the types.  `Orderly`, for
each client: a cancel that was in time keeps the flag up until the next consent, and
that comes after the join, so no worker is left to miss it (`CancelHolds`); stage 2 has
no client beside it but an ending one.  `OneActive`: without a second client one process
at a time is in charge of the disk, and `Relaunch` passes this on.  `DiskInv` then says
what the one in charge finds (`Held`): a release in place until it is parked, then in
`.old`; an archive, and then a staged bundle, of the release it compared with its offer
(`verified`, not `sha`: a cancelled player may have been offered another since).  A step
on the disk is of the one in charge and must keep only its own `Held`; any other step
leaves the disk alone.

**The map store.**  The properties speak of the moments between changes; the invariant of
every step.  `Tables`: in memory and in the index, entries are filed where they belong and a
named map is listed.  `ListedStored`: what memory lists is stored, and so is what the index
or a leftover temporary file lists, but for the map a delete has removed and not yet struck
out; that is what a crash or a failed save adds to `cut` (`Hurt`), so that memory is right
again after `Start`.  `TornKnown`: half a file is
one being written or one cut short.  `ChangeUnderWay`: a file is written before the index
lists it, and a name is set or struck out before its link.  `NamesLinked` gives
`LinksFollow`: a link made or removed is no link of another name, as a spelling has one key;
a spelling whose link was last tried in vain is in `unlinked` until a try succeeds.
`DownloadsNamed` ties what `Kept` remembers to the names of now.

**Snapshots.**  `SnapshotInv` follows a base from the server to the client and back.  A
packet's slot on the server holds the packet's own snapshot or nothing (`SlotsOfPackets`),
and of two packets on their way the later tells what the earlier's snapshot was where it
left a field out (`Rebased`).  A tick that was acknowledged, or whose acknowledgement is on
its way, is held by the client for as long as the server may use it as a base (`AckedHeld`);
so a packet decodes to what the server saw now and whenever it comes (`PacketsDecode`),
since what is applied meanwhile takes another slot: ticks in one slot are `N` apart
(`OneTickPerSlot`).  `Ages` bounds how far apart ticks in use can be.  A client that comes
back within the ring's length breaks `AckedHeld`, which is the finding of
`snapshots_rejoin`.

**Accounts.**  Memory and `lobby.json` differ while a change is being saved and after a
failed write only (`SavedWhole`).  So most parts of `AccountsInv` say one thing of memory
and one of the file, leave out the account whose change is being saved (`Busy`), and are
handed on by `Save`, `Crash` and `Start`.

* `StoresKept` and `KnownTo`: an id and a character have one account, all are below the
  next ones, and whoever has what somebody was told is that somebody, in memory and in the
  file alike; a crash goes back to a file that already knows, as nobody is told before the
  file is written.  `Start` is where this needs the next character id to survive the loss
  of the characters: it is only raised (`FreeId`), and accounts that migrate get different
  ids above it (`LoadedIs`).
* `CountsKept`: the counters are those of the results, the one under way included (`Due`);
  a character not yet made has none.  Beneath it is arithmetic: `Levelled`, the loop, is
  proved to stop at the one level whose cost the experience covers (`LevelledIsClosed`,
  `OneLevel`), by a run of the loop that would be least among those that do not; then two
  results in turn bring what their sum brings, also at the last level where the experience
  wraps at 16 bits.
* `BannedAreKicked`: a connection of a banned account waits for its kick or was missed.
  `LockServes` and `AcctsGiven` say whom a request under way is about, and that no id to be
  given is in use, so that a new account is nobody's whose kick is due.
* `CopiesRenewed`: a connection's copy, or the snapshot its handler is about to make its
  copy (`ToBeShown`), is what the store holds, or its change is under way.
* `MirrorKept`: for an account whose writes did not cross and were not lost, an upsert on
  its way carries what memory holds (`OneUpsert`, `UpsertsFollow`), and with none on its way
  MongoDB holds it (`WrittenFollows`); `FileFollows` and `DeletedFollow` carry this over a
  crash, until `SyncAll` has been through.

A change has one lemma (`ChangeKeeps`): a sound change of one account, which leaves the
others alone (`OthersAreKept`), keeps every part.  Each operation is then shown to be one,
and `LoginNew` to `DeletePlayer` are a few lines each.

**Only model-checked**: the liveness properties (`CreateAnswered`, `DroppedServerEnds`),
which are out of the prover's reach.  What the violation runs check is false and has no
proof.

## 5. Not modelled, and the plan

What is left, the most exposed first:

1. **Lobby restart**: ids from 1 again while servers of the former lobby still send
   heartbeats; an abstract specification of what a heartbeat may be taken for.
2. **Client lobby connection**: connecting, version check, partial sends, silence of 20 s
   against pings every 10 s; fetching a map before joining.
3. **Events** of the hub in order, and the updater's replacement of files one by one on
   Windows.

Within the modelled parts these are left out: bots, passwords, tech choices and chat of a
game's peers; the server's ban list; the HTTP layers of the player and map APIs; the
serializer's bits and the client's jitter buffer; modes other than data retrieval, and a
match's other objects (guards, weapons, bases' equipment).

Left out for good: rendering, audio, UI, physics and animation (large integer state, no
interleaving to speak of), the web front ends, the admin API, SDKs, tools and
vendored code; the encoding of frames, for which the repository keeps test vectors.  They
are most of the repository's lines, so the lines the map covers stay a small share of it.

## 6. Running

    tlc -workers 2 -config hub_two_players.cfg MCLobbyHub
    tlc -workers 2 -config pool_shutdown.cfg ProcPool
    tlc -workers 2 -config accounts.cfg MCAccounts
    tlc -workers 2 -config maps.cfg MCMapStore
    tlc -workers 2 -config peers.cfg MCGamePeers
    tlc -workers 2 -config snapshots.cfg MCSnapshots
    tlc -workers 2 -config secrets.cfg MCSecrets
    tlc -workers 2 -config updater.cfg MCUpdater
    tlapm LobbyHub_proofs.tla
    tlapm GamePeers_proofs.tla
    tlapm Secrets_proofs.tla
    tlapm Updater_proofs.tla
    tlapm ProcPool_proofs.tla
    tlapm MapStore_proofs.tla
    tlapm Snapshots_proofs.tla
    tlapm Accounts_proofs.tla
