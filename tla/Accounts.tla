------------------------------- MODULE Accounts -------------------------------
(***************************************************************************)
(* Accounts in a running lobby: connections that log in and change their   *)
(* characters, dedicated servers that report results, administrators that  *)
(* ban and delete, the file the store is kept in, the MongoDB mirror, and  *)
(* crashes of the lobby.                                                   *)
(*                                                                         *)
(* Store.mu is held from a change to the end of its save: lock holds the   *)
(* request being saved.  A reader waits for it.  The temporary file of     *)
(* save is never read, so a crash before the rename leaves lobby.json as   *)
(* it was.  The error of save is ignored: faulty says one happened.        *)
(*                                                                         *)
(* Source: services/lobby/store.go, client.go, playerauth.go, hub.go,      *)
(* mongosync.go, won_compat.go.                                            *)
(***************************************************************************)
EXTENDS PlayerStore

CONSTANTS
    Clients,   \* the lobby's connections; a slot is reused after a Leave
    Free,      \* nobody holds Store.mu
    NoClient,  \* a request that is not a connection's
    NoMatch,   \* a request that is not a match result
    Casts,     \* how many connections are open at once, the accounts whose
               \* documents are followed when MongoDB is in use, and
               \* lobby.json as the lobby first finds it
    MaxSteps   \* bound on changes, crashes and failed writes together

(* The first file was written by a lobby.                                  *)
ASSUME CastAssumption ==
    /\ Casts \subseteq [served : Nat, watched : SUBSET IDs, file : Stores]
    /\ \A c \in Casts : WellKept(c.file)
ASSUME StepAssumption == MaxSteps \in Nat
ASSUME MarkAssumption == NoClient \notin Clients /\ NoMatch \notin Matches

VARIABLES
    up, mem, lock, file, \* the lobby process, its store, and lobby.json
    pc, acct, copy,      \* each connection, its accountID and its c.user
    got,                 \* what a store call returned to its handler, until
                         \* setUser makes it the copy
    cast,                \* which of Casts this lobby is
    kicks,               \* bans recorded whose KickAccountID is still to run
    mirror, writes, syncing, \* MongoDB, upserts on their way, SyncAll's rest
    steps,               \* changes, crashes and failed writes so far
    faulty, told, owners, results, excused, touched, crossed, lost
                         \* history, see below

storeVars == <<up, mem, lock, file>>
connVars == <<pc, acct, copy, got>>
mirrorVars == <<mirror, writes, syncing, crossed, lost>>
histVars == <<faulty, told, owners, results, excused, touched>>
vars == <<cast, storeVars, connVars, kicks, mirrorVars, steps, histVars>>

Requests == [op : {"login", "register", "character", "result", "upgrade",
                   "ban", "unban", "delete"},
             id : IDs, char : 0 .. MaxChar, conn : Clients \cup {NoClient},
             match : Matches \cup {NoMatch}]

ASSUME LockAssumption == Free \notin Requests

(* What SyncPlayer copies of an account.                                   *)
Docs == [banned : BOOLEAN, chars : [CharIDs -> Chars \cup {NoChar}]]
Doc(s, id) ==
    IF Holders(s, id) = {} THEN NoUser
    ELSE [banned |-> UserOf(s, id).banned, chars |-> UserOf(s, id).chars]

Copies == [sel : 0 .. MaxChar,
           names : UNION {[S -> CharNames] : S \in SUBSET CharIDs}]

ASSUME CopyAssumption == NoUser \notin Copies

EmptyStore == [next |-> 1, nextChar |-> 1, swept |-> TRUE,
               users |-> [n \in Names |-> NoUser]]

(* told, owners: the account and character ids anybody was told, with      *)
(* whose they are.  results: what was reported for each character.         *)
(* excused: the connections of a banned account its kick did not pick.     *)
(* touched: the connections whose account another connection changed.      *)
(* crossed: the accounts two mirror writes of which were on their way       *)
(* together.  lost: those of which one was lost, or a change did not reach *)
(* the file.                                                               *)
TypeOK ==
    /\ cast \in Casts
    /\ up \in BOOLEAN
    /\ mem \in Stores
    /\ lock \in Requests \cup {Free}
    /\ file \in Stores
    /\ pc \in [Clients -> {"new", "authed", "joined", "closed"}]
    /\ acct \in [Clients -> 0 .. MaxID]
    /\ copy \in [Clients -> Copies \cup {NoUser}]
    /\ got \in [Clients -> Copies \cup {NoUser}]
    /\ kicks \subseteq IDs
    /\ mirror \in [IDs -> Docs \cup {NoUser}]
    /\ writes \subseteq [n : 0 .. MaxSteps, id : IDs, doc : Docs \cup {NoUser}]
    /\ syncing \subseteq IDs
    /\ steps \in 0 .. MaxSteps
    /\ faulty \in BOOLEAN
    /\ told \subseteq IDs \X Names
    /\ owners \subseteq CharIDs \X IDs
    /\ results \in [CharIDs -> [wins : Nat, losses : Nat, xp : Nat]]
    /\ excused \subseteq Clients
    /\ touched \subseteq Clients
    /\ crossed \subseteq IDs
    /\ lost \subseteq IDs

(* The results that account for a character's counters, and the account    *)
(* that has the character.                                                 *)
Nothing == [wins |-> 0, losses |-> 0, xp |-> 0]
Progress(st) ==
    [wins |-> st.wins, losses |-> st.losses,
     xp |-> st.xp + 50 * st.level * (st.level + 1)]
Keepers(s, ch) == {n \in Names : s.users[n] # NoUser /\ ch \in Owned(s.users[n])}

Idle(c) == [pc |-> "new", acct |-> 0, copy |-> NoUser]

Init ==
    /\ cast \in Casts
    /\ up = FALSE
    /\ mem = EmptyStore
    /\ lock = Free
    /\ file = cast.file
    /\ pc = [c \in Clients |-> "new"]
    /\ acct = [c \in Clients |-> 0]
    /\ copy = [c \in Clients |-> NoUser]
    /\ got = [c \in Clients |-> NoUser]
    /\ kicks = {}
    /\ mirror = [id \in IDs |-> NoUser]
    /\ writes = {}
    /\ syncing = {}
    /\ steps = 0
    /\ faulty = FALSE
    /\ told = {}
    /\ owners = {}
    /\ results = [ch \in CharIDs |->
          IF Keepers(cast.file, ch) = {} THEN Nothing
          ELSE LET n == CHOOSE n \in Keepers(cast.file, ch) : TRUE
               IN  Progress(cast.file.users[n].chars[ch].stats)]
    /\ excused = {}
    /\ touched = {}
    /\ crossed = {}
    /\ lost = {}

-----------------------------------------------------------------------------
(* Changes to the store.  Each takes Store.mu and changes memory; Save     *)
(* writes the file, starts the mirror's goroutine and releases the lock.   *)

Change(s, req) ==
    /\ steps < MaxSteps
    /\ steps' = steps + 1
    /\ mem' = s
    /\ lock' = req
    /\ UNCHANGED <<cast, up, file, connVars, kicks, mirrorVars, histVars>>

Ready == up /\ lock = Free

(* The connection c may send character requests for its account: its       *)
(* handlers run one after the other, setUser included.                     *)
Serves(c, n) ==
    /\ Ready
    /\ pc[c] = "joined"
    /\ got[c] = NoUser
    /\ n \in Holders(mem, acct[c])

Request(op, id, ch, c, m) ==
    [op |-> op, id |-> id, char |-> ch, conn |-> c, match |-> m]

MayConnect(c) ==
    pc[c] = "new" /\ Cardinality({d \in Clients : pc[d] # "new"}) < cast.served

(* Store.Login of a name nobody has.                                       *)
LoginNew(c, n) ==
    /\ Ready
    /\ MayConnect(c)
    /\ mem.users[n] = NoUser
    /\ mem.next <= MaxID
    /\ Change(WithAccount(mem, n), Request("login", mem.next, 0, c, NoMatch))

(* CreateUser, called over HTTP.                                           *)
CreateUser(n) ==
    /\ Ready
    /\ mem.users[n] = NoUser
    /\ mem.next <= MaxID
    /\ Change(WithAccount(mem, n),
              Request("register", mem.next, 0, NoClient, NoMatch))

CreateCharacter(c, n, name) ==
    /\ Serves(c, n)
    /\ CanCreateCharacter(mem, n, name)
    /\ mem.nextChar <= MaxChar
    /\ Change(WithCharacter(mem, n, name),
              Request("character", acct[c], 0, c, NoMatch))

RenameCharacter(c, n, ch, name) ==
    /\ Serves(c, n)
    /\ CanRename(mem, n, ch, name)
    /\ Change(WithName(mem, n, ch, name),
              Request("character", acct[c], 0, c, NoMatch))

(* Mutant: the handler forgets setUser.                                    *)
SelectCharacterUnshown(c, n, ch) ==
    /\ Serves(c, n)
    /\ ch \in Owned(mem.users[n])
    /\ Change(WithSelection(mem, n, ch),
              Request("upgrade", acct[c], 0, c, NoMatch))

SelectCharacter(c, n, ch) ==
    /\ Serves(c, n)
    /\ ch \in Owned(mem.users[n])
    /\ Change(WithSelection(mem, n, ch),
              Request("character", acct[c], 0, c, NoMatch))

(* Mutant: no limit.                                                       *)
UpgradeStatUnlimited(c, n, ch) ==
    /\ Serves(c, n)
    /\ ch \in Owned(mem.users[n])
    /\ Change(WithUpgrade(mem, n, ch),
              Request("upgrade", acct[c], ch, c, NoMatch))

(* handleUpgradeStat: the connection's copy of the user is not renewed.    *)
UpgradeStat(c, n, ch) ==
    /\ Serves(c, n)
    /\ ch \in Owned(mem.users[n])
    /\ mem.users[n].chars[ch].stats.endurance < MaxUpgrade
    /\ Change(WithUpgrade(mem, n, ch),
              Request("upgrade", acct[c], ch, c, NoMatch))

(* handleRegisterStats, from the connection of a dedicated server: for an  *)
(* account and a character it was told, still there or not.                *)
UpdateStats(n, ch, m) ==
    /\ Ready
    /\ mem.users[n] # NoUser
    /\ ch \in Owned(mem.users[n])
    /\ Change(WithResult(mem, n, ch, m),
              Request("result", mem.users[n].id, ch, NoClient, m))

(* Mutant: the handler kicks on an unban.                                  *)
SetBanInverted(n, banned) ==
    /\ Ready
    /\ mem.users[n] # NoUser
    /\ Change(WithBan(mem, n, banned),
              Request(IF banned THEN "unban" ELSE "ban", mem.users[n].id, 0,
                      NoClient, NoMatch))

SetBan(n, banned) ==
    /\ Ready
    /\ mem.users[n] # NoUser
    /\ Change(WithBan(mem, n, banned),
              Request(IF banned THEN "ban" ELSE "unban", mem.users[n].id, 0,
                      NoClient, NoMatch))

DeletePlayer(n) ==
    /\ Ready
    /\ mem.users[n] # NoUser
    /\ Change(WithoutAccount(mem, n),
              Request("delete", mem.users[n].id, 0, NoClient, NoMatch))

-----------------------------------------------------------------------------
(* The end of a change.                                                    *)

(* Mutant: the document is built before the change.                        *)
MirroredEarly(n, id, saved) ==
    /\ writes' = writes \cup {[n |-> n, id |-> i, doc |-> Doc(file, i)] :
                                 i \in {id} \cap cast.watched}
    /\ crossed' = IF \E w \in writes : w.id = id THEN crossed \cup {id} ELSE crossed
    /\ lost' = IF saved THEN lost ELSE lost \cup ({id} \cap cast.watched)
    /\ UNCHANGED mirror

(* SyncPlayer and DeletePlayer of the mirror: the document is built under  *)
(* the lock and written by a goroutine of its own.                         *)
Mirrored(n, id, saved) ==
    /\ writes' = writes \cup {[n |-> n, id |-> i, doc |-> Doc(mem, i)] :
                                 i \in {id} \cap cast.watched}
    /\ crossed' = IF \E w \in writes : w.id = id THEN crossed \cup {id} ELSE crossed
    /\ lost' = IF saved THEN lost ELSE lost \cup ({id} \cap cast.watched)
    /\ UNCHANGED mirror

(* The snapshot of the account a store call returns to the handler of c.   *)
(* Of the copy, the hub shows others the characters and the selection.     *)
Shown(u) == [sel |-> u.sel, names |-> [ch \in Owned(u) |-> u.chars[ch].name]]
Replied(c, id) == [got EXCEPT ![c] = Shown(UserOf(mem, id))]

(* Whoever is told of account id learns its name and its characters.       *)
Told(id) ==
    /\ told' = told \cup {<<id, n>> : n \in Holders(mem, id)}
    /\ owners' = owners \cup
          UNION {Owned(mem.users[n]) \X {id} : n \in Holders(mem, id)}

Sharing(c, id) == {d \in Clients : d # c /\ acct[d] = id}

Save ==
    /\ lock # Free
    /\ \/ file' = mem /\ UNCHANGED <<faulty, steps>>
          /\ Mirrored(steps, lock.id, TRUE)
       \/ steps < MaxSteps /\ steps' = steps + 1 /\ faulty' = TRUE
          /\ UNCHANGED file /\ Mirrored(steps, lock.id, FALSE)
    /\ lock' = Free
    /\ pc' = IF lock.op = "login" THEN [pc EXCEPT ![lock.conn] = "authed"] ELSE pc
    /\ acct' = IF lock.op = "login" THEN [acct EXCEPT ![lock.conn] = lock.id]
               ELSE acct
    /\ got' = IF lock.op \in {"login", "character"}
              THEN Replied(lock.conn, lock.id) ELSE got
    /\ Told(lock.id)
    /\ kicks' = IF lock.op = "ban" THEN kicks \cup {lock.id} ELSE kicks
    /\ touched' = IF lock.op \in {"character", "delete"}
                  THEN touched \cup Sharing(lock.conn, lock.id) ELSE touched
    /\ results' = IF lock.op # "result" THEN results
                  ELSE [results EXCEPT ![lock.char] =
                          [wins |-> @.wins + (IF lock.match.won THEN 1 ELSE 0),
                           losses |-> @.losses + (IF lock.match.won THEN 0 ELSE 1),
                           xp |-> @.xp + lock.match.xp]]
    /\ UNCHANGED <<cast, up, mem, syncing, copy, excused>>

-----------------------------------------------------------------------------
(* Connections.                                                            *)

(* Store.Login of an existing name with its password.                      *)
Login(c, n) ==
    /\ Ready
    /\ MayConnect(c)
    /\ mem.users[n] # NoUser
    /\ ~mem.users[n].banned
    /\ pc' = [pc EXCEPT ![c] = "authed"]
    /\ acct' = [acct EXCEPT ![c] = mem.users[n].id]
    /\ got' = Replied(c, mem.users[n].id)
    /\ Told(mem.users[n].id)
    /\ UNCHANGED <<cast, storeVars, copy, kicks, mirrorVars, steps, faulty, results,
                   excused, touched>>

(* setUser, after the store call gave Store.mu back.  accountID is set     *)
(* with it; nobody else reads it before Join, so acct has it from the      *)
(* store call on.                                                          *)
SetUser(c) ==
    /\ got[c] # NoUser
    /\ copy' = [copy EXCEPT ![c] = got[c]]
    /\ got' = [got EXCEPT ![c] = NoUser]
    /\ UNCHANGED <<cast, storeVars, pc, acct, kicks, mirrorVars, steps, histVars>>

(* Hub.Join, some frames after the reply to the login.                     *)
Join(c) ==
    /\ pc[c] = "authed"
    /\ got[c] = NoUser
    /\ pc' = [pc EXCEPT ![c] = "joined"]
    /\ UNCHANGED <<cast, storeVars, acct, copy, got, kicks, mirrorVars, steps, histVars>>

(* The client hangs up, or its connection was closed: Hub.Leave.           *)
Leave(c) ==
    /\ pc[c] \in {"joined", "closed"}
    /\ lock # Free => lock.conn # c
    /\ got[c] = NoUser
    /\ pc' = [pc EXCEPT ![c] = "new"]
    /\ acct' = [acct EXCEPT ![c] = 0]
    /\ copy' = [copy EXCEPT ![c] = NoUser]
    /\ excused' = excused \ {c}
    /\ touched' = touched \ {c}
    /\ UNCHANGED <<cast, storeVars, got, kicks, mirrorVars, steps, faulty, told,
                   owners, results>>

(* KickAccountID: closes one of the connections in h.clients, whichever    *)
(* the map yields first.                                                   *)
KickTargets(id) == {c \in Clients : pc[c] \in {"joined", "closed"} /\ acct[c] = id}
KickAccountID(id) ==
    /\ id \in kicks
    /\ kicks' = kicks \ {id}
    /\ \/ /\ KickTargets(id) = {}
          /\ pc' = pc
          /\ excused' = excused \cup {d \in Clients : acct[d] = id}
       \/ \E c \in KickTargets(id) :
          /\ pc' = [pc EXCEPT ![c] = "closed"]
          /\ excused' = excused \cup {d \in Clients : d # c /\ acct[d] = id}
    /\ UNCHANGED <<cast, storeVars, acct, copy, got, mirrorVars, steps, faulty, told,
                   owners, results, touched>>

-----------------------------------------------------------------------------
(* The mirror.                                                             *)

(* An upsert or a delete reaches MongoDB, in any order, or is lost.        *)
WriteLands(w) ==
    /\ w \in writes
    /\ writes' = writes \ {w}
    /\ \/ mirror' = [mirror EXCEPT ![w.id] = w.doc]
          /\ UNCHANGED <<lost, steps>>
       \/ steps < MaxSteps /\ steps' = steps + 1
          /\ lost' = lost \cup {w.id} /\ UNCHANGED mirror
    /\ UNCHANGED <<cast, storeVars, connVars, kicks, syncing, crossed, histVars>>

(* SyncAll goes through the users without the lock.                        *)
SyncNext(id) ==
    /\ up
    /\ id \in syncing
    /\ syncing' = syncing \ {id}
    /\ IF Holders(mem, id) = {}
       THEN UNCHANGED <<mirror, writes, crossed, lost>>
       ELSE Mirrored(0, id, TRUE)
    /\ UNCHANGED <<cast, storeVars, connVars, kicks, steps, histVars>>

-----------------------------------------------------------------------------
(* The lobby process.                                                      *)

Crash ==
    /\ up
    /\ steps < MaxSteps
    /\ steps' = steps + 1
    /\ up' = FALSE
    /\ mem' = EmptyStore
    /\ lock' = Free
    /\ pc' = [c \in Clients |-> "new"]
    /\ acct' = [c \in Clients |-> 0]
    /\ copy' = [c \in Clients |-> NoUser]
    /\ got' = [c \in Clients |-> NoUser]
    /\ kicks' = {}
    /\ writes' = {}
    /\ syncing' = {}
    /\ crossed' = crossed
    /\ lost' = lost \cup syncing \cup {w.id : w \in writes}
                   \cup (IF lock = Free THEN {} ELSE {lock.id} \cap cast.watched)
    /\ excused' = {}
    /\ touched' = {}
    /\ UNCHANGED <<cast, file, mirror, faulty, told, owners, results>>

(* The account whose former progress a character of store has.             *)
FormerlyOf(ch, store) == {n \in Keepers(store, ch) : n \in Migrants(file)}

(* NewStore, SetMongo.                                                     *)
Start ==
    \E store \in Loaded(file) :
        /\ ~up
        /\ up' = TRUE
        /\ mem' = store
        /\ file' = store
        /\ syncing' = Registered(file) \cap cast.watched
        /\ crossed' = crossed \ Registered(file)
        /\ lost' = lost \ Registered(file)
        /\ results' = [ch \in CharIDs |->
              IF FormerlyOf(ch, store) = {} THEN results[ch]
              ELSE Progress(file.users[CHOOSE n \in FormerlyOf(ch, store) : TRUE].legacy)]
        /\ UNCHANGED <<cast, lock, connVars, kicks, mirror, writes, steps, faulty, told,
                       owners, excused, touched>>

-----------------------------------------------------------------------------
Next ==
    \/ \E c \in Clients, n \in Names :
          \/ LoginNew(c, n) \/ Login(c, n)
          \/ \E name \in CharNames : CreateCharacter(c, n, name)
          \/ \E ch \in CharIDs :
                \/ SelectCharacter(c, n, ch) \/ UpgradeStat(c, n, ch)
                \/ \E name \in CharNames : RenameCharacter(c, n, ch, name)
    \/ \E n \in Names :
          \/ CreateUser(n) \/ DeletePlayer(n)
          \/ \E banned \in BOOLEAN : SetBan(n, banned)
          \/ \E ch \in CharIDs, m \in Matches : UpdateStats(n, ch, m)
    \/ \E c \in Clients : SetUser(c) \/ Join(c) \/ Leave(c)
    \/ \E id \in IDs : KickAccountID(id) \/ SyncNext(id)
    \/ \E w \in writes : WriteLands(w)
    \/ Save \/ Crash \/ Start

Spec == Init /\ [][Next]_vars

-----------------------------------------------------------------------------
(* What the lobby promises about accounts.                                 *)

(* An account id somebody was told is never somebody else's later, nor a   *)
(* character id another account's, whatever is deleted and however often   *)
(* the lobby crashes, as long as the file can be written.                  *)
OneIdentity ==
    ~faulty => /\ \A f, g \in told : f[1] = g[1] => f = g
               /\ \A f, g \in owners : f[1] = g[1] => f = g

(* Matches and experience by the counters' definition: the wins and losses *)
(* modulo 2^16, the highest level whose thresholds the experience covers,  *)
(* and what is left of it, modulo 2^16 at the top level.                   *)
Deserved(r) ==
    LET level == CHOOSE l \in 0 .. TopLevel :
            /\ 50 * l * (l + 1) <= r.xp
            /\ l = TopLevel \/ r.xp < 50 * (l + 1) * (l + 2)
    IN  [wins |-> r.wins % UInt16, losses |-> r.losses % UInt16, level |-> level,
         xp |-> (r.xp - 50 * level * (level + 1)) % UInt16]

(* Every result a dedicated server reported is in the character it was     *)
(* reported for, exactly once, across crashes, migrations and deletions,   *)
(* as long as the file can be written.                                     *)
ResultsCounted ==
    ~faulty /\ Ready =>
        \A n \in Names : mem.users[n] # NoUser =>
            \A ch \in Owned(mem.users[n]) :
                LET st == mem.users[n].chars[ch].stats
                IN  Deserved(results[ch]) =
                    [wins |-> st.wins, losses |-> st.losses, level |-> st.level,
                     xp |-> st.xp]

(* Once a ban is recorded and its kick ran, the only connections of that   *)
(* account left in the lobby are those that had logged in before the kick  *)
(* and were not the one it picked.                                         *)
BanSurvivors ==
    Ready =>
        \A c \in Clients, n \in Names :
            /\ pc[c] = "joined"
            /\ n \in Holders(mem, acct[c])
            /\ mem.users[n].banned
            /\ acct[c] \notin kicks
            => c \in excused

(* A player nobody else changes is shown to others under the characters    *)
(* and the selection the store holds, though only its own requests renew   *)
(* the connection's copy: whenever the store is at rest the copy is what   *)
(* it holds, or the handler that changed the account is about to set it    *)
(* to that.                                                                *)
ToBeShown(c) == IF got[c] = NoUser THEN copy[c] ELSE got[c]
OwnChangesShown ==
    Ready =>
        \A c \in Clients, n \in Names :
            pc[c] = "joined" /\ c \notin touched /\ n \in Holders(mem, acct[c])
            => ToBeShown(c) = Shown(mem.users[n])

(* Once every write of an account is done, MongoDB holds what the store    *)
(* does, unless two of them were on their way together, one was lost or the *)
(* file was not written; a restart repairs the accounts that still exist.  *)
MirrorFollows ==
    up /\ lock = Free =>
        \A id \in cast.watched :
            /\ id \notin crossed \cup lost \cup syncing
            /\ \A w \in writes : w.id # id
            => mirror[id] = Doc(mem, id)

(* The admin dashboard reads current data: once every write of an account  *)
(* is done, MongoDB holds what the store does, if none was lost.           *)
MirrorUpToDate ==
    up /\ lock = Free =>
        \A id \in cast.watched :
            /\ id \notin lost \cup syncing
            /\ \A w \in writes : w.id # id
            => mirror[id] = Doc(mem, id)
=============================================================================
