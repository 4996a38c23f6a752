--------------------------- MODULE Accounts_proofs ---------------------------
(***************************************************************************)
(* Proofs about accounts, for any names, characters, connections, files of *)
(* an earlier lobby, and whatever fails or crashes when.                   *)
(*                                                                         *)
(* The order: the levels a result brings, as the loop of UpdateStats       *)
(* computes them and in one formula; what each operator of PlayerStore     *)
(* does to a store; the parts of AccountsInv under one change, under Save, *)
(* under the steps of connections and mirror, under Crash and Start.       *)
(*                                                                         *)
(* Nearly every part is about memory and lobby.json at once: they differ   *)
(* while a change is saved (SavedWhole), so what is said of the account in *)
(* question is put off until the change's Save (Busy), and what a crash    *)
(* brings back is known from the file's half of the part.                  *)
(***************************************************************************)
EXTENDS Accounts, TLAPS, WellFoundedInduction

(* The connection c is logged in.  The change of account id is not saved.  *)
Live(c) == pc[c] \in {"authed", "joined"}
Busy(id) == lock # Free /\ lock.id = id

(* A store that was loaded: progress has been migrated, and the next       *)
(* character id is above all there are.                                    *)
Current(s) ==
    \A n \in Names :
        /\ ~Migrates(s.users[n])
        /\ s.users[n] # NoUser => \A ch \in Owned(s.users[n]) : ch < s.nextChar

StoresKept ==
    /\ WellKept(mem) /\ WellKept(file)
    /\ up => Current(mem) /\ Current(file)

(* A lobby that is down has nothing going on.                              *)
DownIsEmpty ==
    ~up => /\ lock = Free /\ mem = EmptyStore
           /\ kicks = {} /\ writes = {} /\ syncing = {}
           /\ \A c \in Clients : pc[c] = "new" /\ got[c] = NoUser

(* What the request being saved is about.                                  *)
LockServes ==
    lock # Free =>
        /\ lock.op \in {"login", "character"} =>
              lock.conn \in Clients /\ Holders(mem, lock.id) # {}
        /\ lock.op = "login" =>
              \A n \in Holders(mem, lock.id) : ~mem.users[n].banned
        /\ lock.op = "character" => acct[lock.conn] = lock.id
        /\ lock.op = "result" => lock.char \in CharIDs /\ lock.match \in Matches

AcctsGiven == up => \A c \in Clients : Live(c) => acct[c] < mem.next

(* Without a failed write memory and file only differ while a change is    *)
(* saved.                                                                  *)
SavedWhole == ~faulty /\ up /\ lock = Free => mem = file

(* What anybody was told holds in the store s: it will not give an id away *)
(* again, and who has it is who was told.                                  *)
KnownTo(s, ids, chars) ==
    /\ \A f \in ids : f[1] < s.next /\ Holders(s, f[1]) \subseteq {f[2]}
    /\ \A f \in chars :
          f[1] < s.nextChar
          /\ \A n \in Keepers(s, f[1]) : s.users[n].id = f[2]
IdentitiesKept ==
    ~faulty => KnownTo(file, told, owners) /\ (up => KnownTo(mem, told, owners))

(* A connection of a banned account waits for its kick, or was missed.     *)
BannedAreKicked ==
    up => \A c \in Clients, n \in Names :
              /\ Live(c)
              /\ n \in Holders(mem, acct[c])
              /\ mem.users[n].banned
              /\ acct[c] \notin kicks
              /\ ~(Busy(acct[c]) /\ lock.op = "ban")
              => c \in excused

(* A connection's copy, or what its handler is about to make the copy, is   *)
(* what the store holds, or a change of the account is being saved.        *)
CopiesRenewed ==
    up => \A c \in Clients, n \in Names :
              /\ Live(c)
              /\ c \notin touched
              /\ n \in Holders(mem, acct[c])
              /\ ~(Busy(acct[c]) /\ lock.op = "character")
              => ToBeShown(c) = Shown(mem.users[n])

(* MongoDB: the writes on their way carry what the store holds, and what   *)
(* was written last is what it holds, save for the account being changed.  *)
Tracked(id) == id \in cast.watched /\ id \notin crossed \cup lost
Upserts(id) == {w \in writes : w.id = id}
OneUpsert == \A v, w \in writes : v.id = w.id /\ v.id \notin crossed => v = w
FileFollows ==
    up => \A id \in cast.watched :
              id \notin lost /\ ~Busy(id) => Doc(file, id) = Doc(mem, id)
UpsertsFollow ==
    \A w \in writes : Tracked(w.id) /\ ~Busy(w.id) => w.doc = Doc(mem, w.id)
WrittenFollows ==
    up => \A id \in IDs :
              /\ Tracked(id) /\ ~Busy(id) /\ Upserts(id) = {}
              /\ id \notin syncing \/ Holders(mem, id) = {}
              => mirror[id] = Doc(mem, id)
DeletedFollow ==
    ~up => \A id \in IDs :
               Tracked(id) /\ Holders(file, id) = {} => mirror[id] = NoUser
MirrorKept ==
    OneUpsert /\ FileFollows /\ UpsertsFollow /\ WrittenFollows /\ DeletedFollow

(* The counters of a character are those of its results, the one whose     *)
(* handler is about to be done included; ids to be given have none.        *)
Counters(st) ==
    [wins |-> st.wins, losses |-> st.losses, level |-> st.level, xp |-> st.xp]
Added(r, m) ==
    [wins |-> r.wins + (IF m.won THEN 1 ELSE 0),
     losses |-> r.losses + (IF m.won THEN 0 ELSE 1),
     xp |-> r.xp + m.xp]
Due(ch) ==
    IF lock # Free /\ lock.op = "result" /\ lock.char = ch
    THEN Added(results[ch], lock.match) ELSE results[ch]
StatsOf(s, n, ch) == s.users[n].chars[ch].stats
FileCounted ==
    /\ \A ch \in CharIDs : \A n \in Keepers(file, ch) :
          Deserved(results[ch]) = Counters(StatsOf(file, n, ch))
    /\ \A ch \in CharIDs : ch >= file.nextChar /\ Keepers(file, ch) = {} =>
          results[ch] = Nothing
MemCounted ==
    /\ \A ch \in CharIDs : \A n \in Keepers(mem, ch) :
          Deserved(Due(ch)) = Counters(StatsOf(mem, n, ch))
    /\ \A ch \in CharIDs : ch >= mem.nextChar => Due(ch) = Nothing
CountsKept == ~faulty => FileCounted /\ (up => MemCounted)

AccountsInv ==
    /\ TypeOK /\ StoresKept /\ DownIsEmpty /\ LockServes /\ AcctsGiven
    /\ SavedWhole /\ IdentitiesKept /\ OneIdentity /\ BannedAreKicked
    /\ CopiesRenewed /\ MirrorKept /\ CountsKept
-----------------------------------------------------------------------------
(* Numbers.                                                                *)

(* A set of numbers has a least one, and with a bound a greatest one.      *)
LEMMA LeastNumber ==
    ASSUME NEW S \in SUBSET Nat, S # {}
    PROVE  \E m \in S : \A k \in S : m <= k
<1>1. PICK m \in S : \A k \in S : <<k, m>> \notin OpToRel(<, Nat)
    BY WFMin, NatLessThanWellFounded, Zenon
<1>2. \A k \in S : ~(k < m)
    BY <1>1, Zenon DEF OpToRel
<1>3. QED BY <1>2

LEMMA GreatestNumber ==
    ASSUME NEW bound \in Nat, NEW S \in SUBSET (0 .. bound), S # {}
    PROVE  \E m \in S : \A k \in S : k <= m
<1> DEFINE Over == {j \in Nat : \A k \in S : k <= j}
<1>1. bound \in Over OBVIOUS
<1>2. PICK m \in Over : \A k \in Over : m <= k
    BY <1>1, LeastNumber
<1>3. m \in S
    <2> SUFFICES ASSUME m \notin S PROVE FALSE OBVIOUS
    <2>1. \A k \in S : k <= m - 1 BY <1>2
    <2>2. PICK k \in S : TRUE OBVIOUS
    <2>3. m - 1 \in Nat BY <2>1, <2>2, <1>2
    <2>4. m - 1 \in Over BY <2>1, <2>3
    <2>5. QED BY <2>4, <1>2
<1>4. QED BY <1>2, <1>3

-----------------------------------------------------------------------------
(* Levels.                                                                 *)

(* The experience level l costs; the level experience x reaches.           *)
Cost(l) == 50 * l * (l + 1)
Reaches(x, l) == Cost(l) <= x /\ (l = TopLevel \/ x < Cost(l + 1))
LevelOf(x) == CHOOSE l \in 0 .. TopLevel : Reaches(x, l)

LEMMA CostGrows ==
    /\ Cost(0) = 0
    /\ \A l \in Nat : /\ Cost(l) \in Nat
                      /\ Cost(l + 1) = Cost(l) + 100 * (l + 1)
                      /\ \A k \in Nat : l <= k => Cost(l) <= Cost(k)
<1>1. Cost(0) = 0 BY DEF Cost
<1>2. ASSUME NEW l \in Nat PROVE Cost(l) \in Nat /\ Cost(l + 1) = Cost(l) + 100 * (l + 1)
    BY DEF Cost
<1>3. ASSUME NEW l \in Nat, NEW k \in Nat, l <= k PROVE Cost(l) <= Cost(k)
    <2>1. l * (l + 1) <= k * (k + 1)
        <3>1. PICK d \in Nat : k = l + d BY <1>3
        <3>2. k * (k + 1) = l * (l + 1) + d * (l + l + 1) + d * d BY <3>1
        <3>3. d * (l + l + 1) \in Nat /\ d * d \in Nat /\ l * (l + 1) \in Nat OBVIOUS
        <3>4. QED BY <3>2, <3>3
    <2>2. QED BY <2>1 DEF Cost
<1>4. QED BY <1>1, <1>2, <1>3

(* Any amount of experience reaches exactly one level.                     *)
LEMMA OneLevel ==
    ASSUME NEW x \in Nat
    PROVE  /\ LevelOf(x) \in 0 .. TopLevel
           /\ Reaches(x, LevelOf(x))
           /\ \A l \in 0 .. TopLevel : Reaches(x, l) => l = LevelOf(x)
<1> DEFINE Paid == {l \in 0 .. TopLevel : Cost(l) <= x}
<1>1. TopLevel \in Nat /\ Paid # {}
    BY CostGrows DEF TopLevel
<1>2. PICK top \in Paid : \A k \in Paid : k <= top
    BY <1>1, GreatestNumber
<1>3. Reaches(x, top)
    <2>1. ASSUME top # TopLevel PROVE x < Cost(top + 1)
        <3>1. top + 1 \in 0 .. TopLevel BY <2>1, <1>1
        <3>2. top + 1 \notin Paid BY <1>2
        <3>3. Cost(top + 1) \in Nat BY <3>1, CostGrows
        <3>4. QED BY <3>1, <3>2, <3>3
    <2>2. QED BY <2>1 DEF Reaches
<1>4. LevelOf(x) \in 0 .. TopLevel /\ Reaches(x, LevelOf(x))
    BY <1>3 DEF LevelOf
<1>5. ASSUME NEW l \in 0 .. TopLevel, NEW k \in 0 .. TopLevel,
             Reaches(x, l), Reaches(x, k), l < k
      PROVE  FALSE
    <2>1. x < Cost(l + 1) BY <1>5, <1>1 DEF Reaches
    <2>2. Cost(l + 1) <= Cost(k) BY <1>5, CostGrows
    <2>3. Cost(k) <= x BY <1>5 DEF Reaches
    <2>4. Cost(l + 1) \in Nat /\ Cost(k) \in Nat BY CostGrows
    <2>5. QED BY <2>1, <2>2, <2>3, <2>4
<1>6. ASSUME NEW l \in 0 .. TopLevel, Reaches(x, l) PROVE l = LevelOf(x)
    <2>1. ~(l < LevelOf(x)) BY <1>4, <1>5, <1>6
    <2>2. ~(LevelOf(x) < l) BY <1>4, <1>5, <1>6
    <2>3. QED BY <2>1, <2>2, <1>1, <1>4
<1>7. QED BY <1>4, <1>6

(* What a function is that spends experience as Levelled does.             *)
Spending(f) ==
    f = [p \in Spends |->
            LET next == 100 * ((p.level + 1) % 256)
            IN  IF p.xp < next \/ p.level >= TopLevel
                THEN [level |-> p.level, xp |-> p.xp % UInt16]
                ELSE f[[level |-> p.level + 1, xp |-> p.xp - next]]]

(* The same in one step, from all the experience there was.                *)
Settled(all) ==
    [level |-> LevelOf(all), xp |-> (all - Cost(LevelOf(all))) % UInt16]
Closed ==
    [p \in Spends |-> IF p.level >= TopLevel
                      THEN [level |-> p.level, xp |-> p.xp % UInt16]
                      ELSE Settled(p.xp + Cost(p.level))]

LEMMA SettledAt ==
    ASSUME NEW all \in Nat, NEW l \in 0 .. TopLevel, Reaches(all, l)
    PROVE  Settled(all) = [level |-> l, xp |-> (all - Cost(l)) % UInt16]
<1>1. LevelOf(all) = l BY OneLevel
<1>2. QED BY <1>1, Zenon DEF Settled

LEMMA SpentOnce ==
    ASSUME NEW l \in 0 .. TopLevel - 1, NEW x \in Nat
    PROVE  /\ l \in Nat /\ x + Cost(l) \in Nat
           /\ x < 100 * (l + 1) =>
                  Settled(x + Cost(l)) = [level |-> l, xp |-> x % UInt16]
           /\ (x - 100 * (l + 1)) + Cost(l + 1) = x + Cost(l)
           /\ x >= 100 * (l + 1) /\ l + 1 = TopLevel =>
                  Settled(x + Cost(l)) =
                      [level |-> TopLevel, xp |-> (x - 100 * (l + 1)) % UInt16]
<1>1. l \in Nat /\ TopLevel \in Nat /\ l \in 0 .. TopLevel /\ l # TopLevel
    BY DEF TopLevel
<1>2. /\ Cost(l) \in Nat /\ Cost(l + 1) \in Nat
      /\ Cost(l + 1) = Cost(l) + 100 * (l + 1)
    <2>1. l + 1 \in Nat BY <1>1
    <2>2. QED BY <1>1, <2>1, CostGrows
<1>3. PICK all \in Nat : all = x + Cost(l) BY <1>2
<1>4. ASSUME x < 100 * (l + 1)
      PROVE  Settled(all) = [level |-> l, xp |-> x % UInt16]
    <2>1. Reaches(all, l) BY <1>1, <1>2, <1>3, <1>4 DEF Reaches
    <2>2. Settled(all) = [level |-> l, xp |-> (all - Cost(l)) % UInt16]
        BY <1>1, <2>1, SettledAt
    <2>3. all - Cost(l) = x BY <1>2, <1>3
    <2>4. QED BY <2>2, <2>3
<1>5. ASSUME x >= 100 * (l + 1), l + 1 = TopLevel
      PROVE  Settled(all) = [level |-> TopLevel, xp |-> (x - 100 * (l + 1)) % UInt16]
    <2>1. Reaches(all, TopLevel) BY <1>2, <1>3, <1>5 DEF Reaches
    <2>2. Settled(all) =
              [level |-> TopLevel, xp |-> (all - Cost(TopLevel)) % UInt16]
        BY <1>1, <2>1, SettledAt
    <2>3. all - Cost(TopLevel) = x - 100 * (l + 1) BY <1>1, <1>2, <1>3, <1>5
    <2>4. QED BY <2>2, <2>3
<1>6. QED BY <1>1, <1>2, <1>3, <1>4, <1>5

LEMMA ClosedSpends == Spending(Closed)
<1>1. Closed = [p \in Spends |->
            LET next == 100 * ((p.level + 1) % 256)
            IN  IF p.xp < next \/ p.level >= TopLevel
                THEN [level |-> p.level, xp |-> p.xp % UInt16]
                ELSE Closed[[level |-> p.level + 1, xp |-> p.xp - next]]]
    <2> SUFFICES ASSUME NEW p \in Spends
                 PROVE  Closed[p] =
                    (LET next == 100 * ((p.level + 1) % 256)
                     IN  IF p.xp < next \/ p.level >= TopLevel
                         THEN [level |-> p.level, xp |-> p.xp % UInt16]
                         ELSE Closed[[level |-> p.level + 1, xp |-> p.xp - next]])
        BY Zenon DEF Closed
    <2> DEFINE l == p.level
               x == p.xp
               next == 100 * ((p.level + 1) % 256)
    <2>1. l \in 0 .. 255 /\ x \in Nat BY DEF Spends
    <2>2. CASE l >= TopLevel BY <2>2 DEF Closed
    <2>3. CASE ~(l >= TopLevel)
        <3>1. l \in 0 .. TopLevel - 1 /\ next = 100 * (l + 1)
            BY <2>1, <2>3 DEF TopLevel
        <3>2. Closed[p] = Settled(x + Cost(l)) BY <2>3 DEF Closed
        <3>3. CASE x < next
            <4>1. Closed[p] = [level |-> l, xp |-> x % UInt16]
                BY <2>1, <3>1, <3>2, <3>3, SpentOnce
            <4>2. QED BY <3>3, <4>1
        <3>4. CASE ~(x < next)
            <4> DEFINE q == [level |-> l + 1, xp |-> x - next]
            <4>1. q \in Spends /\ q.level = l + 1 /\ q.xp = x - next
                BY <2>1, <3>1, <3>4 DEF Spends, TopLevel
            <4>2. Closed[p] = Closed[q]
                <5> HIDE DEF q
                <5>1. CASE l + 1 = TopLevel
                    <6>1. Closed[q] = [level |-> q.level, xp |-> q.xp % UInt16]
                        BY <4>1, <5>1 DEF Closed, TopLevel
                    <6>2. x >= 100 * (l + 1) BY <2>1, <3>1, <3>4
                    <6>3. Settled(x + Cost(l)) =
                             [level |-> TopLevel,
                              xp |-> (x - 100 * (l + 1)) % UInt16]
                        BY <2>1, <3>1, <5>1, <6>2, SpentOnce
                    <6>4. QED BY <3>1, <3>2, <4>1, <5>1, <6>1, <6>3
                <5>2. CASE l + 1 # TopLevel
                    <6>1. ~(q.level >= TopLevel) BY <2>1, <3>1, <4>1, <5>2 DEF TopLevel
                    <6>2. Closed[q] = Settled((x - next) + Cost(l + 1))
                        BY <4>1, <6>1 DEF Closed
                    <6>3. (x - next) + Cost(l + 1) = x + Cost(l)
                        BY <2>1, <3>1, SpentOnce
                    <6>4. QED BY <3>2, <6>2, <6>3
                <5>3. QED BY <5>1, <5>2
            <4>3. QED BY <2>3, <3>4, <4>2
        <3>5. QED BY <3>3, <3>4
    <2>4. QED BY <2>2, <2>3
<1>2. QED BY <1>1 DEF Spending

LEMMA LevelledSpends == Spending(Levelled)
<1>1. Spending(CHOOSE f : Spending(f)) BY ClosedSpends, Zenon
<1>2. Levelled = CHOOSE f : Spending(f) BY DEF Levelled, Spending, Spends
<1>3. QED BY <1>1, <1>2

(* The loop ends at the level that all the experience so far reaches.      *)
LEMMA LevelledIsClosed ==
    ASSUME NEW l \in 0 .. TopLevel, NEW x \in Nat
    PROVE  Levelled[[level |-> l, xp |-> x]] = Closed[[level |-> l, xp |-> x]]
<1> DEFINE Off == {k \in 0 .. TopLevel :
                      \E y \in Nat : Levelled[[level |-> k, xp |-> y]]
                                       # Closed[[level |-> k, xp |-> y]]}
<1> SUFFICES ASSUME Off # {} PROVE FALSE
    OBVIOUS
<1>1. PICK k \in Off : \A j \in Off : j <= k
    BY GreatestNumber DEF TopLevel
<1>2. PICK y \in Nat : Levelled[[level |-> k, xp |-> y]]
                         # Closed[[level |-> k, xp |-> y]]
    BY <1>1
<1> DEFINE p == [level |-> k, xp |-> y]
           next == 100 * ((k + 1) % 256)
           q == [level |-> k + 1, xp |-> y - next]
<1>3. p \in Spends /\ p.level = k /\ p.xp = y BY <1>1 DEF Spends, TopLevel
<1>4. ASSUME NEW f, Spending(f)
      PROVE  f[p] = IF y < next \/ k >= TopLevel
                    THEN [level |-> k, xp |-> y % UInt16] ELSE f[q]
    <2> DEFINE of(r) == LET due == 100 * ((r.level + 1) % 256)
                        IN  IF r.xp < due \/ r.level >= TopLevel
                            THEN [level |-> r.level, xp |-> r.xp % UInt16]
                            ELSE f[[level |-> r.level + 1, xp |-> r.xp - due]]
    <2>1. f = [r \in Spends |-> of(r)] BY <1>4, Zenon DEF Spending
    <2> HIDE DEF of, p
    <2>2. f[p] = of(p) BY <1>3, <2>1
    <2>3. of(p) = IF y < next \/ k >= TopLevel
                  THEN [level |-> k, xp |-> y % UInt16] ELSE f[q]
        BY <1>3, Zenon DEF of
    <2>4. QED BY <2>2, <2>3
<1>5. CASE y < next \/ k >= TopLevel
    BY <1>2, <1>4, <1>5, ClosedSpends, LevelledSpends
<1>6. CASE ~(y < next \/ k >= TopLevel)
    <2>1. k + 1 \in 0 .. TopLevel /\ y - next \in Nat /\ k \in Nat
        BY <1>1, <1>6 DEF TopLevel
    <2>2. k + 1 \notin Off BY <1>1, <2>1
    <2>3. Levelled[q] = Closed[q] BY <2>1, <2>2
    <2>4. QED BY <1>2, <1>4, <1>6, <2>3, ClosedSpends, LevelledSpends
<1>7. QED BY <1>5, <1>6

-----------------------------------------------------------------------------
(* What counters are deserved.                                             *)

Reports == [wins : Nat, losses : Nat, xp : Nat]

LEMMA DeservedIs ==
    ASSUME NEW r \in Reports
    PROVE  Deserved(r) =
              [wins |-> r.wins % UInt16, losses |-> r.losses % UInt16,
               level |-> LevelOf(r.xp),
               xp |-> (r.xp - Cost(LevelOf(r.xp))) % UInt16]
<1>1. \A l : /\ 50 * l * (l + 1) = Cost(l)
             /\ 50 * (l + 1) * (l + 2) = 50 * (l + 1) * (l + 2)
    BY DEF Cost
<1>2. \A l \in 0 .. TopLevel : 50 * (l + 1) * (l + 2) = Cost(l + 1)
    BY DEF Cost, TopLevel
<1>3. LevelOf(r.xp) = CHOOSE l \in 0 .. TopLevel :
                          /\ 50 * l * (l + 1) <= r.xp
                          /\ l = TopLevel \/ r.xp < 50 * (l + 1) * (l + 2)
    BY <1>1, <1>2 DEF LevelOf, Reaches
<1>4. QED BY <1>1, <1>3, Zenon DEF Deserved

LEMMA WidthIs == UInt16 \in Nat \ {0} /\ 9900 < UInt16
BY SMT DEF UInt16

LEMMA Division ==
    ASSUME NEW a \in Nat, NEW u \in Nat \ {0}
    PROVE  a = u * (a \div u) + (a % u) /\ a \div u \in Nat /\ a % u \in 0 .. u - 1
OBVIOUS

(* A number modulo 2^16 is in range; adding commutes with it.              *)
LEMMA Wraps ==
    ASSUME NEW a \in Nat, NEW b \in Nat
    PROVE  /\ a % UInt16 \in 0 .. UInt16 - 1
           /\ ((a % UInt16) + b) % UInt16 = (a + b) % UInt16
           /\ a < UInt16 => a % UInt16 = a
<1>1. a % UInt16 \in 0 .. UInt16 - 1 BY WidthIs
<1>2. a < UInt16 => a % UInt16 = a BY WidthIs
<1>3. ((a % UInt16) + b) % UInt16 = (a + b) % UInt16
    <2>1. \A q \in Nat, k \in Nat : (UInt16 * q + k) % UInt16 = k % UInt16
        BY SMT DEF UInt16
    <2>2. a = UInt16 * (a \div UInt16) + (a % UInt16) BY WidthIs, Division
    <2>3. a \div UInt16 \in Nat /\ a % UInt16 \in Nat BY WidthIs
    <2>4. PICK q \in Nat, k \in Nat : q = a \div UInt16 /\ k = a % UInt16
        BY <2>3
    <2>5. a + b = UInt16 * q + (k + b)
        <3>1. UInt16 * q \in Nat BY WidthIs
        <3>2. a = UInt16 * q + k BY <2>2, <2>4, Zenon
        <3>3. QED BY <3>1, <3>2
    <2>6. (UInt16 * q + (k + b)) % UInt16 = (k + b) % UInt16
        <3>1. k + b \in Nat OBVIOUS
        <3>2. QED BY <2>1, <3>1
    <2>7. QED BY <2>4, <2>5, <2>6
<1>4. QED BY <1>1, <1>2, <1>3

(* The result of a match is a record of counters, below the next level,    *)
(* and what all the results so far deserve if that is what it was before.  *)
LEMMA CreditedIs ==
    ASSUME NEW st \in Stats, NEW m \in Matches
    PROVE  LET risen == Levelled[[level |-> st.level, xp |-> st.xp + m.xp]]
           IN  /\ Credited(st, m).wins =
                      (IF m.won THEN (st.wins + 1) % UInt16 ELSE st.wins)
               /\ Credited(st, m).losses =
                      (IF m.won THEN st.losses ELSE (st.losses + 1) % UInt16)
               /\ Credited(st, m).level = risen.level
               /\ Credited(st, m).xp = risen.xp
               /\ Credited(st, m).endurance = st.endurance
               /\ Credited(st, m) = [wins |-> Credited(st, m).wins,
                                     losses |-> Credited(st, m).losses,
                                     xp |-> risen.xp, level |-> risen.level,
                                     endurance |-> st.endurance]
<1> DEFINE risen == Levelled[[level |-> st.level, xp |-> st.xp + m.xp]]
<1> HIDE DEF risen
<1>1. Credited(st, m) =
        [st EXCEPT !.wins = IF m.won THEN (@ + 1) % UInt16 ELSE @,
                   !.losses = IF m.won THEN @ ELSE (@ + 1) % UInt16,
                   !.level = risen.level, !.xp = risen.xp]
    BY Zenon DEF Credited, risen
<1>2. QED BY <1>1 DEF Stats, risen

LEMMA CreditedCounts ==
    ASSUME NEW st \in Stats, NEW m \in Matches
    PROVE  /\ Credited(st, m) \in Stats
           /\ Complete(Credited(st, m))
           /\ \A r \in Reports :
                Deserved(r) = Counters(st) =>
                    Deserved(Added(r, m)) = Counters(Credited(st, m))
<1> USE MatchAssumption
<1> DEFINE l == st.level
           x == st.xp + m.xp
           p == [level |-> l, xp |-> x]
           risen == Levelled[p]
           new == Credited(st, m)
<1>1. /\ l \in 0 .. TopLevel /\ l \in Nat /\ x \in Nat /\ m.xp \in Nat
      /\ m.won \in BOOLEAN /\ st.xp \in 0 .. UInt16 - 1
      /\ st.wins \in 0 .. UInt16 - 1 /\ st.losses \in 0 .. UInt16 - 1
      /\ st.endurance \in 0 .. MaxUpgrade
    BY DEF Stats, TopLevel
<1>2. risen = IF l >= TopLevel THEN [level |-> l, xp |-> x % UInt16]
           ELSE Settled(x + Cost(l))
    <2>1. p \in Spends /\ p.level = l /\ p.xp = x BY <1>1 DEF Spends, TopLevel
    <2>2. risen = Closed[p] BY <1>1, LevelledIsClosed
    <2> HIDE DEF p
    <2>3. QED BY <2>1, <2>2 DEF Closed
<1> DEFINE all == x + Cost(l)
<1>3. all \in Nat /\ Cost(l) \in Nat
    <2>1. Cost(l) \in Nat BY <1>1, CostGrows
    <2>2. QED BY <1>1, <2>1
<1>4. /\ LevelOf(all) \in 0 .. TopLevel /\ Reaches(all, LevelOf(all))
      /\ Cost(LevelOf(all)) \in Nat
      /\ all - Cost(LevelOf(all)) \in Nat
    <2> HIDE DEF all
    <2>1. LevelOf(all) \in 0 .. TopLevel /\ Reaches(all, LevelOf(all))
        BY <1>3, OneLevel
    <2>2. LevelOf(all) \in Nat BY <2>1 DEF TopLevel
    <2>3. Cost(LevelOf(all)) \in Nat BY <2>2, CostGrows
    <2>4. QED BY <1>3, <2>1, <2>3 DEF Reaches
<1> HIDE DEF all, risen, p
<1>5. /\ risen.level \in 0 .. TopLevel /\ risen.xp \in 0 .. UInt16 - 1
      /\ risen.level = TopLevel \/ risen.xp < 100 * (risen.level + 1)
    <2>1. CASE l >= TopLevel
        <3>1. l = TopLevel BY <1>1, <2>1 DEF TopLevel
        <3>2. risen.level = l /\ risen.xp = x % UInt16 BY <1>2, <2>1
        <3>3. x % UInt16 \in 0 .. UInt16 - 1 BY <1>1, Wraps
        <3>4. QED BY <1>1, <3>1, <3>2, <3>3
    <2>2. CASE ~(l >= TopLevel)
        <3> DEFINE k == LevelOf(all)
        <3>1. risen.level = k /\ risen.xp = (all - Cost(k)) % UInt16
            BY <1>2, <2>2 DEF Settled, all
        <3>2. risen.xp \in 0 .. UInt16 - 1 BY <1>4, <3>1, Wraps
        <3>3. CASE k = TopLevel BY <1>4, <3>1, <3>2, <3>3
        <3>4. CASE k # TopLevel
            <4>1. k \in Nat /\ k < TopLevel /\ TopLevel = 99
                BY <1>4, <3>4 DEF TopLevel
            <4>2. all < Cost(k + 1) BY <1>4, <3>4 DEF Reaches
            <4>3. Cost(k + 1) = Cost(k) + 100 * (k + 1) BY <4>1, CostGrows
            <4> HIDE DEF k
            <4>4. all - Cost(k) < 100 * (k + 1)
                BY <1>3, <1>4, <4>1, <4>2, <4>3 DEF k
            <4>5. all - Cost(k) < UInt16
                <5>1. 100 * (k + 1) <= 9900 BY <4>1
                <5>2. QED BY <4>1, <4>4, <5>1, <1>3, <1>4, WidthIs DEF k
            <4>6. risen.xp = all - Cost(k) BY <1>4, <3>1, <4>5, Wraps DEF k
            <4>7. QED BY <1>4, <3>1, <3>2, <4>4, <4>6 DEF k
        <3>5. QED BY <3>3, <3>4
    <2>3. QED BY <2>1, <2>2
<1>6. /\ new.wins = (IF m.won THEN (st.wins + 1) % UInt16 ELSE st.wins)
      /\ new.losses = (IF m.won THEN st.losses ELSE (st.losses + 1) % UInt16)
      /\ new.level = risen.level /\ new.xp = risen.xp
      /\ new = [wins |-> new.wins, losses |-> new.losses, xp |-> risen.xp,
                level |-> risen.level, endurance |-> st.endurance]
    BY CreditedIs, Zenon DEF risen, p
<1> HIDE DEF new
<1>7. new \in Stats
    <2>1. new.wins \in 0 .. UInt16 - 1 /\ new.losses \in 0 .. UInt16 - 1
        <3>1. st.wins + 1 \in Nat /\ st.losses + 1 \in Nat /\ 0 \in Nat
            BY <1>1
        <3>2. /\ (st.wins + 1) % UInt16 \in 0 .. UInt16 - 1
              /\ (st.losses + 1) % UInt16 \in 0 .. UInt16 - 1
            BY <3>1, Wraps
        <3>3. QED BY <1>1, <1>6, <3>2
    <2>2. QED BY <1>1, <1>5, <1>6, <2>1 DEF Stats
<1>8. Complete(new) BY <1>5, <1>6 DEF Complete
<1>9. ASSUME NEW r \in Reports, Deserved(r) = Counters(st)
      PROVE  Deserved(Added(r, m)) = Counters(new)
    <2> DEFINE lv == LevelOf(r.xp)
    <2>1. /\ r.wins \in Nat /\ r.losses \in Nat /\ r.xp \in Nat
          /\ Added(r, m) \in Reports
          /\ Added(r, m).wins = r.wins + (IF m.won THEN 1 ELSE 0)
          /\ Added(r, m).losses = r.losses + (IF m.won THEN 0 ELSE 1)
          /\ Added(r, m).xp = r.xp + m.xp
        BY <1>1 DEF Reports, Added
    <2>2. /\ st.wins = r.wins % UInt16 /\ st.losses = r.losses % UInt16
          /\ l = lv /\ st.xp = (r.xp - Cost(lv)) % UInt16
        BY <1>9, DeservedIs DEF Counters
    <2>3. lv \in 0 .. TopLevel /\ Reaches(r.xp, lv) BY <2>1, OneLevel
    <2> HIDE DEF lv
    <2>4. /\ (st.wins + 1) % UInt16 = (r.wins + 1) % UInt16
          /\ (st.losses + 1) % UInt16 = (r.losses + 1) % UInt16
          /\ r.wins + 0 = r.wins /\ r.losses + 0 = r.losses
        <3>1. /\ ((r.wins % UInt16) + 1) % UInt16 = (r.wins + 1) % UInt16
              /\ ((r.losses % UInt16) + 1) % UInt16 = (r.losses + 1) % UInt16
            BY <2>1, Wraps
        <3>2. r.wins + 0 = r.wins /\ r.losses + 0 = r.losses BY <2>1
        <3>3. QED BY <2>2, <3>1, <3>2, Zenon
    <2>5. /\ new.wins = (r.wins + (IF m.won THEN 1 ELSE 0)) % UInt16
          /\ new.losses = (r.losses + (IF m.won THEN 0 ELSE 1)) % UInt16
        <3>1. CASE m.won BY <1>6, <2>2, <2>4, <3>1
        <3>2. CASE ~m.won BY <1>6, <2>2, <2>4, <3>2
        <3>3. QED BY <3>1, <3>2
    <2>6. r.xp - Cost(l) \in Nat BY <1>3, <2>1, <2>2, <2>3 DEF Reaches
    <2>7. CASE l >= TopLevel
        <3>1. l = TopLevel BY <1>1, <2>7 DEF TopLevel
        <3>2. Reaches(r.xp + m.xp, TopLevel)
            BY <1>1, <1>3, <2>1, <2>6, <3>1 DEF Reaches
        <3>3. LevelOf(r.xp + m.xp) = l
            BY <1>1, <2>1, <3>1, <3>2, OneLevel
        <3>4. risen.level = l /\ risen.xp = x % UInt16 BY <1>2, <2>7
        <3>5. x % UInt16 = ((r.xp - Cost(l)) + m.xp) % UInt16
            BY <1>1, <2>2, <2>6, Wraps
        <3>6. (r.xp - Cost(l)) + m.xp = (r.xp + m.xp) - Cost(l)
            BY <1>1, <1>3, <2>1
        <3>7. QED
            BY <1>6, <2>1, <2>4, <2>5, <3>3, <3>4, <3>5, <3>6, DeservedIs
            DEF Counters
    <2>8. CASE ~(l >= TopLevel)
        <3>1. l # TopLevel /\ l < TopLevel /\ TopLevel = 99
            BY <1>1, <2>8 DEF TopLevel
        <3>2. r.xp < Cost(l + 1) BY <2>2, <2>3, <3>1 DEF Reaches
        <3>3. Cost(l + 1) = Cost(l) + 100 * (l + 1) BY <1>1, CostGrows
        <3>4. r.xp - Cost(l) < 100 * (l + 1)
            BY <1>1, <1>3, <2>1, <3>2, <3>3
        <3>5. r.xp - Cost(l) < UInt16
            <4>1. 100 * (l + 1) <= 9900 BY <1>1, <3>1
            <4>2. QED BY <1>1, <1>3, <2>1, <3>4, <4>1, WidthIs
        <3>6. st.xp = r.xp - Cost(l) BY <2>2, <2>6, <3>5, Wraps
        <3>7. all = r.xp + m.xp BY <1>1, <1>3, <2>1, <3>6 DEF all
        <3>8. risen = Settled(r.xp + m.xp) BY <1>2, <2>8, <3>7 DEF all
        <3>9. risen.level = LevelOf(r.xp + m.xp)
              /\ risen.xp = ((r.xp + m.xp) - Cost(LevelOf(r.xp + m.xp))) % UInt16
            BY <3>8 DEF Settled
        <3>10. QED
            BY <1>6, <2>1, <2>4, <2>5, <3>9, DeservedIs DEF Counters
    <2>9. QED BY <2>7, <2>8
<1>10. QED BY <1>7, <1>8, <1>9 DEF new

LEMMA ProgressCounts ==
    ASSUME NEW st \in Stats, Complete(st)
    PROVE  Progress(st) \in Reports /\ Deserved(Progress(st)) = Counters(st)
<1> DEFINE l == st.level
           r == Progress(st)
<1>1. /\ l \in 0 .. TopLevel /\ l \in Nat /\ TopLevel = 99
      /\ st.xp \in 0 .. UInt16 - 1 /\ st.xp \in Nat /\ st.xp < UInt16
      /\ st.wins \in Nat /\ st.losses \in Nat
      /\ st.wins < UInt16 /\ st.losses < UInt16
    <2>1. /\ st.level \in 0 .. 99 /\ st.xp \in 0 .. UInt16 - 1
          /\ st.wins \in 0 .. UInt16 - 1 /\ st.losses \in 0 .. UInt16 - 1
        BY DEF Stats, TopLevel
    <2>2. QED BY <2>1, WidthIs DEF TopLevel
<1>2. Cost(l) \in Nat /\ Cost(l + 1) = Cost(l) + 100 * (l + 1)
    BY <1>1, CostGrows
<1>3. /\ r.wins = st.wins /\ r.losses = st.losses /\ r.xp = st.xp + Cost(l)
      /\ r = [wins |-> r.wins, losses |-> r.losses, xp |-> r.xp]
    BY DEF Progress, Cost
<1> HIDE DEF r, l
<1>4. r \in Reports BY <1>1, <1>2, <1>3 DEF Reports
<1>5. Reaches(r.xp, l)
    BY <1>1, <1>2, <1>3 DEF Reaches, Complete, l
<1>6. r.xp \in Nat BY <1>1, <1>2, <1>3
<1>7. LevelOf(r.xp) = l BY <1>1, <1>5, <1>6, OneLevel
<1>8. r.xp - Cost(l) = st.xp BY <1>1, <1>2, <1>3
<1>9. st.wins % UInt16 = st.wins /\ st.losses % UInt16 = st.losses
      /\ st.xp % UInt16 = st.xp
    BY <1>1, Wraps
<1>10. Deserved(r) = Counters(st)
    BY <1>3, <1>4, <1>7, <1>8, <1>9, DeservedIs DEF Counters, l
<1>11. QED BY <1>4, <1>10 DEF r

LEMMA NothingCounts ==
    /\ NewStats \in Stats /\ Complete(NewStats) /\ Nothing \in Reports
    /\ Deserved(Nothing) = Counters(NewStats)
<1>1. NewStats \in Stats /\ Complete(NewStats)
    BY WidthIs DEF NewStats, Stats, Complete, TopLevel, MaxUpgrade
<1>2. Progress(NewStats) = Nothing BY DEF Progress, NewStats, Nothing
<1>3. QED BY <1>1, <1>2, ProgressCounts

-----------------------------------------------------------------------------
(* Looking up.                                                             *)

LEMMA StoreType ==
    ASSUME NEW s \in Stores
    PROVE  /\ s.next \in 1 .. MaxID + 1 /\ s.nextChar \in 1 .. MaxChar + 1
           /\ s.swept \in BOOLEAN /\ s.users \in [Names -> Users \cup {NoUser}]
           /\ s = [next |-> s.next, nextChar |-> s.nextChar, swept |-> s.swept,
                   users |-> s.users]
           /\ \A n \in Names : s.users[n] # NoUser => s.users[n] \in Users
BY DEF Stores

LEMMA UserType ==
    ASSUME NEW u \in Users
    PROVE  /\ u # NoUser /\ u.id \in IDs /\ u.banned \in BOOLEAN
           /\ u.sel \in 0 .. MaxChar /\ u.legacy \in Stats \cup {NoLegacy}
           /\ u.chars \in [CharIDs -> Chars \cup {NoChar}]
           /\ Owned(u) \subseteq CharIDs
           /\ \A ch \in Owned(u) : u.chars[ch] \in Chars
           /\ u = [id |-> u.id, banned |-> u.banned, sel |-> u.sel,
                   legacy |-> u.legacy, chars |-> u.chars]
<1>1. u # NoUser BY AbsenceAssumption
<1>2. /\ u.id \in IDs /\ u.banned \in BOOLEAN
      /\ u.sel \in 0 .. MaxChar /\ u.legacy \in Stats \cup {NoLegacy}
      /\ u.chars \in [CharIDs -> Chars \cup {NoChar}]
      /\ u = [id |-> u.id, banned |-> u.banned, sel |-> u.sel,
              legacy |-> u.legacy, chars |-> u.chars]
    BY DEF Users
<1>3. Owned(u) \subseteq CharIDs /\ \A ch \in Owned(u) : u.chars[ch] \in Chars
    BY <1>2 DEF Owned
<1>4. QED BY <1>1, <1>2, <1>3

LEMMA IdsAreNumbers ==
    /\ IDs \subseteq Nat \ {0} /\ CharIDs \subseteq Nat \ {0}
    /\ MaxID \in Nat /\ MaxChar \in Nat
    /\ \A k \in 1 .. MaxChar + 1 : k <= MaxChar => k \in CharIDs
    /\ \A k \in 1 .. MaxID + 1 : k <= MaxID => k \in IDs
BY CountAssumption DEF IDs, CharIDs

LEMMA HolderIs ==
    ASSUME NEW s, NEW id
    PROVE  /\ \A n : n \in Holders(s, id) <=>
                        n \in Names /\ s.users[n] # NoUser /\ s.users[n].id = id
           /\ id \in Registered(s) <=> Holders(s, id) # {}
BY DEF Holders, Registered

LEMMA KeeperIs ==
    ASSUME NEW s, NEW ch
    PROVE  \A n : n \in Keepers(s, ch) <=>
                     n \in Names /\ s.users[n] # NoUser /\ ch \in Owned(s.users[n])
BY DEF Keepers

(* In a store that is well kept an account is found by its id.             *)
LEMMA HeldByOne ==
    ASSUME NEW s \in Stores, WellKept(s), NEW n \in Names, s.users[n] # NoUser
    PROVE  /\ Holders(s, s.users[n].id) = {n}
           /\ UserOf(s, s.users[n].id) = s.users[n]
           /\ s.users[n].id < s.next
<1>1. s.users[n].id < s.next BY DEF WellKept
<1>2. \A m \in Names : s.users[m] # NoUser /\ s.users[m].id = s.users[n].id => m = n
    BY DEF WellKept
<1>3. Holders(s, s.users[n].id) = {n}
    <2> DEFINE id == s.users[n].id
    <2>1. n \in Holders(s, id) BY HolderIs
    <2>2. \A m \in Holders(s, id) : m = n BY <1>2, HolderIs
    <2> HIDE DEF id
    <2>3. Holders(s, id) = {n} BY <2>1, <2>2
    <2>4. QED BY <2>3 DEF id
<1>4. (CHOOSE m \in {n} : TRUE) = n OBVIOUS
<1>5. QED BY <1>1, <1>3, <1>4 DEF UserOf

LEMMA Kept ==
    ASSUME NEW s, WellKept(s), NEW n \in Names, s.users[n] # NoUser,
           NEW m \in Names, s.users[m] # NoUser
    PROVE  /\ s.users[n].id < s.next
           /\ s.users[n].id = s.users[m].id => n = m
           /\ \A ch : ch \in Owned(s.users[n]) /\ ch \in Owned(s.users[m]) => n = m
           /\ \A ch \in Owned(s.users[n]) : Complete(s.users[n].chars[ch].stats)
           /\ s.users[n].legacy # NoLegacy => Complete(s.users[n].legacy)
BY DEF WellKept

LEMMA EmptyStoreIs ==
    EmptyStore \in Stores /\ WellKept(EmptyStore)
<1>1. /\ EmptyStore.next = 1 /\ EmptyStore.nextChar = 1 /\ EmptyStore.swept = TRUE
      /\ EmptyStore.users = [n \in Names |-> NoUser]
    BY DEF EmptyStore
<1>2. EmptyStore \in Stores
    BY CountAssumption DEF EmptyStore, Stores
<1>3. WellKept(EmptyStore) BY <1>1 DEF WellKept
<1>4. QED BY <1>2, <1>3

-----------------------------------------------------------------------------
(* Loading the file.                                                       *)

(* The next character id is the file's, or the first above all there are.  *)
LEMMA FreeId ==
    ASSUME NEW s \in Stores, NEW from \in 1 .. MaxChar + 1
    PROVE  LET k == FreeFrom(s, from)
           IN  /\ k \in from .. MaxChar + 1
               /\ \A n \in Names : s.users[n] # NoUser =>
                      \A ch \in Owned(s.users[n]) : ch < k
               /\ (\A n \in Names : s.users[n] # NoUser =>
                      \A ch \in Owned(s.users[n]) : ch < from) => k = from
<1> DEFINE used == UNION {Owned(s.users[n]) : n \in {m \in Names : s.users[m] # NoUser}}
           Fits(k) == /\ \A ch \in used : ch < k
                      /\ \A j \in from .. k - 1 : \E ch \in used : j <= ch
<1>1. used \subseteq CharIDs
      /\ \A ch : ch \in used <=> \E n \in Names : s.users[n] # NoUser
                                                 /\ ch \in Owned(s.users[n])
    BY DEF Owned
<1> HIDE DEF used
<1>2. \E k \in from .. MaxChar + 1 : Fits(k)
    <2>1. CASE \A ch \in used : ch < from
        BY <2>1, CountAssumption
    <2>2. CASE ~(\A ch \in used : ch < from)
        <3>1. used # {} /\ used \subseteq 0 .. MaxChar BY <2>2, <1>1 DEF CharIDs
        <3>2. PICK top \in used : \A ch \in used : ch <= top
            BY <3>1, GreatestNumber, CountAssumption
        <3>3. top \in 1 .. MaxChar /\ \A ch \in used : ch \in 1 .. MaxChar
            BY <1>1 DEF CharIDs
        <3>4. top >= from BY <2>2, <3>2, <3>3
        <3>5. Fits(top + 1) BY <3>2, <3>3
        <3>6. top + 1 \in from .. MaxChar + 1 BY <3>3, <3>4, CountAssumption
        <3>7. QED BY <3>5, <3>6
    <2>3. QED BY <2>1, <2>2
<1>3. FreeFrom(s, from) = CHOOSE k \in from .. MaxChar + 1 : Fits(k)
    BY DEF FreeFrom, used
<1> DEFINE free == FreeFrom(s, from)
<1>4. free \in from .. MaxChar + 1 /\ Fits(free)
    <2> HIDE DEF Fits
    <2>1. QED BY <1>2, <1>3
<1> HIDE DEF free
<1>5. ASSUME \A ch \in used : ch < from PROVE free = from
    <2>1. free > from => \E ch \in used : from <= ch
        BY <1>4, CountAssumption
    <2>2. QED BY <1>1, <1>4, <1>5, <2>1, CountAssumption DEF CharIDs
<1>6. QED BY <1>1, <1>4, <1>5 DEF free

(* NewStore for one account; k is the character id for one that migrates.  *)
Fetched(u, k) == IF Migrates(u) THEN Migrated(u, k) ELSE NormalSelection(u)
Renewed(s, u, k) == IF s.swept THEN Fetched(u, k) ELSE Swept(Fetched(u, k))

(* A loaded store is one of those LoadedWith gives: accounts that migrate  *)
(* got different ids, from the first free one up to the next.              *)
LEMMA LoadedIs ==
    ASSUME NEW s \in Stores, NEW t \in Loaded(s)
    PROVE  LET first == FreeFrom(s, s.nextChar)
           IN  \E next \in first .. MaxChar + 1 :
               \E ids \in [Migrants(s) -> first .. next - 1] :
                  /\ \A n, m \in Migrants(s) : ids[n] = ids[m] => n = m
                  /\ t.next = s.next /\ t.nextChar = next
                  /\ t.users = [n \in Names |-> IF s.users[n] = NoUser THEN NoUser
                                                ELSE Renewed(s, s.users[n], ids[n])]
                  /\ t = [next |-> s.next, nextChar |-> next, swept |-> TRUE,
                          users |-> t.users]
<1> DEFINE first == FreeFrom(s, s.nextChar)
<1> HIDE DEF first
<1>1. t \in UNION {{LoadedWith(s, next, ids) :
                        ids \in Bijection(Migrants(s), first .. next - 1)} :
                    next \in first .. MaxChar + 1}
    BY Zenon DEF Loaded, LoadedFrom, first
<1>2. PICK next \in first .. MaxChar + 1 :
          \E ids \in Bijection(Migrants(s), first .. next - 1) :
              t = LoadedWith(s, next, ids)
    BY <1>1
<1>3. PICK ids \in Bijection(Migrants(s), first .. next - 1) :
          t = LoadedWith(s, next, ids)
    BY <1>2
<1>4. /\ ids \in [Migrants(s) -> first .. next - 1]
      /\ \A n, m \in Migrants(s) : ids[n] = ids[m] => n = m
    BY DEF Bijection, Injection, IsInjective
<1> DEFINE U == [n \in Names |-> IF s.users[n] = NoUser THEN NoUser
                                 ELSE Renewed(s, s.users[n], ids[n])]
<1>5. t = [s EXCEPT !.nextChar = next, !.swept = TRUE, !.users = U]
    <2>1. \A n \in Names : n \in Migrants(s) <=> Migrates(s.users[n])
        BY DEF Migrants
    <2>2. \A n \in Names :
              Renewed(s, s.users[n], ids[n])
              = LET user == IF n \in Migrants(s) THEN Migrated(s.users[n], ids[n])
                            ELSE NormalSelection(s.users[n])
                IN  IF s.swept THEN user ELSE Swept(user)
        BY <2>1 DEF Renewed, Fetched
    <2>3. QED BY <1>3, <2>2, Zenon DEF LoadedWith
<1> HIDE DEF U
<1>6. s = [next |-> s.next, nextChar |-> s.nextChar, swept |-> s.swept,
           users |-> s.users]
    BY StoreType
<1>7. t = [next |-> s.next, nextChar |-> next, swept |-> TRUE, users |-> U]
    BY <1>5, <1>6
<1>8. QED BY <1>4, <1>7 DEF U, first

LEMMA FetchedIs ==
    ASSUME NEW u \in Users, NEW k, Migrates(u) => k \in CharIDs
    PROVE  LET v == Fetched(u, k)
           IN  /\ v \in Users /\ v.id = u.id /\ v.banned = u.banned
               /\ ~Migrates(u) => v.legacy = u.legacy /\ v.chars = u.chars
               /\ Migrates(u) => /\ v.legacy = NoLegacy /\ Owned(v) = {k}
                                 /\ v.chars[k].stats = u.legacy
<1> DEFINE v == Fetched(u, k)
<1>1. CASE Migrates(u)
    <2> DEFINE ch == [name |-> AgencyName, rename |-> TRUE, stats |-> u.legacy]
    <2>1. k \in CharIDs BY <1>1
    <2>2. u.legacy \in Stats /\ Owned(u) = {} BY <1>1, UserType DEF Migrates
    <2>3. ch \in Chars /\ ch # NoChar
        <3>1. ch \in Chars BY <2>2, NameAssumption DEF Chars
        <3>2. QED BY <3>1, AbsenceAssumption
    <2> HIDE DEF ch
    <2>4. v = [u EXCEPT !.chars[k] = ch, !.sel = k, !.legacy = NoLegacy]
        BY <1>1 DEF Fetched, Migrated, ch
    <2>5. [u.chars EXCEPT ![k] = ch] \in [CharIDs -> Chars \cup {NoChar}]
        BY <2>3, UserType
    <2>6. v = [id |-> u.id, banned |-> u.banned, sel |-> k, legacy |-> NoLegacy,
               chars |-> [u.chars EXCEPT ![k] = ch]]
        <3>1. PICK id, banned, sel, legacy, chars :
                  u = [id |-> id, banned |-> banned, sel |-> sel,
                       legacy |-> legacy, chars |-> chars]
            BY UserType
        <3>2. QED BY <2>4, <3>1
    <2>7. k \in 0 .. MaxChar BY <2>1, IdsAreNumbers DEF CharIDs
    <2>8. v \in Users BY <2>5, <2>6, <2>7, UserType DEF Users
    <2>9. Owned(v) = {k}
        <3>1. \A d \in CharIDs : v.chars[d] = IF d = k THEN ch ELSE u.chars[d]
            BY <2>6, UserType
        <3>2. \A d \in CharIDs : u.chars[d] = NoChar BY <2>2 DEF Owned
        <3>3. QED BY <2>1, <2>3, <3>1, <3>2 DEF Owned
    <2>10. v.chars[k] = ch BY <2>1, <2>6, UserType
    <2>11. ch.stats = u.legacy BY DEF ch
    <2>12. QED BY <1>1, <2>6, <2>8, <2>9, <2>10, <2>11
<1>2. CASE ~Migrates(u)
    <2>1. v = NormalSelection(u) BY <1>2 DEF Fetched
    <2>2. v = u \/ \E c \in 0 .. MaxChar : v = [u EXCEPT !.sel = c]
        <3>1. CASE u.sel \in Owned(u) BY <2>1, <3>1 DEF NormalSelection
        <3>2. CASE u.sel \notin Owned(u) /\ Owned(u) = {}
            BY <2>1, <3>2, CountAssumption DEF NormalSelection
        <3>3. CASE u.sel \notin Owned(u) /\ Owned(u) # {}
            <4>1. Owned(u) \in SUBSET Nat /\ Owned(u) \subseteq 0 .. MaxChar
                BY UserType, IdsAreNumbers DEF CharIDs
            <4>2. \E c \in Owned(u) : \A d \in Owned(u) : c <= d
                BY <4>1, <3>3, LeastNumber
            <4> DEFINE c == CHOOSE c \in Owned(u) : \A d \in Owned(u) : c <= d
            <4>3. c \in Owned(u) BY <4>2
            <4>4. v = [u EXCEPT !.sel = c] BY <2>1, <3>3 DEF NormalSelection
            <4> HIDE DEF c
            <4>5. QED BY <4>1, <4>3, <4>4
        <3>4. QED BY <3>1, <3>2, <3>3
    <2>3. PICK c \in 0 .. MaxChar :
              v = [id |-> u.id, banned |-> u.banned, sel |-> c,
                   legacy |-> u.legacy, chars |-> u.chars]
        BY <2>2, UserType
    <2>4. v \in Users BY <2>3, UserType DEF Users
    <2>5. QED BY <1>2, <2>3, <2>4
<1>3. QED BY <1>1, <1>2

(* The sweep only grants renames.                                          *)
LEMMA SweptIs ==
    ASSUME NEW u \in Users
    PROVE  LET v == Swept(u)
           IN  /\ v \in Users /\ v.id = u.id /\ v.banned = u.banned
               /\ v.legacy = u.legacy /\ Owned(v) = Owned(u)
               /\ \A ch \in Owned(u) : v.chars[ch].stats = u.chars[ch].stats
<1> DEFINE v == Swept(u)
           Granted(c) == IF c # NoChar /\ c.name = AgencyName
                         THEN [c EXCEPT !.rename = TRUE] ELSE c
           F == [ch \in CharIDs |-> Granted(u.chars[ch])]
<1>1. v = [u EXCEPT !.chars = F] BY Zenon DEF Swept
<1>2. ASSUME NEW c \in Chars
      PROVE  Granted(c) \in Chars /\ Granted(c).stats = c.stats /\ Granted(c) # NoChar
    <2>1. Granted(c) \in Chars /\ Granted(c).stats = c.stats BY DEF Chars
    <2>2. QED BY <2>1, AbsenceAssumption
<1>3. Granted(NoChar) = NoChar OBVIOUS
<1> HIDE DEF Granted
<1>4. \A ch \in CharIDs : u.chars[ch] \in Chars \cup {NoChar} BY UserType
<1>5. F \in [CharIDs -> Chars \cup {NoChar}] BY <1>2, <1>3, <1>4
<1>6. \A ch \in CharIDs : F[ch] = Granted(u.chars[ch]) OBVIOUS
<1> HIDE DEF F
<1>7. v = [id |-> u.id, banned |-> u.banned, sel |-> u.sel, legacy |-> u.legacy,
           chars |-> F]
    BY <1>1, UserType
<1> HIDE DEF v
<1>8. v \in Users BY <1>5, <1>7, UserType DEF Users
<1>9. \A ch \in CharIDs : v.chars[ch] = NoChar <=> u.chars[ch] = NoChar
    BY <1>2, <1>3, <1>4, <1>6, <1>7
<1>10. Owned(v) = Owned(u) BY <1>9 DEF Owned
<1>11. \A ch \in Owned(u) : v.chars[ch].stats = u.chars[ch].stats
    BY <1>2, <1>6, <1>7, UserType
<1>12. QED BY <1>7, <1>8, <1>10, <1>11 DEF v

LEMMA RenewedIs ==
    ASSUME NEW s \in Stores, NEW u \in Users, NEW k, Migrates(u) => k \in CharIDs
    PROVE  LET v == Renewed(s, u, k)
           IN  /\ v \in Users /\ v.id = u.id /\ v.banned = u.banned
               /\ ~Migrates(v)
               /\ ~Migrates(u) =>
                     /\ v.legacy = u.legacy /\ Owned(v) = Owned(u)
                     /\ \A ch \in Owned(u) : v.chars[ch].stats = u.chars[ch].stats
               /\ Migrates(u) => /\ v.legacy = NoLegacy /\ Owned(v) = {k}
                                 /\ v.chars[k].stats = u.legacy
<1> DEFINE w == Fetched(u, k)
           v == Renewed(s, u, k)
<1>1. /\ w \in Users /\ w.id = u.id /\ w.banned = u.banned
      /\ ~Migrates(u) => w.legacy = u.legacy /\ w.chars = u.chars
      /\ Migrates(u) => /\ w.legacy = NoLegacy /\ Owned(w) = {k}
                        /\ w.chars[k].stats = u.legacy
    BY FetchedIs
<1>2. v = w \/ v = Swept(w) BY DEF Renewed
<1> HIDE DEF v, w
<1>3. /\ v \in Users /\ v.id = w.id /\ v.banned = w.banned
      /\ v.legacy = w.legacy /\ Owned(v) = Owned(w)
      /\ \A ch \in Owned(w) : v.chars[ch].stats = w.chars[ch].stats
    BY <1>1, <1>2, SweptIs
<1>4. CASE Migrates(u)
    <2>1. k \in Owned(w) BY <1>1, <1>4
    <2>2. ~Migrates(v) BY <1>1, <1>3, <1>4 DEF Migrates
    <2>3. QED BY <1>1, <1>3, <1>4, <2>1, <2>2 DEF v
<1>5. CASE ~Migrates(u)
    <2>1. Owned(w) = Owned(u) BY <1>1, <1>5 DEF Owned
    <2>2. u # NoUser /\ v # NoUser BY <1>3, UserType
    <2>3. ~Migrates(v) BY <1>1, <1>3, <1>5, <2>1, <2>2 DEF Migrates
    <2>4. QED BY <1>1, <1>3, <1>5, <2>1, <2>3 DEF v
<1>6. QED BY <1>4, <1>5

(* What a restart does to a store.                                         *)
LEMMA StoreLoaded ==
    ASSUME NEW s \in Stores, WellKept(s), NEW t \in Loaded(s)
    PROVE      /\ t \in Stores /\ WellKept(t) /\ Current(t)
               /\ t.next = s.next /\ s.nextChar <= t.nextChar
               /\ \A id : Holders(t, id) = Holders(s, id)
               /\ \A ch \in CharIDs : \A n \in Keepers(t, ch) :
                    \/ /\ n \in Keepers(s, ch) /\ ~Migrates(s.users[n])
                       /\ StatsOf(t, n, ch) = StatsOf(s, n, ch)
                    \/ /\ Migrates(s.users[n]) /\ s.nextChar <= ch
                       /\ Keepers(s, ch) = {} /\ Keepers(t, ch) = {n}
                       /\ StatsOf(t, n, ch) = s.users[n].legacy
               /\ \A n \in Names : t.users[n] # NoUser => t.users[n].id = s.users[n].id
               /\ \A ch \in CharIDs : Keepers(t, ch) = {} => Keepers(s, ch) = {}
<1> DEFINE k == FreeFrom(s, s.nextChar)
<1>1. /\ s.next \in 1 .. MaxID + 1 /\ s.nextChar \in 1 .. MaxChar + 1
      /\ \A n \in Names : s.users[n] # NoUser => s.users[n] \in Users
    BY StoreType
<1>2. /\ k \in s.nextChar .. MaxChar + 1 /\ k \in 1 .. MaxChar + 1 /\ k \in Nat
      /\ s.nextChar \in Nat /\ s.nextChar <= k
      /\ \A n \in Names : s.users[n] # NoUser => \A ch \in Owned(s.users[n]) : ch < k
    BY <1>1, FreeId, CountAssumption
<1> HIDE DEF k
<1>3. PICK next \in k .. MaxChar + 1 : \E ids \in [Migrants(s) -> k .. next - 1] :
          /\ \A n, m \in Migrants(s) : ids[n] = ids[m] => n = m
          /\ t.next = s.next /\ t.nextChar = next
          /\ t.users = [n \in Names |-> IF s.users[n] = NoUser THEN NoUser
                                        ELSE Renewed(s, s.users[n], ids[n])]
          /\ t = [next |-> s.next, nextChar |-> next, swept |-> TRUE,
                  users |-> t.users]
    BY LoadedIs DEF k
<1>4. PICK ids \in [Migrants(s) -> k .. next - 1] :
          /\ \A n, m \in Migrants(s) : ids[n] = ids[m] => n = m
          /\ t.next = s.next /\ t.nextChar = next
          /\ t.users = [n \in Names |-> IF s.users[n] = NoUser THEN NoUser
                                        ELSE Renewed(s, s.users[n], ids[n])]
          /\ t = [next |-> s.next, nextChar |-> next, swept |-> TRUE,
                  users |-> t.users]
    BY <1>3
<1>5. \A n \in Names : Migrates(s.users[n]) =>
          /\ s.users[n] # NoUser /\ ids[n] \in CharIDs
          /\ k <= ids[n] /\ ids[n] < next
    <2> SUFFICES ASSUME NEW n \in Names, Migrates(s.users[n])
                 PROVE  /\ s.users[n] # NoUser /\ ids[n] \in CharIDs
                        /\ k <= ids[n] /\ ids[n] < next
        OBVIOUS
    <2>1. ids[n] \in k .. next - 1 /\ s.users[n] # NoUser
        BY <1>4 DEF Migrants, Migrates
    <2>2. QED BY <1>2, <1>3, <2>1, CountAssumption DEF CharIDs
<1>6. ASSUME NEW n \in Names, s.users[n] # NoUser
      PROVE  LET u == s.users[n]  v == t.users[n]
             IN  /\ v \in Users /\ v # NoUser /\ v.id = u.id /\ ~Migrates(v)
                 /\ ~Migrates(u) =>
                       /\ v.legacy = u.legacy /\ Owned(v) = Owned(u)
                       /\ \A ch \in Owned(u) : v.chars[ch].stats = u.chars[ch].stats
                 /\ Migrates(u) => /\ v.legacy = NoLegacy /\ Owned(v) = {ids[n]}
                                   /\ v.chars[ids[n]].stats = u.legacy
    <2>1. t.users[n] = Renewed(s, s.users[n], ids[n]) BY <1>4, <1>6
    <2>2. s.users[n] \in Users BY <1>1, <1>6
    <2>3. Migrates(s.users[n]) => ids[n] \in CharIDs BY <1>5
    <2>4. t.users[n] # NoUser BY <1>2, <2>1, <2>2, <2>3, RenewedIs, UserType
    <2>5. QED BY <1>2, <2>1, <2>2, <2>3, <2>4, RenewedIs
<1>7. \A n \in Names : s.users[n] = NoUser <=> t.users[n] = NoUser
    <2>1. \A n \in Names : s.users[n] = NoUser => t.users[n] = NoUser BY <1>4
    <2>2. QED BY <1>6, <2>1
<1>8. /\ t.nextChar \in 1 .. MaxChar + 1 /\ t.nextChar \in Nat /\ k <= t.nextChar
      /\ \A n \in Names : Migrates(s.users[n]) => ids[n] < t.nextChar
    BY <1>2, <1>3, <1>4, <1>5, CountAssumption
<1>9. t \in Stores
    <2>1. \A n \in Names : t.users[n] \in Users \cup {NoUser} BY <1>6, <1>7
    <2>2. t.users \in [Names -> Users \cup {NoUser}]
        <3>1. t.users = [n \in Names |-> t.users[n]] BY <1>4
        <3>2. QED BY <2>1, <3>1
    <2>3. s.next \in 1 .. MaxID + 1 BY <1>1
    <2>4. [next |-> s.next, nextChar |-> t.nextChar, swept |-> TRUE,
           users |-> t.users] \in Stores
        BY <1>8, <2>2, <2>3 DEF Stores
    <2>5. QED BY <1>4, <2>4, Zenon
<1>10. \A id : Holders(t, id) = Holders(s, id)
    <2>1. \A n \in Names : s.users[n] # NoUser => t.users[n].id = s.users[n].id
        BY <1>6
    <2>2. TAKE id
    <2>3. Holders(s, id) = {n \in Names : s.users[n] # NoUser /\ s.users[n].id = id}
          /\ Holders(t, id) = {n \in Names : t.users[n] # NoUser /\ t.users[n].id = id}
        BY DEF Holders
    <2>4. QED BY <1>7, <2>1, <2>3
<1>11. ASSUME NEW n \in Names, t.users[n] # NoUser
       PROVE  \A ch \in Owned(t.users[n]) :
                 /\ ch \in CharIDs /\ ch < t.nextChar
                 /\ \/ ch \in Owned(s.users[n]) /\ ~Migrates(s.users[n])
                       /\ t.users[n].chars[ch].stats = s.users[n].chars[ch].stats
                    \/ ch = ids[n] /\ Migrates(s.users[n])
                       /\ t.users[n].chars[ch].stats = s.users[n].legacy
    <2>1. s.users[n] # NoUser BY <1>7, <1>11
    <2>2. TAKE ch \in Owned(t.users[n])
    <2>3. ch \in CharIDs BY DEF Owned
    <2>4. CASE Migrates(s.users[n])
        <3>1. ch = ids[n] /\ t.users[n].chars[ch].stats = s.users[n].legacy
            BY <1>6, <2>1, <2>4
        <3>2. ids[n] < t.nextChar BY <1>8, <2>4
        <3>3. QED BY <2>3, <2>4, <3>1, <3>2
    <2>5. CASE ~Migrates(s.users[n])
        <3>1. /\ ch \in Owned(s.users[n])
              /\ t.users[n].chars[ch].stats = s.users[n].chars[ch].stats
            BY <1>6, <2>1, <2>5
        <3>2. ch < k BY <1>2, <2>1, <3>1
        <3>3. ch < t.nextChar BY <1>2, <1>8, <2>3, <3>2, IdsAreNumbers
        <3>4. QED BY <2>3, <2>5, <3>1, <3>3
    <2>6. QED BY <2>4, <2>5
<1>12. \A n, m \in Names : s.users[n] # NoUser /\ Migrates(s.users[m]) =>
           ids[m] \notin Owned(s.users[n])
    <2> SUFFICES ASSUME NEW n \in Names, NEW m \in Names, s.users[n] # NoUser,
                        Migrates(s.users[m]), ids[m] \in Owned(s.users[n])
                 PROVE  FALSE
        OBVIOUS
    <2>1. ids[m] < k BY <1>2
    <2>2. k <= ids[m] /\ ids[m] \in Nat BY <1>5, IdsAreNumbers
    <2>3. QED BY <1>2, <2>1, <2>2
<1>13. ASSUME NEW n \in Names, NEW m \in Names,
              t.users[n] # NoUser, t.users[m] # NoUser,
              NEW ch, ch \in Owned(t.users[n]), ch \in Owned(t.users[m])
       PROVE  n = m
    <2>1. s.users[n] # NoUser /\ s.users[m] # NoUser BY <1>7, <1>13
    <2>2. CASE Migrates(s.users[n]) /\ Migrates(s.users[m])
        <3>1. ids[n] = ids[m] BY <1>6, <1>13, <2>1, <2>2
        <3>2. QED BY <1>4, <2>2, <3>1 DEF Migrants
    <2>3. CASE ~Migrates(s.users[n]) \/ ~Migrates(s.users[m])
        <3>1. ch \in Owned(s.users[n]) /\ ch \in Owned(s.users[m])
            BY <1>11, <1>12, <1>13, <2>1, <2>3
        <3>2. QED BY <2>1, <3>1, Kept
    <2>4. QED BY <2>2, <2>3
<1>14. WellKept(t)
    <2> SUFFICES ASSUME NEW n \in Names, NEW m \in Names,
                        t.users[n] # NoUser, t.users[m] # NoUser
                 PROVE  /\ t.users[n].id < t.next
                        /\ t.users[n].id = t.users[m].id => n = m
                        /\ Owned(t.users[n]) \cap Owned(t.users[m]) # {} => n = m
                        /\ \A ch \in Owned(t.users[n]) :
                              Complete(t.users[n].chars[ch].stats)
                        /\ t.users[n].legacy # NoLegacy => Complete(t.users[n].legacy)
        BY DEF WellKept
    <2>1. s.users[n] # NoUser /\ s.users[m] # NoUser BY <1>7
    <2>2. t.users[n].id = s.users[n].id /\ t.users[m].id = s.users[m].id
        BY <1>6, <2>1
    <2>3. s.users[n].id < s.next /\ (s.users[n].id = s.users[m].id => n = m)
        BY <2>1, Kept
    <2>4. Owned(t.users[n]) \cap Owned(t.users[m]) # {} => n = m BY <1>13
    <2>5. ASSUME NEW ch \in Owned(t.users[n])
          PROVE  Complete(t.users[n].chars[ch].stats)
        <3>1. CASE /\ ch \in Owned(s.users[n])
                   /\ t.users[n].chars[ch].stats = s.users[n].chars[ch].stats
            <4>1. Complete(s.users[n].chars[ch].stats) BY <2>1, <3>1, Kept
            <4>2. QED BY <3>1, <4>1
        <3>2. CASE /\ Migrates(s.users[n])
                   /\ t.users[n].chars[ch].stats = s.users[n].legacy
            <4>1. Complete(s.users[n].legacy) BY <2>1, <3>2, Kept DEF Migrates
            <4>2. QED BY <3>2, <4>1
        <3>3. QED BY <1>11, <3>1, <3>2
    <2>6. ASSUME t.users[n].legacy # NoLegacy PROVE Complete(t.users[n].legacy)
        <3>1. t.users[n].legacy = s.users[n].legacy BY <1>6, <2>1, <2>6
        <3>2. Complete(s.users[n].legacy) BY <2>1, <2>6, <3>1, Kept
        <3>3. QED BY <3>1, <3>2
    <2>7. QED BY <1>4, <2>2, <2>3, <2>4, <2>5, <2>6
<1>15. Current(t)
    <2>1. \A n \in Names : ~Migrates(t.users[n])
        BY <1>6, <1>7 DEF Migrates
    <2>2. QED BY <1>11, <2>1 DEF Current
<1>16. ASSUME NEW ch \in CharIDs, NEW n \in Keepers(t, ch)
       PROVE  \/ /\ n \in Keepers(s, ch) /\ ~Migrates(s.users[n])
                 /\ StatsOf(t, n, ch) = StatsOf(s, n, ch)
              \/ /\ Migrates(s.users[n]) /\ s.nextChar <= ch
                 /\ Keepers(s, ch) = {} /\ Keepers(t, ch) = {n}
                 /\ StatsOf(t, n, ch) = s.users[n].legacy
    <2>1. n \in Names /\ t.users[n] # NoUser /\ ch \in Owned(t.users[n])
          /\ s.users[n] # NoUser
        BY <1>7, KeeperIs
    <2>2. Keepers(t, ch) = {n} BY <1>13, <2>1, KeeperIs
    <2>3. CASE /\ ch \in Owned(s.users[n]) /\ ~Migrates(s.users[n])
               /\ t.users[n].chars[ch].stats = s.users[n].chars[ch].stats
        BY <2>1, <2>3, KeeperIs DEF StatsOf
    <2>4. CASE ch = ids[n] /\ Migrates(s.users[n])
               /\ t.users[n].chars[ch].stats = s.users[n].legacy
        <3>1. Keepers(s, ch) = {} BY <1>12, <2>1, <2>4, KeeperIs
        <3>2. k <= ch BY <1>5, <2>1, <2>4
        <3>3. s.nextChar <= ch BY <1>2, <2>1, <3>2, IdsAreNumbers
        <3>4. QED BY <2>2, <2>4, <3>1, <3>3 DEF StatsOf
    <2>5. QED BY <1>11, <2>1, <2>3, <2>4
<1>17. \A ch \in CharIDs : Keepers(t, ch) = {} => Keepers(s, ch) = {}
    <2> SUFFICES ASSUME NEW ch \in CharIDs, NEW n \in Keepers(s, ch)
                 PROVE  n \in Keepers(t, ch)
        OBVIOUS
    <2>1. n \in Names /\ s.users[n] # NoUser /\ ch \in Owned(s.users[n])
        BY KeeperIs
    <2>2. ~Migrates(s.users[n]) BY <2>1 DEF Migrates
    <2>3. QED BY <1>6, <1>7, <2>1, <2>2, KeeperIs
<1>18. /\ t.next = s.next /\ s.nextChar <= t.nextChar
       /\ \A n \in Names : t.users[n] # NoUser => t.users[n].id = s.users[n].id
    BY <1>2, <1>4, <1>6, <1>7, <1>8
<1>19. QED BY <1>9, <1>10, <1>14, <1>15, <1>16, <1>17, <1>18

-----------------------------------------------------------------------------
(* Changes of the store.                                                   *)

(* From s to t only account id changes, which name n has.                  *)
Edited(s, t, n, id) ==
    /\ \A m \in Names \ {n} : t.users[m] = s.users[m]
    /\ s.users[n] # NoUser => s.users[n].id = id
    /\ t.users[n] # NoUser => t.users[n].id = id

LEMMA OthersAreKept ==
    ASSUME NEW s, NEW t, NEW n \in Names, NEW id, Edited(s, t, n, id)
    PROVE  \A i : i # id => Holders(t, i) = Holders(s, i) /\ Doc(t, i) = Doc(s, i)
<1> TAKE i
<1> HAVE i # id
<1>1. \A m : m \in Holders(s, i) => m \in Names \ {n} /\ t.users[m] = s.users[m]
    BY HolderIs DEF Edited
<1>2. \A m : m \in Holders(t, i) => m \in Names \ {n} /\ t.users[m] = s.users[m]
    BY HolderIs DEF Edited
<1>3. Holders(t, i) = Holders(s, i)
    <2>1. \A m : m \in Holders(t, i) <=> m \in Holders(s, i)
        BY <1>1, <1>2, HolderIs
    <2>2. QED BY <2>1
<1>4. CASE Holders(s, i) = {} BY <1>3, <1>4 DEF Doc
<1>5. CASE Holders(s, i) # {}
    <2> DEFINE m == CHOOSE m \in Holders(s, i) : TRUE
    <2>1. m \in Holders(s, i) BY <1>5
    <2>2. UserOf(t, i) = t.users[m] /\ UserOf(s, i) = s.users[m]
        BY <1>3 DEF UserOf
    <2>3. UserOf(t, i) = UserOf(s, i) BY <1>1, <2>1, <2>2
    <2>4. QED BY <1>3, <2>3 DEF Doc
<1>6. QED BY <1>3, <1>4, <1>5

(* What all the changes have in common: t is what the store becomes, n the *)
(* name of the account, req the request.                                   *)
SoundStore(t) == t \in Stores /\ WellKept(t) /\ Current(t)
SoundCounters(t, req) ==
    \A ch \in CharIDs : \A m \in Keepers(t, ch) :
        \/ /\ m \in Keepers(mem, ch)
           /\ ~(req.op = "result" /\ req.char = ch)
           /\ Counters(StatsOf(t, m, ch)) = Counters(StatsOf(mem, m, ch))
        \/ /\ m \in Keepers(mem, ch)
           /\ req.op = "result" /\ req.char = ch
           /\ StatsOf(t, m, ch) = Credited(StatsOf(mem, m, ch), req.match)
        \/ /\ mem.nextChar <= ch
           /\ req.op # "result"
           /\ Counters(StatsOf(t, m, ch)) = Counters(NewStats)
SoundAccount(n, t, req) ==
    LET u == mem.users[n]  v == t.users[n]
    IN  /\ u = NoUser => req.id = mem.next
        /\ v # NoUser /\ v.banned => req.op = "ban" \/ (u # NoUser /\ u.banned)
        /\ v # NoUser => \/ req.op = "character" \/ u = NoUser
                         \/ Shown(v) = Shown(u)
        /\ req.op \in {"login", "character"} => req.conn \in Clients /\ v # NoUser
        /\ req.op = "login" => ~v.banned
        /\ req.op = "character" => acct[req.conn] = req.id
Sound(n, t, req) ==
    /\ Ready
    /\ n \in Names /\ req \in Requests
    /\ SoundStore(t)
    /\ Edited(mem, t, n, req.id)
    /\ mem.next <= t.next /\ mem.nextChar <= t.nextChar
    /\ SoundCounters(t, req)
    /\ SoundAccount(n, t, req)
    /\ req.op = "result" =>
          req.char \in CharIDs /\ req.char < t.nextChar /\ req.match \in Matches

LEMMA RequestType ==
    ASSUME NEW req \in Requests
    PROVE  /\ req # Free /\ req.id \in IDs /\ req.char \in 0 .. MaxChar
           /\ req.conn \in Clients \cup {NoClient}
           /\ req.match \in Matches \cup {NoMatch}
<1>1. req # Free BY LockAssumption
<1>2. QED BY <1>1 DEF Requests

(* Who held an id keeps it through a change, and so do characters.         *)
LEMMA KnownAfterChange ==
    ASSUME TypeOK, StoresKept, KnownTo(mem, told, owners), NEW n, NEW t, NEW req,
           Sound(n, t, req)
    PROVE  KnownTo(t, told, owners)
<1> USE IdsAreNumbers
<1>1. /\ mem \in Stores /\ t \in Stores /\ WellKept(mem) /\ n \in Names
      /\ Edited(mem, t, n, req.id)
      /\ mem.next <= t.next /\ mem.nextChar <= t.nextChar
      /\ told \subseteq IDs \X Names /\ owners \subseteq CharIDs \X IDs
    BY DEF TypeOK, StoresKept, Sound, SoundStore
<1>2. /\ mem.next \in Nat /\ t.next \in Nat
      /\ mem.nextChar \in Nat /\ t.nextChar \in Nat
    BY <1>1, StoreType
<1>3. ASSUME NEW f \in told
      PROVE  f[1] < t.next /\ Holders(t, f[1]) \subseteq {f[2]}
    <2>1. f[1] < mem.next /\ Holders(mem, f[1]) \subseteq {f[2]} /\ f[1] \in Nat
        BY <1>1 DEF KnownTo
    <2>2. f[1] < t.next BY <1>1, <1>2, <2>1
    <2>3. CASE f[1] # req.id BY <1>1, <2>1, <2>2, <2>3, OthersAreKept
    <2>4. CASE f[1] = req.id
        <3>1. mem.users[n] # NoUser
            BY <1>2, <2>1, <2>4 DEF Sound, SoundAccount
        <3>2. n \in Holders(mem, f[1]) BY <1>1, <2>4, <3>1, HolderIs DEF Edited
        <3>3. \A m \in Holders(t, f[1]) : m # n => m \in Holders(mem, f[1])
            BY <1>1, HolderIs DEF Edited
        <3>4. QED BY <2>1, <2>2, <3>2, <3>3
    <2>5. QED BY <2>3, <2>4
<1>4. ASSUME NEW f \in owners
      PROVE  f[1] < t.nextChar /\ \A m \in Keepers(t, f[1]) : t.users[m].id = f[2]
    <2>1. /\ f[1] < mem.nextChar /\ f[1] \in CharIDs /\ f[1] \in Nat
          /\ \A m \in Keepers(mem, f[1]) : mem.users[m].id = f[2]
        BY <1>1 DEF KnownTo
    <2>2. f[1] < t.nextChar BY <1>1, <1>2, <2>1
    <2>3. ASSUME NEW m \in Keepers(t, f[1]) PROVE t.users[m].id = f[2]
        <3>1. m \in Keepers(mem, f[1])
            BY <1>2, <2>1 DEF Sound, SoundCounters
        <3>2. m \in Names /\ mem.users[m] # NoUser /\ t.users[m] # NoUser
            BY <3>1, KeeperIs
        <3>3. t.users[m].id = mem.users[m].id BY <1>1, <3>2 DEF Edited
        <3>4. QED BY <2>1, <3>1, <3>3
    <2>4. QED BY <2>2, <2>3
<1>5. QED BY <1>3, <1>4 DEF KnownTo

LEMMA ChangeKeeps ==
    ASSUME AccountsInv, NEW n, NEW t, NEW req, Sound(n, t, req), Change(t, req)
    PROVE  AccountsInv'
<1> USE IdsAreNumbers
<1>1. /\ TypeOK /\ StoresKept /\ DownIsEmpty /\ AcctsGiven
      /\ SavedWhole /\ IdentitiesKept /\ OneIdentity /\ BannedAreKicked
      /\ CopiesRenewed /\ MirrorKept /\ CountsKept
    BY DEF AccountsInv
<1>2. /\ up /\ lock = Free /\ n \in Names /\ req \in Requests
      /\ t \in Stores /\ WellKept(t) /\ Current(t)
      /\ Edited(mem, t, n, req.id)
      /\ mem.next <= t.next /\ mem.nextChar <= t.nextChar
      /\ SoundAccount(n, t, req) /\ SoundCounters(t, req)
      /\ req # Free /\ req.id \in IDs
    BY RequestType DEF Sound, SoundStore, Ready
<1>3. /\ steps < MaxSteps /\ steps' = steps + 1 /\ mem' = t /\ lock' = req
      /\ cast' = cast /\ up' = up /\ file' = file
      /\ pc' = pc /\ acct' = acct /\ copy' = copy /\ got' = got /\ kicks' = kicks
      /\ mirror' = mirror /\ writes' = writes /\ syncing' = syncing
      /\ crossed' = crossed /\ lost' = lost
      /\ faulty' = faulty /\ told' = told /\ owners' = owners
      /\ results' = results /\ excused' = excused /\ touched' = touched
    BY DEF Change, connVars, mirrorVars, histVars
<1>4. /\ mem \in Stores /\ WellKept(mem)
      /\ mem.next \in Nat /\ t.next \in Nat
      /\ mem.nextChar \in Nat /\ t.nextChar \in Nat
      /\ acct \in [Clients -> 0 .. MaxID] /\ \A c \in Clients : acct[c] \in Nat
    <2>1. mem \in Stores /\ WellKept(mem) BY <1>1 DEF TypeOK, StoresKept
    <2>2. acct \in [Clients -> 0 .. MaxID] BY <1>1 DEF TypeOK
    <2>3. QED BY <1>2, <2>1, <2>2, StoreType
<1>5. TypeOK'
    <2>1. steps' \in 0 .. MaxSteps BY <1>1, <1>3, StepAssumption DEF TypeOK
    <2>2. QED BY <1>1, <1>2, <1>3, <2>1 DEF TypeOK
<1>6. StoresKept'
    BY <1>1, <1>2, <1>3 DEF StoresKept
<1>7. DownIsEmpty'
    BY <1>2, <1>3 DEF DownIsEmpty
<1>8. \A i : i # req.id => Holders(t, i) = Holders(mem, i) /\ Doc(t, i) = Doc(mem, i)
    BY <1>2, OthersAreKept
<1>9. t.users[n] # NoUser => Holders(t, req.id) = {n}
    BY <1>2, HeldByOne DEF Edited
<1>10. \A m \in Holders(t, req.id) : m = n
    <2> SUFFICES ASSUME NEW m \in Holders(t, req.id), m # n PROVE FALSE
        OBVIOUS
    <2>1. m \in Names /\ mem.users[m] # NoUser /\ mem.users[m].id = req.id
        BY <1>2, HolderIs DEF Edited
    <2>2. mem.users[m].id < mem.next /\ req.id \in Nat BY <1>2, <1>4, <2>1, Kept
    <2>3. mem.users[n] # NoUser BY <1>2, <1>4, <2>1, <2>2 DEF SoundAccount
    <2>4. QED BY <1>2, <1>4, <2>1, <2>3, Kept DEF Edited
<1>11. LockServes'
    <2>1. req.op \in {"login", "character"} => Holders(t, req.id) # {}
        BY <1>2, <1>9 DEF SoundAccount
    <2>2. req.op = "login" => \A m \in Holders(t, req.id) : ~t.users[m].banned
        BY <1>2, <1>10 DEF SoundAccount
    <2>3. QED BY <1>2, <1>3, <2>1, <2>2 DEF LockServes, SoundAccount, Sound
<1>12. AcctsGiven'
    BY <1>1, <1>2, <1>3, <1>4 DEF AcctsGiven, Live
<1>13. SavedWhole'
    BY <1>2, <1>3 DEF SavedWhole
<1>14. IdentitiesKept' /\ OneIdentity'
    <2>1. KnownTo(mem, told, owners) => KnownTo(t, told, owners) BY <1>1, KnownAfterChange
    <2>2. IdentitiesKept'
        BY <1>1, <1>2, <1>3, <2>1 DEF IdentitiesKept, KnownTo, Keepers, Holders
    <2>3. OneIdentity' BY <1>1, <1>3 DEF OneIdentity
    <2>4. QED BY <2>2, <2>3
<1>15. BannedAreKicked'
    <2> SUFFICES ASSUME NEW c \in Clients, NEW m \in Names,
                        Live(c), m \in Holders(t, acct[c]), t.users[m].banned,
                        acct[c] \notin kicks,
                        ~(req.id = acct[c] /\ req.op = "ban")
                 PROVE  c \in excused
        BY <1>2, <1>3 DEF BannedAreKicked, Live, Busy
    <2>1. CASE acct[c] # req.id
        <3>1. m \in Holders(mem, acct[c]) BY <1>8, <2>1
        <3>2. t.users[m] = mem.users[m] BY <1>2, <2>1, HolderIs DEF Edited
        <3>3. QED BY <1>1, <1>2, <3>1, <3>2 DEF BannedAreKicked, Busy
    <2>2. CASE acct[c] = req.id
        <3>1. m = n /\ t.users[n] # NoUser BY <1>10, <2>2, HolderIs
        <3>2. mem.users[n] # NoUser /\ mem.users[n].banned
            BY <1>2, <2>2, <3>1 DEF SoundAccount
        <3>3. n \in Holders(mem, acct[c])
            BY <1>2, <2>2, <3>2, HolderIs DEF Edited
        <3>4. QED BY <1>1, <1>2, <3>2, <3>3 DEF BannedAreKicked, Busy
    <2>3. QED BY <2>1, <2>2
<1>16. CopiesRenewed'
    <2> SUFFICES ASSUME NEW c \in Clients, NEW m \in Names,
                        Live(c), c \notin touched, m \in Holders(t, acct[c]),
                        ~(req.id = acct[c] /\ req.op = "character")
                 PROVE  ToBeShown(c) = Shown(t.users[m])
        <3>1. \A c : Live(c)' = Live(c) /\ ToBeShown(c)' = ToBeShown(c)
            BY <1>3 DEF Live, ToBeShown
        <3>2. \A i : /\ Holders(mem, i)' = Holders(t, i)
                     /\ Busy(i)' <=> req.id = i
            BY <1>2, <1>3 DEF Holders, Busy
        <3>3. \A m : Shown(mem.users[m])' = Shown(t.users[m])
            BY <1>3 DEF Shown, Owned
        <3>4. QED BY <1>3, <3>1, <3>2, <3>3 DEF CopiesRenewed
    <2>1. CASE acct[c] # req.id
        <3>1. m \in Holders(mem, acct[c]) BY <1>8, <2>1
        <3>2. t.users[m] = mem.users[m] BY <1>2, <2>1, HolderIs DEF Edited
        <3>3. QED BY <1>1, <1>2, <3>1, <3>2 DEF CopiesRenewed, Busy
    <2>2. CASE acct[c] = req.id
        <3>1. m = n /\ t.users[n] # NoUser BY <1>10, <2>2, HolderIs
        <3>2. acct[c] < mem.next BY <1>1, <1>2 DEF AcctsGiven
        <3>3. mem.users[n] # NoUser
            BY <1>2, <1>4, <2>2, <3>2 DEF SoundAccount
        <3>4. Shown(t.users[n]) = Shown(mem.users[n])
            BY <1>2, <2>2, <3>1, <3>3 DEF SoundAccount
        <3>5. n \in Holders(mem, acct[c])
            BY <1>2, <2>2, <3>3, HolderIs DEF Edited
        <3>6. ToBeShown(c) = Shown(mem.users[n])
            BY <1>1, <1>2, <3>5 DEF CopiesRenewed, Busy
        <3>7. QED BY <3>1, <3>4, <3>6
    <2>3. QED BY <2>1, <2>2
<1>17. MirrorKept'
    <2>1. OneUpsert' BY <1>1, <1>3 DEF MirrorKept, OneUpsert
    <2>2. FileFollows'
        <3> SUFFICES ASSUME NEW id \in cast.watched, id \notin lost, id # req.id
                     PROVE  Doc(file, id) = Doc(t, id)
            <4>1. \A i : Doc(file, i)' = Doc(file, i) /\ Doc(mem, i)' = Doc(t, i)
                BY <1>3 DEF Doc, Holders, UserOf
            <4>2. QED BY <1>2, <1>3, <4>1 DEF FileFollows, Busy
        <3>1. Doc(file, id) = Doc(mem, id)
            BY <1>1, <1>2 DEF MirrorKept, FileFollows, Busy
        <3>2. QED BY <1>8, <3>1
    <2>3. UpsertsFollow'
        <3> SUFFICES ASSUME NEW w \in writes, Tracked(w.id), w.id # req.id
                     PROVE  w.doc = Doc(t, w.id)
            <4>1. \A i : Doc(mem, i)' = Doc(t, i) BY <1>3 DEF Doc, Holders, UserOf
            <4>2. \A i : Tracked(i)' = Tracked(i) /\ (Busy(i)' <=> req.id = i)
                BY <1>2, <1>3 DEF Tracked, Busy
            <4>3. QED BY <1>3, <4>1, <4>2 DEF UpsertsFollow
        <3>1. w.doc = Doc(mem, w.id)
            BY <1>1, <1>2 DEF MirrorKept, UpsertsFollow, Busy
        <3>2. QED BY <1>8, <3>1
    <2>4. WrittenFollows'
        <3> SUFFICES ASSUME NEW id \in IDs, Tracked(id), id # req.id,
                            Upserts(id) = {},
                            id \notin syncing \/ Holders(t, id) = {}
                     PROVE  mirror[id] = Doc(t, id)
            BY <1>2, <1>3
            DEF WrittenFollows, Busy, Tracked, Upserts, Doc, Holders, UserOf
        <3>1. mirror[id] = Doc(mem, id)
            BY <1>1, <1>2, <1>8 DEF MirrorKept, WrittenFollows, Busy
        <3>2. QED BY <1>8, <3>1
    <2>5. DeletedFollow' BY <1>2, <1>3 DEF DeletedFollow
    <2>6. QED BY <2>1, <2>2, <2>3, <2>4, <2>5 DEF MirrorKept
<1>18. CountsKept'
    <2>1. FileCounted => FileCounted'
        BY <1>3 DEF FileCounted, Keepers, StatsOf, Owned
    <2>2. ASSUME MemCounted PROVE MemCounted'
        <3>1. ASSUME NEW ch \in CharIDs
              PROVE  /\ Due(ch) = results[ch]
                     /\ ~(req.op = "result" /\ req.char = ch) => Due(ch)' = results[ch]
                     /\ req.op = "result" /\ req.char = ch =>
                          Due(ch)' = Added(results[ch], req.match)
            BY <1>2, <1>3 DEF Due
        <3>2. ASSUME NEW ch \in CharIDs, NEW m \in Keepers(t, ch)
              PROVE  Deserved(Due(ch)') = Counters(StatsOf(t, m, ch))
            <4>1. CASE /\ m \in Keepers(mem, ch)
                       /\ ~(req.op = "result" /\ req.char = ch)
                       /\ Counters(StatsOf(t, m, ch)) = Counters(StatsOf(mem, m, ch))
                BY <2>2, <3>1, <4>1 DEF MemCounted
            <4>2. CASE /\ m \in Keepers(mem, ch)
                       /\ req.op = "result" /\ req.char = ch
                       /\ StatsOf(t, m, ch) = Credited(StatsOf(mem, m, ch), req.match)
                <5>1. StatsOf(mem, m, ch) \in Stats
                    <6>1. m \in Names /\ mem.users[m] # NoUser
                          /\ ch \in Owned(mem.users[m])
                        BY <4>2, KeeperIs
                    <6>2. mem.users[m].chars[ch] \in Chars
                        BY <1>4, <6>1, StoreType, UserType
                    <6>3. QED BY <6>2 DEF StatsOf, Chars
                <5>2. results[ch] \in Reports BY <1>1 DEF TypeOK, Reports
                <5>3. Deserved(results[ch]) = Counters(StatsOf(mem, m, ch))
                    BY <2>2, <3>1, <4>2 DEF MemCounted
                <5>4. req.match \in Matches BY <4>2 DEF Sound
                <5>5. Deserved(Added(results[ch], req.match)) =
                          Counters(Credited(StatsOf(mem, m, ch), req.match))
                    BY <5>1, <5>2, <5>3, <5>4, CreditedCounts
                <5>6. QED BY <3>1, <4>2, <5>5
            <4>3. CASE /\ mem.nextChar <= ch
                       /\ req.op # "result"
                       /\ Counters(StatsOf(t, m, ch)) = Counters(NewStats)
                <5>1. results[ch] = Nothing
                    BY <1>4, <2>2, <3>1, <4>3 DEF MemCounted
                <5>2. QED BY <3>1, <4>3, <5>1, NothingCounts
            <4>4. QED BY <1>2, <4>1, <4>2, <4>3 DEF SoundCounters
        <3>3. ASSUME NEW ch \in CharIDs, ch >= t.nextChar
              PROVE  Due(ch)' = Nothing
            <4>1. ch >= mem.nextChar BY <1>2, <1>4, <3>3
            <4>2. ~(req.op = "result" /\ req.char = ch)
                BY <1>4, <3>3 DEF Sound
            <4>3. QED BY <2>2, <3>1, <4>1, <4>2 DEF MemCounted
        <3>4. QED BY <1>3, <3>2, <3>3 DEF MemCounted, Keepers, StatsOf, Owned
    <2>3. QED BY <1>1, <1>2, <1>3, <2>1, <2>2 DEF CountsKept
<1>19. QED
    BY <1>5, <1>6, <1>7, <1>11, <1>12, <1>13, <1>14, <1>15, <1>16, <1>17, <1>18
    DEF AccountsInv

-----------------------------------------------------------------------------
(* The operations on the store, as a change of one account.                *)

WithUser(s, n, v, nx, nc) ==
    [next |-> nx, nextChar |-> nc, swept |-> s.swept,
     users |-> [s.users EXCEPT ![n] = v]]
Recharactered(u, ch, c, sel) ==
    [id |-> u.id, banned |-> u.banned, sel |-> sel, legacy |-> u.legacy,
     chars |-> [u.chars EXCEPT ![ch] = c]]

(* What is enough for a change of account id to be sound.                  *)
MayEdit(s, n, v, nx, nc, id) ==
    /\ s \in Stores /\ SoundStore(s)
    /\ n \in Names /\ v \in Users \cup {NoUser}
    /\ nx \in s.next .. MaxID + 1 /\ nc \in s.nextChar .. MaxChar + 1
    /\ s.users[n] # NoUser => s.users[n].id = id
    /\ s.users[n] = NoUser => id = s.next
    /\ v # NoUser => /\ v.id = id /\ id < nx /\ ~Migrates(v)
                     /\ v.legacy # NoLegacy => Complete(v.legacy)
    /\ v # NoUser => \A ch \in Owned(v) :
           /\ Complete(v.chars[ch].stats)
           /\ ch < nc
           /\ (s.users[n] # NoUser /\ ch \in Owned(s.users[n])) \/ s.nextChar <= ch

LEMMA UserEdited ==
    ASSUME NEW s, NEW n, NEW v, NEW nx, NEW nc, NEW id, MayEdit(s, n, v, nx, nc, id)
    PROVE  LET t == WithUser(s, n, v, nx, nc)
           IN  /\ SoundStore(t) /\ Edited(s, t, n, id)
               /\ t.next = nx /\ t.nextChar = nc /\ s.next <= nx /\ s.nextChar <= nc
               /\ t.users[n] = v
               /\ \A m \in Names : m # n => t.users[m] = s.users[m]
<1> DEFINE t == WithUser(s, n, v, nx, nc)
<1> USE DEF MayEdit
<1>1. /\ s.next \in 1 .. MaxID + 1 /\ s.nextChar \in 1 .. MaxChar + 1
      /\ s.users \in [Names -> Users \cup {NoUser}] /\ s.swept \in BOOLEAN
      /\ \A m \in Names : s.users[m] # NoUser => s.users[m] \in Users
      /\ WellKept(s) /\ Current(s)
    BY StoreType DEF SoundStore
<1>2. /\ t.next = nx /\ t.nextChar = nc
      /\ t.users = [s.users EXCEPT ![n] = v]
      /\ nx \in 1 .. MaxID + 1 /\ nc \in 1 .. MaxChar + 1
      /\ s.next <= nx /\ s.nextChar <= nc
      /\ nx \in Nat /\ nc \in Nat /\ s.next \in Nat /\ s.nextChar \in Nat
    BY <1>1, IdsAreNumbers DEF WithUser
<1>3. t.users[n] = v /\ \A m \in Names : m # n => t.users[m] = s.users[m]
    BY <1>1, <1>2
<1>4. t \in Stores
    <2>1. [s.users EXCEPT ![n] = v] \in [Names -> Users \cup {NoUser}] BY <1>1
    <2>2. QED BY <1>1, <1>2, <2>1 DEF WithUser, Stores
<1> HIDE DEF t
<1>5. ASSUME NEW m \in Names, s.users[m] # NoUser
      PROVE  /\ s.users[m].id < s.next /\ s.users[m].id < nx /\ ~Migrates(s.users[m])
             /\ s.users[m].id \in Nat
             /\ \A ch \in Owned(s.users[m]) : /\ ch \in Nat
                                              /\ ch < s.nextChar /\ ch < nc
                                              /\ Complete(s.users[m].chars[ch].stats)
    <2>1. /\ s.users[m].id \in IDs /\ s.users[m].id \in Nat
          /\ Owned(s.users[m]) \subseteq CharIDs
          /\ \A ch \in Owned(s.users[m]) : ch \in Nat
        BY <1>1, <1>5, UserType, IdsAreNumbers
    <2>2. s.users[m].id < s.next /\ s.users[m].id < nx /\ ~Migrates(s.users[m])
        <3>1. s.users[m].id < s.next BY <1>1, <1>5, Kept
        <3>2. ~Migrates(s.users[m]) BY <1>1 DEF Current
        <3>3. QED BY <1>2, <2>1, <3>1, <3>2
    <2>3. ASSUME NEW ch \in Owned(s.users[m])
          PROVE  ch < s.nextChar /\ ch < nc /\ Complete(s.users[m].chars[ch].stats)
        <3>1. ch < s.nextChar BY <1>1, <1>5 DEF Current
        <3>2. ch < nc BY <1>2, <2>1, <3>1
        <3>3. QED BY <1>1, <1>5, <3>1, <3>2, Kept
    <2>4. QED BY <2>1, <2>2, <2>3
<1>6. ASSUME v # NoUser, NEW m \in Names, m # n, s.users[m] # NoUser
      PROVE  v.id # s.users[m].id /\ Owned(v) \cap Owned(s.users[m]) = {}
    <2>1. v.id # s.users[m].id
        <3>1. CASE s.users[n] = NoUser BY <1>2, <1>5, <1>6, <3>1
        <3>2. CASE s.users[n] # NoUser BY <1>1, <1>6, <3>2, Kept
        <3>3. QED BY <3>1, <3>2
    <2>2. ASSUME NEW ch \in Owned(v), ch \in Owned(s.users[m]) PROVE FALSE
        <3>1. ch < s.nextChar /\ ch \in Nat BY <1>5, <1>6, <2>2
        <3>2. s.users[n] # NoUser /\ ch \in Owned(s.users[n])
            BY <1>2, <1>6, <3>1
        <3>3. QED BY <1>1, <1>6, <2>2, <3>2, Kept
    <2>3. QED BY <2>1, <2>2
<1>7. ASSUME NEW k \in Names, NEW m \in Names,
             t.users[k] # NoUser, t.users[m] # NoUser, k # m
      PROVE  /\ t.users[k].id # t.users[m].id
             /\ Owned(t.users[k]) \cap Owned(t.users[m]) = {}
    <2>1. CASE k = n BY <1>3, <1>6, <1>7, <2>1
    <2>2. CASE m = n BY <1>3, <1>6, <1>7, <2>2
    <2>3. CASE k # n /\ m # n
        <3>1. t.users[k] = s.users[k] /\ t.users[m] = s.users[m] BY <1>3, <2>3
        <3>2. QED BY <1>1, <1>7, <3>1, Kept
    <2>4. QED BY <2>1, <2>2, <2>3
<1>8. ASSUME NEW m \in Names, t.users[m] # NoUser
      PROVE  /\ t.users[m].id < nx
             /\ \A ch \in Owned(t.users[m]) : Complete(t.users[m].chars[ch].stats)
             /\ t.users[m].legacy # NoLegacy => Complete(t.users[m].legacy)
             /\ ~Migrates(t.users[m])
             /\ \A ch \in Owned(t.users[m]) : ch < nc
    <2>1. CASE m = n BY <1>3, <1>8, <2>1
    <2>2. CASE m # n
        <3>1. t.users[m] = s.users[m] BY <1>3, <2>2
        <3>2. s.users[m].legacy # NoLegacy => Complete(s.users[m].legacy)
            BY <1>1, <1>8, <3>1, Kept
        <3>3. QED BY <1>5, <1>8, <3>1, <3>2
    <2>3. QED BY <2>1, <2>2
<1>9. WellKept(t) BY <1>2, <1>7, <1>8 DEF WellKept
<1>10. Current(t)
    <2>1. \A m \in Names : t.users[m] = NoUser => ~Migrates(t.users[m])
        BY DEF Migrates
    <2>2. QED BY <1>2, <1>8, <2>1 DEF Current
<1>11. Edited(s, t, n, id) BY <1>3 DEF Edited
<1>12. QED BY <1>2, <1>3, <1>4, <1>9, <1>10, <1>11 DEF SoundStore, t

LEMMA CharEdited ==
    ASSUME NEW u \in Users, NEW ch \in CharIDs, NEW c \in Chars, NEW sel \in 0 .. MaxChar
    PROVE  LET v == Recharactered(u, ch, c, sel)
           IN  /\ v \in Users /\ v.id = u.id /\ v.banned = u.banned /\ v.sel = sel
               /\ v.legacy = u.legacy /\ ~Migrates(v)
               /\ Owned(v) = Owned(u) \cup {ch}
               /\ v.chars[ch] = c
               /\ \A d \in CharIDs : d # ch => v.chars[d] = u.chars[d]
<1> DEFINE v == Recharactered(u, ch, c, sel)
<1>1. c # NoChar BY AbsenceAssumption
<1>2. /\ v.id = u.id /\ v.banned = u.banned /\ v.sel = sel /\ v.legacy = u.legacy
      /\ v.chars = [u.chars EXCEPT ![ch] = c]
    BY DEF Recharactered
<1>3. [u.chars EXCEPT ![ch] = c] \in [CharIDs -> Chars \cup {NoChar}] BY UserType
<1>4. v \in Users BY <1>3, UserType DEF Recharactered, Users
<1>5. v.chars[ch] = c /\ \A d \in CharIDs : d # ch => v.chars[d] = u.chars[d]
    BY <1>2, UserType
<1> HIDE DEF v
<1>6. Owned(v) = Owned(u) \cup {ch} BY <1>1, <1>5 DEF Owned
<1>7. ~Migrates(v) BY <1>6 DEF Migrates
<1>8. QED BY <1>2, <1>4, <1>5, <1>6, <1>7 DEF v

(* Each operation as such a change.                                        *)
LEMMA OperationsAre ==
    ASSUME NEW s \in Stores, NEW n \in Names
    PROVE  LET u == s.users[n]
           IN  /\ WithAccount(s, n) =
                     WithUser(s, n, [id |-> s.next, banned |-> FALSE, sel |-> 0,
                                     legacy |-> NoLegacy, chars |-> NoChars],
                              s.next + 1, s.nextChar)
               /\ WithoutAccount(s, n) = WithUser(s, n, NoUser, s.next, s.nextChar)
               /\ u # NoUser =>
                    /\ \A b : WithBan(s, n, b) =
                          WithUser(s, n, [u EXCEPT !.banned = b], s.next, s.nextChar)
                    /\ \A ch : WithSelection(s, n, ch) =
                          WithUser(s, n, [u EXCEPT !.sel = ch], s.next, s.nextChar)
                    /\ \A name : WithCharacter(s, n, name) =
                          WithUser(s, n,
                              Recharactered(u, s.nextChar,
                                  [name |-> name, rename |-> FALSE, stats |-> NewStats],
                                  s.nextChar),
                              s.next, s.nextChar + 1)
                    /\ \A ch \in CharIDs :
                         /\ \A name : WithName(s, n, ch, name) =
                               WithUser(s, n,
                                   Recharactered(u, ch,
                                       [u.chars[ch] EXCEPT !.name = name, !.rename = FALSE],
                                       u.sel),
                                   s.next, s.nextChar)
                         /\ \A m : WithResult(s, n, ch, m) =
                               WithUser(s, n,
                                   Recharactered(u, ch,
                                       [u.chars[ch] EXCEPT !.stats = Credited(@, m)],
                                       u.sel),
                                   s.next, s.nextChar)
                         /\ WithUpgrade(s, n, ch) =
                               WithUser(s, n,
                                   Recharactered(u, ch,
                                       [u.chars[ch] EXCEPT !.stats.endurance = @ + 1],
                                       u.sel),
                                   s.next, s.nextChar)
<1>1. PICK nx, nc, sw, us :
          s = [next |-> nx, nextChar |-> nc, swept |-> sw, users |-> us]
    BY StoreType
<1>2. s.next = nx /\ s.nextChar = nc /\ s.swept = sw /\ s.users = us
    BY <1>1
<1>3. PICK u : u = us[n] OBVIOUS
<1>4. \A v, x, c : WithUser(s, n, v, x, c) =
          [next |-> x, nextChar |-> c, swept |-> sw, users |-> [us EXCEPT ![n] = v]]
    BY <1>2 DEF WithUser
<1>5. ASSUME NEW t, t = WithAccount(s, n)
      PROVE  t = WithUser(s, n, [id |-> s.next, banned |-> FALSE, sel |-> 0,
                                 legacy |-> NoLegacy, chars |-> NoChars],
                          s.next + 1, s.nextChar)
    <2> DEFINE new == [id |-> nx, banned |-> FALSE, sel |-> 0, legacy |-> NoLegacy,
                       chars |-> NoChars]
    <2>1. t = [s EXCEPT !.next = @ + 1, !.users[n] = new]
        BY <1>2, <1>5, Zenon DEF WithAccount
    <2> HIDE DEF new
    <2>2. t = [next |-> nx + 1, nextChar |-> nc, swept |-> sw,
               users |-> [us EXCEPT ![n] = new]]
        BY <1>1, <2>1
    <2>3. t = WithUser(s, n, new, nx + 1, nc) BY <1>4, <2>2
    <2>4. QED BY <1>2, <2>3, Zenon DEF new
<1>6. ASSUME NEW t, t = WithoutAccount(s, n)
      PROVE  t = WithUser(s, n, NoUser, s.next, s.nextChar)
    <2>1. t = [s EXCEPT !.users[n] = NoUser] BY <1>6 DEF WithoutAccount
    <2>2. QED BY <1>1, <1>2, <1>4, <2>1
<1>7. ASSUME NEW t, NEW b, t = WithBan(s, n, b)
      PROVE  t = WithUser(s, n, [u EXCEPT !.banned = b], s.next, s.nextChar)
    <2>1. t = [s EXCEPT !.users[n].banned = b] BY <1>7 DEF WithBan
    <2>2. QED BY <1>1, <1>2, <1>3, <1>4, <2>1
<1>8. ASSUME NEW t, NEW ch, t = WithSelection(s, n, ch)
      PROVE  t = WithUser(s, n, [u EXCEPT !.sel = ch], s.next, s.nextChar)
    <2>1. t = [s EXCEPT !.users[n].sel = ch] BY <1>8 DEF WithSelection
    <2>2. QED BY <1>1, <1>2, <1>3, <1>4, <2>1
<1>9. ASSUME u # NoUser, NEW ch, NEW c, NEW sel, NEW v
      PROVE  /\ v = [u EXCEPT !.sel = sel, !.chars[ch] = c]
                  => v = Recharactered(u, ch, c, sel)
             /\ v = [u EXCEPT !.chars = [@ EXCEPT ![ch] = c]]
                  => v = Recharactered(u, ch, c, u.sel)
    <2>1. u \in Users BY <1>2, <1>3, <1>9, StoreType
    <2>2. PICK id, ban, osel, leg, chars :
                 u = [id |-> id, banned |-> ban, sel |-> osel, legacy |-> leg,
                      chars |-> chars]
        BY <2>1, UserType
    <2>3. QED BY <2>2 DEF Recharactered
<1>10. ASSUME u # NoUser, NEW t, NEW name, t = WithCharacter(s, n, name)
       PROVE  t = WithUser(s, n,
                      Recharactered(u, s.nextChar,
                          [name |-> name, rename |-> FALSE, stats |-> NewStats],
                          s.nextChar),
                      s.next, s.nextChar + 1)
    <2> DEFINE c == [name |-> name, rename |-> FALSE, stats |-> NewStats]
    <2>1. t = [s EXCEPT !.nextChar = @ + 1,
                        !.users[n] = [@ EXCEPT !.sel = nc, !.chars[nc] = c]]
        BY <1>2, <1>10, Zenon DEF WithCharacter
    <2> HIDE DEF c
    <2>2. PICK v : v = [u EXCEPT !.sel = nc, !.chars[nc] = c] OBVIOUS
    <2>3. t = [next |-> nx, nextChar |-> nc + 1, swept |-> sw,
               users |-> [us EXCEPT ![n] = v]]
        BY <1>1, <1>3, <2>1, <2>2
    <2>4. v = Recharactered(u, nc, c, nc) BY <1>9, <1>10, <2>2
    <2>5. QED BY <1>2, <1>4, <2>3, <2>4 DEF c
<1>11. ASSUME u # NoUser, NEW ch \in CharIDs, NEW t, NEW name, t = WithName(s, n, ch, name)
       PROVE  t = WithUser(s, n,
                      Recharactered(u, ch,
                          [u.chars[ch] EXCEPT !.name = name, !.rename = FALSE], u.sel),
                      s.next, s.nextChar)
    <2>1. t = [s EXCEPT !.users[n].chars[ch] =
                   [@ EXCEPT !.name = name, !.rename = FALSE]]
        BY <1>11 DEF WithName
    <2>2. PICK c : c = [u.chars[ch] EXCEPT !.name = name, !.rename = FALSE] OBVIOUS
    <2>3. PICK v : v = [u EXCEPT !.chars = [@ EXCEPT ![ch] = c]] OBVIOUS
    <2>4. t = [next |-> nx, nextChar |-> nc, swept |-> sw,
               users |-> [us EXCEPT ![n] = v]]
        BY <1>1, <1>3, <2>1, <2>2, <2>3
    <2>5. v = Recharactered(u, ch, c, u.sel) BY <1>9, <1>11, <2>3
    <2>6. QED BY <1>2, <1>4, <2>2, <2>4, <2>5
<1>12. ASSUME u # NoUser, NEW ch \in CharIDs, NEW t, NEW m, t = WithResult(s, n, ch, m)
       PROVE  t = WithUser(s, n,
                      Recharactered(u, ch,
                          [u.chars[ch] EXCEPT !.stats = Credited(@, m)], u.sel),
                      s.next, s.nextChar)
    <2>1. t = [s EXCEPT !.users[n].chars[ch].stats = Credited(@, m)]
        BY <1>12 DEF WithResult
    <2>2. PICK c : c = [u.chars[ch] EXCEPT !.stats = Credited(@, m)] OBVIOUS
    <2>3. PICK v : v = [u EXCEPT !.chars = [@ EXCEPT ![ch] = c]] OBVIOUS
    <2>4. t = [next |-> nx, nextChar |-> nc, swept |-> sw,
               users |-> [us EXCEPT ![n] = v]]
        BY <1>1, <1>3, <2>1, <2>2, <2>3
    <2>5. v = Recharactered(u, ch, c, u.sel) BY <1>9, <1>12, <2>3
    <2>6. QED BY <1>2, <1>4, <2>2, <2>4, <2>5
<1>13. ASSUME u # NoUser, NEW ch \in CharIDs, NEW t, t = WithUpgrade(s, n, ch)
       PROVE  t = WithUser(s, n,
                      Recharactered(u, ch,
                          [u.chars[ch] EXCEPT !.stats.endurance = @ + 1], u.sel),
                      s.next, s.nextChar)
    <2>1. t = [s EXCEPT !.users[n].chars[ch].stats.endurance = @ + 1]
        BY <1>13 DEF WithUpgrade
    <2>2. PICK c : c = [u.chars[ch] EXCEPT !.stats.endurance = @ + 1] OBVIOUS
    <2>3. PICK v : v = [u EXCEPT !.chars = [@ EXCEPT ![ch] = c]] OBVIOUS
    <2>4. t = [next |-> nx, nextChar |-> nc, swept |-> sw,
               users |-> [us EXCEPT ![n] = v]]
        BY <1>1, <1>3, <2>1, <2>2, <2>3
    <2>5. v = Recharactered(u, ch, c, u.sel) BY <1>9, <1>13, <2>3
    <2>6. QED BY <1>2, <1>4, <2>2, <2>4, <2>5
<1>14. u = s.users[n] BY <1>2, <1>3
<1>15. /\ WithAccount(s, n) =
             WithUser(s, n, [id |-> s.next, banned |-> FALSE, sel |-> 0,
                             legacy |-> NoLegacy, chars |-> NoChars],
                      s.next + 1, s.nextChar)
       /\ WithoutAccount(s, n) = WithUser(s, n, NoUser, s.next, s.nextChar)
    BY <1>5, <1>6, Zenon
<1>16. ASSUME s.users[n] # NoUser
       PROVE  /\ \A b : WithBan(s, n, b) =
                     WithUser(s, n, [u EXCEPT !.banned = b], s.next, s.nextChar)
              /\ \A ch : WithSelection(s, n, ch) =
                     WithUser(s, n, [u EXCEPT !.sel = ch], s.next, s.nextChar)
              /\ \A name : WithCharacter(s, n, name) =
                     WithUser(s, n,
                         Recharactered(u, s.nextChar,
                             [name |-> name, rename |-> FALSE, stats |-> NewStats],
                             s.nextChar),
                         s.next, s.nextChar + 1)
    BY <1>7, <1>8, <1>10, <1>14, <1>16, Zenon
<1>17. ASSUME s.users[n] # NoUser, NEW ch \in CharIDs
       PROVE  /\ \A name : WithName(s, n, ch, name) =
                     WithUser(s, n,
                         Recharactered(u, ch,
                             [u.chars[ch] EXCEPT !.name = name, !.rename = FALSE],
                             u.sel),
                         s.next, s.nextChar)
              /\ \A m : WithResult(s, n, ch, m) =
                     WithUser(s, n,
                         Recharactered(u, ch,
                             [u.chars[ch] EXCEPT !.stats = Credited(@, m)], u.sel),
                         s.next, s.nextChar)
              /\ WithUpgrade(s, n, ch) =
                     WithUser(s, n,
                         Recharactered(u, ch,
                             [u.chars[ch] EXCEPT !.stats.endurance = @ + 1], u.sel),
                         s.next, s.nextChar)
    <2>1. u # NoUser BY <1>14, <1>17
    <2>2. \A name : WithName(s, n, ch, name) =
                     WithUser(s, n,
                         Recharactered(u, ch,
                             [u.chars[ch] EXCEPT !.name = name, !.rename = FALSE],
                             u.sel),
                         s.next, s.nextChar)
        BY <1>11, <1>17, <2>1, Zenon
    <2>3. \A m : WithResult(s, n, ch, m) =
                     WithUser(s, n,
                         Recharactered(u, ch,
                             [u.chars[ch] EXCEPT !.stats = Credited(@, m)], u.sel),
                         s.next, s.nextChar)
        BY <1>12, <1>17, <2>1, Zenon
    <2>4. WithUpgrade(s, n, ch) =
                     WithUser(s, n,
                         Recharactered(u, ch,
                             [u.chars[ch] EXCEPT !.stats.endurance = @ + 1], u.sel),
                         s.next, s.nextChar)
        BY <1>13, <1>17, <2>1, Zenon
    <2>5. QED BY <2>2, <2>3, <2>4, Zenon
<1>18. QED BY <1>14, <1>15, <1>16, <1>17, Zenon

-----------------------------------------------------------------------------
(* Each operation is a sound change.                                       *)

LEMMA CountsEdited ==
    ASSUME NEW n \in Names, NEW t, NEW req, req.op # "result",
           \A m \in Names : m # n => t.users[m] = mem.users[m],
           t.users[n] # NoUser => \A ch \in Owned(t.users[n]) :
               \/ /\ mem.users[n] # NoUser /\ ch \in Owned(mem.users[n])
                  /\ Counters(t.users[n].chars[ch].stats)
                        = Counters(mem.users[n].chars[ch].stats)
               \/ /\ mem.nextChar <= ch
                  /\ Counters(t.users[n].chars[ch].stats) = Counters(NewStats)
    PROVE  SoundCounters(t, req)
<1> SUFFICES ASSUME NEW ch \in CharIDs, NEW m \in Keepers(t, ch)
             PROVE  \/ /\ m \in Keepers(mem, ch)
                       /\ Counters(StatsOf(t, m, ch)) = Counters(StatsOf(mem, m, ch))
                    \/ /\ mem.nextChar <= ch
                       /\ Counters(StatsOf(t, m, ch)) = Counters(NewStats)
    BY DEF SoundCounters
<1>1. m \in Names /\ t.users[m] # NoUser /\ ch \in Owned(t.users[m]) BY KeeperIs
<1>2. CASE m # n
    <2>1. t.users[m] = mem.users[m] BY <1>1, <1>2
    <2>2. m \in Keepers(mem, ch) BY <1>1, <2>1, KeeperIs
    <2>3. QED BY <2>1, <2>2 DEF StatsOf
<1>3. CASE m = n BY <1>1, <1>3, KeeperIs DEF StatsOf
<1>4. QED BY <1>2, <1>3

LEMMA ReadyStore ==
    ASSUME AccountsInv, Ready
    PROVE  /\ up /\ lock = Free /\ SoundStore(mem) /\ mem \in Stores
           /\ mem.next \in 1 .. MaxID + 1 /\ mem.nextChar \in 1 .. MaxChar + 1
           /\ mem.next \in Nat /\ mem.nextChar \in Nat
           /\ mem.next \in mem.next .. MaxID + 1
           /\ mem.nextChar \in mem.nextChar .. MaxChar + 1
           /\ \A n \in Names : mem.users[n] # NoUser =>
                 /\ mem.users[n] \in Users
                 /\ ~Migrates(mem.users[n])
                 /\ mem.users[n].id < mem.next
                 /\ mem.users[n].legacy # NoLegacy => Complete(mem.users[n].legacy)
                 /\ \A ch \in Owned(mem.users[n]) :
                       /\ ch \in CharIDs /\ ch < mem.nextChar
                       /\ mem.users[n].chars[ch] \in Chars
                       /\ mem.users[n].chars[ch].stats \in Stats
                       /\ Complete(mem.users[n].chars[ch].stats)
<1>1. up /\ lock = Free /\ mem \in Stores /\ SoundStore(mem)
      /\ WellKept(mem) /\ Current(mem)
    BY DEF Ready, AccountsInv, StoresKept, SoundStore, TypeOK
<1>2. /\ mem.next \in 1 .. MaxID + 1 /\ mem.nextChar \in 1 .. MaxChar + 1
      /\ \A n \in Names : mem.users[n] # NoUser => mem.users[n] \in Users
    BY <1>1, StoreType
<1>3. ASSUME NEW n \in Names, mem.users[n] # NoUser
      PROVE  /\ ~Migrates(mem.users[n])
             /\ mem.users[n].id < mem.next
             /\ mem.users[n].legacy # NoLegacy => Complete(mem.users[n].legacy)
             /\ \A ch \in Owned(mem.users[n]) :
                   /\ ch \in CharIDs /\ ch < mem.nextChar
                   /\ mem.users[n].chars[ch] \in Chars
                   /\ mem.users[n].chars[ch].stats \in Stats
                   /\ Complete(mem.users[n].chars[ch].stats)
    <2>1. ~Migrates(mem.users[n]) BY <1>1 DEF Current
    <2>2. mem.users[n].id < mem.next
          /\ (mem.users[n].legacy # NoLegacy => Complete(mem.users[n].legacy))
        BY <1>1, <1>3, Kept
    <2>3. ASSUME NEW ch \in Owned(mem.users[n])
          PROVE  /\ ch \in CharIDs /\ ch < mem.nextChar
                 /\ mem.users[n].chars[ch] \in Chars
                 /\ mem.users[n].chars[ch].stats \in Stats
                 /\ Complete(mem.users[n].chars[ch].stats)
        <3>1. ch \in CharIDs /\ mem.users[n].chars[ch] \in Chars
            BY <1>2, <1>3, UserType
        <3>2. mem.users[n].chars[ch].stats \in Stats BY <3>1 DEF Chars
        <3>3. ch < mem.nextChar BY <1>1, <1>3 DEF Current
        <3>4. Complete(mem.users[n].chars[ch].stats) BY <1>1, <1>3, Kept
        <3>5. QED BY <3>1, <3>2, <3>3, <3>4
    <2>4. QED BY <2>1, <2>2, <2>3
<1>4. /\ mem.next \in Nat /\ mem.nextChar \in Nat
      /\ mem.next \in mem.next .. MaxID + 1
      /\ mem.nextChar \in mem.nextChar .. MaxChar + 1
    BY <1>2, CountAssumption
<1>5. QED BY <1>1, <1>2, <1>3, <1>4

LEMMA RequestIs ==
    ASSUME NEW op, NEW id, NEW ch, NEW c, NEW m
    PROVE  LET req == Request(op, id, ch, c, m)
           IN  /\ req.op = op /\ req.id = id /\ req.char = ch /\ req.conn = c
               /\ req.match = m
               /\ /\ op \in {"login", "register", "character", "result", "upgrade",
                             "ban", "unban", "delete"}
                  /\ id \in IDs /\ ch \in 0 .. MaxChar
                  /\ c \in Clients \cup {NoClient} /\ m \in Matches \cup {NoMatch}
                  => req \in Requests
BY DEF Request, Requests

(* Login of a new name and CreateUser.                                     *)
LEMMA AccountMade ==
    ASSUME AccountsInv, Ready, NEW n \in Names, mem.users[n] = NoUser,
           mem.next <= MaxID, NEW op \in {"login", "register"},
           NEW c \in Clients \cup {NoClient}, op = "login" => c \in Clients
    PROVE  Sound(n, WithAccount(mem, n), Request(op, mem.next, 0, c, NoMatch))
<1> DEFINE t == WithAccount(mem, n)
           req == Request(op, mem.next, 0, c, NoMatch)
           v == [id |-> mem.next, banned |-> FALSE, sel |-> 0, legacy |-> NoLegacy,
                 chars |-> NoChars]
<1>1. /\ mem \in Stores /\ SoundStore(mem) /\ mem.next \in Nat
      /\ mem.next \in 1 .. MaxID + 1
      /\ mem.nextChar \in mem.nextChar .. MaxChar + 1
    BY ReadyStore
<1>2. t = WithUser(mem, n, v, mem.next + 1, mem.nextChar)
    BY <1>1, OperationsAre, Zenon
<1>3. mem.next \in IDs /\ mem.next + 1 \in mem.next .. MaxID + 1 /\ mem.next < mem.next + 1
    BY <1>1, CountAssumption DEF IDs
<1>4. v \in Users /\ v # NoUser /\ v.id = mem.next /\ v.banned = FALSE
      /\ v.legacy = NoLegacy
    <2>1. NoChars \in [CharIDs -> Chars \cup {NoChar}] BY DEF NoChars
    <2>2. 0 \in 0 .. MaxChar BY CountAssumption
    <2>3. v \in Users BY <1>3, <2>1, <2>2 DEF Users
    <2>4. QED BY <2>3, UserType
<1>5. Owned(v) = {} BY DEF Owned, NoChars
<1> HIDE DEF v, t
<1>6. ~Migrates(v) BY <1>4 DEF Migrates
<1>7. /\ SoundStore(t) /\ Edited(mem, t, n, mem.next)
      /\ t.next = mem.next + 1 /\ t.nextChar = mem.nextChar
      /\ mem.next <= mem.next + 1 /\ mem.nextChar <= mem.nextChar
      /\ t.users[n] = v
      /\ \A m \in Names : m # n => t.users[m] = mem.users[m]
    <2>1. MayEdit(mem, n, v, mem.next + 1, mem.nextChar, mem.next)
        BY <1>1, <1>3, <1>4, <1>5, <1>6 DEF MayEdit
    <2>2. QED BY <1>1, <1>2, <1>3, <2>1, UserEdited
<1>8. /\ req.op = op /\ req.id = mem.next /\ req.conn = c /\ req \in Requests
    BY <1>3, RequestIs, CountAssumption
<1> HIDE DEF req
<1>9. SoundCounters(t, req) BY <1>5, <1>7, <1>8, CountsEdited
<1>10. SoundAccount(n, t, req)
    BY <1>4, <1>7, <1>8 DEF SoundAccount
<1>11. QED BY <1>7, <1>8, <1>9, <1>10 DEF Sound, t, req

LEMMA LoginNewKeeps ==
    ASSUME AccountsInv, NEW c \in Clients, NEW n \in Names, LoginNew(c, n)
    PROVE  AccountsInv'
<1>1. Sound(n, WithAccount(mem, n), Request("login", mem.next, 0, c, NoMatch))
    BY AccountMade DEF LoginNew
<1>2. QED BY <1>1, ChangeKeeps DEF LoginNew

LEMMA CreateUserKeeps ==
    ASSUME AccountsInv, NEW n \in Names, CreateUser(n)
    PROVE  AccountsInv'
<1>1. Sound(n, WithAccount(mem, n), Request("register", mem.next, 0, NoClient, NoMatch))
    BY AccountMade DEF CreateUser
<1>2. QED BY <1>1, ChangeKeeps DEF CreateUser

LEMMA DeletePlayerKeeps ==
    ASSUME AccountsInv, NEW n \in Names, DeletePlayer(n)
    PROVE  AccountsInv'
<1> DEFINE t == WithoutAccount(mem, n)
           id == mem.users[n].id
           req == Request("delete", id, 0, NoClient, NoMatch)
<1>1. Ready /\ mem.users[n] # NoUser /\ Change(t, req) BY DEF DeletePlayer
<1>2. /\ mem \in Stores /\ SoundStore(mem)
      /\ mem.next \in mem.next .. MaxID + 1
      /\ mem.nextChar \in mem.nextChar .. MaxChar + 1
      /\ mem.users[n] \in Users
    BY <1>1, ReadyStore
<1>3. t = WithUser(mem, n, NoUser, mem.next, mem.nextChar)
    BY <1>2, OperationsAre, Zenon
<1>4. id \in IDs BY <1>2, UserType
<1>5. /\ req.op = "delete" /\ req.id = id /\ req \in Requests
    BY <1>4, RequestIs, CountAssumption
<1> HIDE DEF t, id, req
<1>6. /\ SoundStore(t) /\ Edited(mem, t, n, id)
      /\ t.next = mem.next /\ t.nextChar = mem.nextChar
      /\ mem.next <= mem.next /\ mem.nextChar <= mem.nextChar
      /\ t.users[n] = NoUser
      /\ \A m \in Names : m # n => t.users[m] = mem.users[m]
    <2>1. MayEdit(mem, n, NoUser, mem.next, mem.nextChar, id)
        BY <1>1, <1>2 DEF MayEdit, id
    <2>2. QED BY <1>3, <2>1, UserEdited
<1>7. SoundCounters(t, req) BY <1>5, <1>6, CountsEdited
<1>8. SoundAccount(n, t, req) BY <1>1, <1>5, <1>6 DEF SoundAccount
<1>9. Sound(n, t, req) BY <1>1, <1>5, <1>6, <1>7, <1>8 DEF Sound
<1>10. QED BY <1>1, <1>9, ChangeKeeps

(* Changes of the account itself: the ban and the selection.               *)
LEMMA AccountEdited ==
    ASSUME AccountsInv, Ready, NEW n \in Names, mem.users[n] # NoUser,
           NEW v \in Users, v.id = mem.users[n].id, v.legacy = mem.users[n].legacy,
           v.chars = mem.users[n].chars, NEW req, req.op # "result"
    PROVE  LET t == WithUser(mem, n, v, mem.next, mem.nextChar)
           IN  /\ SoundStore(t) /\ Edited(mem, t, n, v.id)
               /\ mem.next <= t.next /\ mem.nextChar <= t.nextChar
               /\ t.users[n] = v /\ v # NoUser /\ v.id \in IDs
               /\ SoundCounters(t, req)
<1> DEFINE t == WithUser(mem, n, v, mem.next, mem.nextChar)
           u == mem.users[n]
<1>1. /\ mem \in Stores /\ SoundStore(mem)
      /\ mem.next \in mem.next .. MaxID + 1
      /\ mem.nextChar \in mem.nextChar .. MaxChar + 1
      /\ u \in Users /\ ~Migrates(u) /\ u.id < mem.next
      /\ u.legacy # NoLegacy => Complete(u.legacy)
      /\ \A ch \in Owned(u) : ch < mem.nextChar /\ Complete(u.chars[ch].stats)
    BY ReadyStore
<1>2. Owned(v) = Owned(u) BY DEF Owned
<1>3. v # NoUser /\ v.id \in IDs /\ u # NoUser BY <1>1, UserType
<1>4. ~Migrates(v) BY <1>1, <1>2, <1>3 DEF Migrates
<1> HIDE DEF t
<1>5. /\ SoundStore(t) /\ Edited(mem, t, n, v.id)
      /\ t.next = mem.next /\ t.nextChar = mem.nextChar
      /\ mem.next <= mem.next /\ mem.nextChar <= mem.nextChar
      /\ t.users[n] = v
      /\ \A m \in Names : m # n => t.users[m] = mem.users[m]
    <2>1. MayEdit(mem, n, v, mem.next, mem.nextChar, v.id)
        BY <1>1, <1>2, <1>3, <1>4 DEF MayEdit
    <2>2. QED BY <2>1, UserEdited DEF t
<1>6. SoundCounters(t, req)
    BY <1>2, <1>3, <1>5, CountsEdited
<1>7. QED BY <1>3, <1>5, <1>6 DEF t

LEMMA SetBanKeeps ==
    ASSUME AccountsInv, NEW n \in Names, NEW banned \in BOOLEAN, SetBan(n, banned)
    PROVE  AccountsInv'
<1> DEFINE u == mem.users[n]
           v == [u EXCEPT !.banned = banned]
           t == WithBan(mem, n, banned)
           op == IF banned THEN "ban" ELSE "unban"
           req == Request(op, u.id, 0, NoClient, NoMatch)
<1>1. Ready /\ u # NoUser /\ Change(t, req) BY DEF SetBan
<1>2. mem \in Stores /\ u \in Users BY <1>1, ReadyStore
<1>3. /\ v \in Users /\ v.id = u.id /\ v.legacy = u.legacy /\ v.chars = u.chars
      /\ v.sel = u.sel /\ v.banned = banned
    <2> HIDE DEF u
    <2>1. QED BY <1>2 DEF Users
<1>4. t = WithUser(mem, n, v, mem.next, mem.nextChar)
    BY <1>1, <1>2, OperationsAre, Zenon
<1>5. u.id \in IDs BY <1>2, UserType
<1>6. /\ req.op = op /\ req.id = u.id /\ req \in Requests
    BY <1>5, RequestIs, CountAssumption
<1>7. Shown(v) = Shown(u) BY <1>3 DEF Shown, Owned
<1> HIDE DEF v, t, req, u
<1>8. /\ SoundStore(t) /\ Edited(mem, t, n, v.id)
      /\ mem.next <= t.next /\ mem.nextChar <= t.nextChar
      /\ t.users[n] = v /\ v # NoUser
      /\ SoundCounters(t, req)
    BY <1>1, <1>3, <1>4, <1>6, AccountEdited DEF u
<1>9. SoundAccount(n, t, req)
    BY <1>1, <1>3, <1>6, <1>7, <1>8 DEF SoundAccount, u
<1>10. Sound(n, t, req)
    BY <1>1, <1>3, <1>6, <1>8, <1>9 DEF Sound
<1>11. QED BY <1>1, <1>10, ChangeKeeps

LEMMA ServesIs ==
    ASSUME AccountsInv, NEW c \in Clients, NEW n \in Names, Serves(c, n)
    PROVE  /\ Ready /\ mem.users[n] # NoUser /\ mem.users[n].id = acct[c]
           /\ mem.users[n] \in Users /\ acct[c] \in IDs
<1>1. Ready /\ mem.users[n] # NoUser /\ mem.users[n].id = acct[c]
    BY HolderIs DEF Serves
<1>2. QED BY <1>1, ReadyStore, UserType

LEMMA SelectCharacterKeeps ==
    ASSUME AccountsInv, NEW c \in Clients, NEW n \in Names, NEW ch \in CharIDs,
           SelectCharacter(c, n, ch)
    PROVE  AccountsInv'
<1> DEFINE u == mem.users[n]
           v == [u EXCEPT !.sel = ch]
           t == WithSelection(mem, n, ch)
           req == Request("character", acct[c], 0, c, NoMatch)
<1>1. Serves(c, n) /\ Change(t, req) BY DEF SelectCharacter
<1>2. Ready /\ u # NoUser /\ u.id = acct[c] /\ u \in Users /\ acct[c] \in IDs
      /\ mem \in Stores
    BY <1>1, ServesIs, ReadyStore
<1>3. ch \in 0 .. MaxChar BY CountAssumption DEF CharIDs
<1>4. /\ v \in Users /\ v.id = u.id /\ v.legacy = u.legacy /\ v.chars = u.chars
      /\ v.banned = u.banned
    <2> HIDE DEF u
    <2>1. QED BY <1>2, <1>3 DEF Users
<1>5. t = WithUser(mem, n, v, mem.next, mem.nextChar)
    BY <1>2, OperationsAre, Zenon
<1>6. /\ req.op = "character" /\ req.id = acct[c] /\ req.conn = c /\ req \in Requests
    BY <1>2, RequestIs, CountAssumption
<1> HIDE DEF v, t, req, u
<1>7. /\ SoundStore(t) /\ Edited(mem, t, n, v.id)
      /\ mem.next <= t.next /\ mem.nextChar <= t.nextChar
      /\ t.users[n] = v /\ v # NoUser
      /\ SoundCounters(t, req)
    BY <1>2, <1>4, <1>5, <1>6, AccountEdited DEF u
<1>8. SoundAccount(n, t, req)
    BY <1>2, <1>4, <1>6, <1>7 DEF SoundAccount, u
<1>9. Sound(n, t, req)
    BY <1>2, <1>4, <1>6, <1>7, <1>8 DEF Sound
<1>10. QED BY <1>1, <1>9, ChangeKeeps

(* Changes of one character: a new one, a name, an upgrade, a result.  It  *)
(* becomes k, a character the account has or the next one, sel is selected *)
(* and nc the next character id.                                           *)
MayRecharacter(n, ch, k, sel, nc) ==
    /\ n \in Names /\ mem.users[n] # NoUser
    /\ ch \in CharIDs /\ k \in Chars /\ Complete(k.stats) /\ sel \in 0 .. MaxChar
    /\ nc \in mem.nextChar .. MaxChar + 1 /\ ch < nc
    /\ ch \in Owned(mem.users[n]) \/ ch = mem.nextChar

LEMMA CharacterEdited ==
    ASSUME AccountsInv, Ready, NEW n, NEW ch, NEW k, NEW sel, NEW nc,
           MayRecharacter(n, ch, k, sel, nc),
           NEW u, u = mem.users[n],
           NEW v, v = Recharactered(u, ch, k, sel),
           NEW t, t = WithUser(mem, n, v, mem.next, nc)
    PROVE  /\ SoundStore(t) /\ Edited(mem, t, n, u.id)
           /\ mem.next <= t.next /\ mem.nextChar <= t.nextChar /\ t.nextChar = nc
           /\ t.users[n] = v /\ v # NoUser
           /\ v.banned = u.banned /\ v.sel = sel
           /\ Owned(v) = Owned(u) \cup {ch}
           /\ v.chars[ch] = k
           /\ \A d \in CharIDs : d # ch => v.chars[d] = u.chars[d]
           /\ \A m \in Names : m # n => t.users[m] = mem.users[m]
<1>1. /\ mem \in Stores /\ SoundStore(mem)
      /\ mem.next \in mem.next .. MaxID + 1 /\ mem.nextChar \in Nat
      /\ n \in Names /\ u # NoUser
      /\ u \in Users /\ u.id < mem.next
      /\ u.legacy # NoLegacy => Complete(u.legacy)
      /\ \A d \in Owned(u) : /\ d \in CharIDs /\ d < mem.nextChar
                             /\ Complete(u.chars[d].stats)
    BY ReadyStore DEF MayRecharacter
<1>2. /\ ch \in CharIDs /\ k \in Chars /\ Complete(k.stats) /\ sel \in 0 .. MaxChar
      /\ nc \in mem.nextChar .. MaxChar + 1 /\ nc \in Nat /\ mem.nextChar <= nc
      /\ ch < nc
      /\ ch \in Owned(u) \/ ch = mem.nextChar
    BY <1>1, CountAssumption DEF MayRecharacter
<1>3. /\ v \in Users /\ v.id = u.id /\ v.banned = u.banned /\ v.sel = sel
      /\ v.legacy = u.legacy /\ ~Migrates(v)
      /\ Owned(v) = Owned(u) \cup {ch}
      /\ v.chars[ch] = k
      /\ \A d \in CharIDs : d # ch => v.chars[d] = u.chars[d]
    BY <1>1, <1>2, CharEdited
<1>4. v # NoUser BY <1>3, UserType
<1>5. ASSUME NEW d \in Owned(v)
      PROVE  /\ Complete(v.chars[d].stats) /\ d < nc
             /\ d \in Owned(u) \/ mem.nextChar <= d
    <2>1. CASE d = ch BY <1>1, <1>2, <1>3, <2>1
    <2>2. CASE d # ch
        <3>1. d \in Owned(u) /\ v.chars[d] = u.chars[d] BY <1>1, <1>3, <2>2
        <3>2. d < mem.nextChar /\ d \in Nat BY <1>1, <3>1, IdsAreNumbers
        <3>3. d < nc BY <1>1, <1>2, <3>2
        <3>4. QED BY <1>1, <3>1, <3>3
    <2>3. QED BY <2>1, <2>2
<1>6. MayEdit(mem, n, v, mem.next, nc, u.id)
    BY <1>1, <1>2, <1>3, <1>4, <1>5 DEF MayEdit
<1>7. QED BY <1>1, <1>2, <1>3, <1>4, <1>6, UserEdited

LEMMA CreateCharacterKeeps ==
    ASSUME AccountsInv, NEW c \in Clients, NEW n \in Names, NEW name \in CharNames,
           CreateCharacter(c, n, name)
    PROVE  AccountsInv'
<1> DEFINE u == mem.users[n]
           ch == mem.nextChar
           k == [name |-> name, rename |-> FALSE, stats |-> NewStats]
           v == Recharactered(u, ch, k, ch)
           t == WithCharacter(mem, n, name)
           req == Request("character", acct[c], 0, c, NoMatch)
<1>1. Serves(c, n) /\ ch <= MaxChar /\ Change(t, req) BY DEF CreateCharacter
<1>2. /\ Ready /\ u # NoUser /\ u.id = acct[c] /\ u \in Users /\ acct[c] \in IDs
      /\ mem \in Stores /\ ch \in 1 .. MaxChar + 1 /\ ch \in Nat
    BY <1>1, ServesIs, ReadyStore
<1>3. /\ ch \in CharIDs /\ ch \in 0 .. MaxChar /\ ch + 1 \in ch .. MaxChar + 1
      /\ ch < ch + 1
    BY <1>1, <1>2, CountAssumption DEF CharIDs
<1>4. k \in Chars /\ Complete(k.stats)
      /\ Counters(k.stats) = Counters(NewStats)
    BY NothingCounts DEF Chars
<1>5. t = WithUser(mem, n, v, mem.next, ch + 1)
    BY <1>2, OperationsAre, Zenon
<1>6. /\ req.op = "character" /\ req.id = acct[c] /\ req.conn = c /\ req \in Requests
    BY <1>2, RequestIs, CountAssumption
<1> HIDE DEF k, t, req
<1>7. /\ SoundStore(t) /\ Edited(mem, t, n, u.id)
      /\ mem.next <= t.next /\ mem.nextChar <= t.nextChar
      /\ t.users[n] = v /\ v # NoUser /\ v.banned = u.banned
      /\ Owned(v) = Owned(u) \cup {ch} /\ v.chars[ch] = k
      /\ \A d \in CharIDs : d # ch => v.chars[d] = u.chars[d]
      /\ \A m \in Names : m # n => t.users[m] = mem.users[m]
    <2>1. MayRecharacter(n, ch, k, ch, ch + 1)
        BY <1>2, <1>3, <1>4 DEF MayRecharacter
    <2>2. QED BY <1>2, <1>5, <2>1, CharacterEdited
<1> HIDE DEF v, u
<1>8. SoundCounters(t, req)
    <2>1. \A d \in Owned(v) :
               \/ d \in Owned(u) /\ Counters(v.chars[d].stats) = Counters(u.chars[d].stats)
               \/ ch <= d /\ Counters(v.chars[d].stats) = Counters(NewStats)
        <3> TAKE d \in Owned(v)
        <3>1. CASE d = ch BY <1>2, <1>4, <1>7, <3>1
        <3>2. CASE d # ch
            <4>1. d \in Owned(u) /\ d \in CharIDs BY <1>2, <1>7, <3>2, UserType
            <4>2. QED BY <1>7, <3>2, <4>1
        <3>3. QED BY <3>1, <3>2
    <2>2. QED BY <1>2, <1>6, <1>7, <2>1, CountsEdited DEF u
<1>9. SoundAccount(n, t, req)
    BY <1>2, <1>6, <1>7 DEF SoundAccount, u
<1>10. Sound(n, t, req)
    BY <1>2, <1>6, <1>7, <1>8, <1>9 DEF Sound
<1>11. QED BY <1>1, <1>10, ChangeKeeps

LEMMA RenameCharacterKeeps ==
    ASSUME AccountsInv, NEW c \in Clients, NEW n \in Names, NEW ch \in CharIDs,
           NEW name \in CharNames, RenameCharacter(c, n, ch, name)
    PROVE  AccountsInv'
<1> DEFINE u == mem.users[n]
           k == [u.chars[ch] EXCEPT !.name = name, !.rename = FALSE]
           v == Recharactered(u, ch, k, u.sel)
           t == WithName(mem, n, ch, name)
           req == Request("character", acct[c], 0, c, NoMatch)
<1>1. Serves(c, n) /\ ch \in Owned(u) /\ Change(t, req)
    BY DEF RenameCharacter, CanRename
<1>2. /\ Ready /\ u # NoUser /\ u.id = acct[c] /\ u \in Users /\ acct[c] \in IDs
      /\ mem \in Stores /\ mem.nextChar \in mem.nextChar .. MaxChar + 1
      /\ u.sel \in 0 .. MaxChar
      /\ ch < mem.nextChar /\ u.chars[ch] \in Chars /\ Complete(u.chars[ch].stats)
    BY <1>1, ServesIs, ReadyStore, UserType
<1>3. t = WithUser(mem, n, v, mem.next, mem.nextChar)
    BY <1>2, OperationsAre, Zenon
<1>4. /\ req.op = "character" /\ req.id = acct[c] /\ req.conn = c /\ req \in Requests
    BY <1>2, RequestIs, CountAssumption
<1>5. k \in Chars /\ k.stats = u.chars[ch].stats
    <2>1. PICK old \in Chars : old = u.chars[ch] BY <1>2
    <2>2. [old EXCEPT !.name = name, !.rename = FALSE] \in Chars
          /\ [old EXCEPT !.name = name, !.rename = FALSE].stats = old.stats
        BY DEF Chars
    <2>3. QED BY <2>1, <2>2
<1> HIDE DEF k, t, req
<1>6. /\ SoundStore(t) /\ Edited(mem, t, n, u.id)
      /\ mem.next <= t.next /\ mem.nextChar <= t.nextChar
      /\ t.users[n] = v /\ v # NoUser /\ v.banned = u.banned
      /\ Owned(v) = Owned(u) \cup {ch} /\ v.chars[ch] = k
      /\ \A d \in CharIDs : d # ch => v.chars[d] = u.chars[d]
      /\ \A m \in Names : m # n => t.users[m] = mem.users[m]
    <2>1. MayRecharacter(n, ch, k, u.sel, mem.nextChar)
        BY <1>1, <1>2, <1>5 DEF MayRecharacter
    <2>2. QED BY <1>2, <1>3, <2>1, CharacterEdited
<1> HIDE DEF v, u
<1>7. SoundCounters(t, req)
    <2>1. \A d \in Owned(v) :
               d \in Owned(u) /\ Counters(v.chars[d].stats) = Counters(u.chars[d].stats)
        <3> TAKE d \in Owned(v)
        <3>1. d \in Owned(u) /\ d \in CharIDs BY <1>1, <1>2, <1>6, UserType
        <3>2. CASE d = ch BY <1>5, <1>6, <3>1, <3>2
        <3>3. CASE d # ch BY <1>6, <3>1, <3>3
        <3>4. QED BY <3>2, <3>3
    <2>2. QED BY <1>2, <1>4, <1>6, <2>1, CountsEdited DEF u
<1>8. SoundAccount(n, t, req)
    BY <1>2, <1>4, <1>6 DEF SoundAccount, u
<1>9. Sound(n, t, req)
    BY <1>2, <1>4, <1>6, <1>7, <1>8 DEF Sound
<1>10. QED BY <1>1, <1>9, ChangeKeeps

(* A character that keeps its name is shown as before.                     *)
LEMMA ShownKept ==
    ASSUME NEW u, NEW v, NEW ch, ch \in Owned(u), v.sel = u.sel,
           Owned(v) = Owned(u) \cup {ch}, v.chars[ch].name = u.chars[ch].name,
           \A d \in CharIDs : d # ch => v.chars[d] = u.chars[d]
    PROVE  Shown(v) = Shown(u)
<1>1. Owned(v) = Owned(u) /\ Owned(u) \subseteq CharIDs BY DEF Owned
<1>2. \A d \in Owned(u) : v.chars[d].name = u.chars[d].name BY <1>1
<1>3. [d \in Owned(v) |-> v.chars[d].name] = [d \in Owned(u) |-> u.chars[d].name]
    BY <1>1, <1>2
<1>4. QED BY <1>3, Zenon DEF Shown

LEMMA UpgradeStatKeeps ==
    ASSUME AccountsInv, NEW c \in Clients, NEW n \in Names, NEW ch \in CharIDs,
           UpgradeStat(c, n, ch)
    PROVE  AccountsInv'
<1> DEFINE u == mem.users[n]
           k == [u.chars[ch] EXCEPT !.stats.endurance = @ + 1]
           v == Recharactered(u, ch, k, u.sel)
           t == WithUpgrade(mem, n, ch)
           req == Request("upgrade", acct[c], ch, c, NoMatch)
<1>1. /\ Serves(c, n) /\ ch \in Owned(u) /\ Change(t, req)
      /\ u.chars[ch].stats.endurance < MaxUpgrade
    BY DEF UpgradeStat
<1>2. /\ Ready /\ u # NoUser /\ u.id = acct[c] /\ u \in Users /\ acct[c] \in IDs
      /\ mem \in Stores /\ mem.nextChar \in mem.nextChar .. MaxChar + 1
      /\ u.sel \in 0 .. MaxChar
      /\ ch < mem.nextChar /\ u.chars[ch] \in Chars /\ Complete(u.chars[ch].stats)
    BY <1>1, ServesIs, ReadyStore, UserType
<1>3. t = WithUser(mem, n, v, mem.next, mem.nextChar)
    BY <1>2, OperationsAre, Zenon
<1>4. /\ req.op = "upgrade" /\ req.id = acct[c] /\ req \in Requests
    <2>1. ch \in 0 .. MaxChar BY CountAssumption DEF CharIDs
    <2>2. QED BY <1>2, <2>1, RequestIs
<1>5. k \in Chars /\ k.name = u.chars[ch].name
      /\ Counters(k.stats) = Counters(u.chars[ch].stats) /\ Complete(k.stats)
    <2>1. PICK old \in Chars : old = u.chars[ch] BY <1>2
    <2>2. PICK new : new = [old EXCEPT !.stats.endurance = @ + 1] OBVIOUS
    <2>3. /\ old.stats \in Stats
          /\ new = [old EXCEPT !.stats = [old.stats EXCEPT !.endurance = @ + 1]]
        BY <2>2 DEF Chars
    <2>4. PICK st \in Stats : st = old.stats BY <2>3
    <2>5. PICK up2 : up2 = [st EXCEPT !.endurance = @ + 1] OBVIOUS
    <2>20. st.endurance \in 0 .. 5 /\ st.endurance < 5
        BY <1>1, <2>1, <2>4 DEF Stats, MaxUpgrade
    <2>21. st.endurance + 1 \in 0 .. MaxUpgrade BY <2>20 DEF MaxUpgrade
    <2>6. up2 \in Stats /\ up2.wins = st.wins /\ up2.losses = st.losses
          /\ up2.level = st.level /\ up2.xp = st.xp
        BY <2>5, <2>21 DEF Stats
    <2>7. new \in Chars /\ new.name = old.name /\ new.stats = up2
        BY <2>3, <2>4, <2>5, <2>6 DEF Chars
    <2>8. Counters(up2) = Counters(st) BY <2>6 DEF Counters
    <2>9. Complete(up2) BY <1>2, <2>1, <2>4, <2>6 DEF Complete
    <2>10. k = new BY <2>1, <2>2
    <2>11. QED BY <2>1, <2>4, <2>7, <2>8, <2>9, <2>10
<1> HIDE DEF k, t, req
<1>6. /\ SoundStore(t) /\ Edited(mem, t, n, u.id)
      /\ mem.next <= t.next /\ mem.nextChar <= t.nextChar
      /\ t.users[n] = v /\ v # NoUser /\ v.banned = u.banned /\ v.sel = u.sel
      /\ Owned(v) = Owned(u) \cup {ch} /\ v.chars[ch] = k
      /\ \A d \in CharIDs : d # ch => v.chars[d] = u.chars[d]
      /\ \A m \in Names : m # n => t.users[m] = mem.users[m]
    <2>1. MayRecharacter(n, ch, k, u.sel, mem.nextChar)
        BY <1>1, <1>2, <1>5 DEF MayRecharacter
    <2>2. QED BY <1>2, <1>3, <2>1, CharacterEdited
<1> HIDE DEF v, u
<1>7. SoundCounters(t, req)
    <2>1. \A d \in Owned(v) :
               d \in Owned(u) /\ Counters(v.chars[d].stats) = Counters(u.chars[d].stats)
        <3> TAKE d \in Owned(v)
        <3>1. d \in Owned(u) /\ d \in CharIDs BY <1>1, <1>2, <1>6, UserType
        <3>2. CASE d = ch BY <1>5, <1>6, <3>1, <3>2
        <3>3. CASE d # ch BY <1>6, <3>1, <3>3
        <3>4. QED BY <3>2, <3>3
    <2>2. QED BY <1>2, <1>4, <1>6, <2>1, CountsEdited DEF u
<1>8. Shown(v) = Shown(u) BY <1>1, <1>5, <1>6, ShownKept
<1>9. SoundAccount(n, t, req)
    BY <1>2, <1>4, <1>6, <1>8 DEF SoundAccount, u
<1>10. Sound(n, t, req)
    BY <1>2, <1>4, <1>6, <1>7, <1>9 DEF Sound
<1>11. QED BY <1>1, <1>10, ChangeKeeps

LEMMA UpdateStatsKeeps ==
    ASSUME AccountsInv, NEW n \in Names, NEW ch \in CharIDs, NEW m \in Matches,
           UpdateStats(n, ch, m)
    PROVE  AccountsInv'
<1> DEFINE u == mem.users[n]
           k == [u.chars[ch] EXCEPT !.stats = Credited(@, m)]
           v == Recharactered(u, ch, k, u.sel)
           t == WithResult(mem, n, ch, m)
           req == Request("result", u.id, ch, NoClient, m)
<1>1. Ready /\ u # NoUser /\ ch \in Owned(u) /\ Change(t, req) BY DEF UpdateStats
<1>2. /\ u \in Users /\ u.id \in IDs /\ WellKept(mem)
      /\ mem \in Stores /\ mem.nextChar \in mem.nextChar .. MaxChar + 1
      /\ u.sel \in 0 .. MaxChar
      /\ ch < mem.nextChar /\ u.chars[ch] \in Chars /\ u.chars[ch].stats \in Stats
    BY <1>1, ReadyStore, UserType DEF SoundStore
<1>3. t = WithUser(mem, n, v, mem.next, mem.nextChar)
    BY <1>1, <1>2, OperationsAre, Zenon
<1>4. /\ req.op = "result" /\ req.id = u.id /\ req.char = ch /\ req.match = m
      /\ req \in Requests
    <2>1. ch \in 0 .. MaxChar BY CountAssumption DEF CharIDs
    <2>2. QED BY <1>2, <2>1, RequestIs
<1>5. k \in Chars /\ k.name = u.chars[ch].name
      /\ k.stats = Credited(u.chars[ch].stats, m) /\ Complete(k.stats)
    <2>1. PICK old \in Chars : old = u.chars[ch] BY <1>2
    <2>2. PICK st \in Stats : st = Credited(old.stats, m) /\ Complete(st)
        BY <1>2, <2>1, CreditedCounts
    <2>3. [old EXCEPT !.stats = st] \in Chars /\ [old EXCEPT !.stats = st].name = old.name
          /\ [old EXCEPT !.stats = st].stats = st
        BY DEF Chars
    <2>4. k = [old EXCEPT !.stats = st] BY <2>1, <2>2
    <2>5. QED BY <2>1, <2>2, <2>3, <2>4
<1> HIDE DEF k, t, req
<1>6. /\ SoundStore(t) /\ Edited(mem, t, n, u.id)
      /\ mem.next <= t.next /\ mem.nextChar <= t.nextChar /\ t.nextChar = mem.nextChar
      /\ t.users[n] = v /\ v # NoUser /\ v.banned = u.banned /\ v.sel = u.sel
      /\ Owned(v) = Owned(u) \cup {ch} /\ v.chars[ch] = k
      /\ \A d \in CharIDs : d # ch => v.chars[d] = u.chars[d]
      /\ \A o \in Names : o # n => t.users[o] = mem.users[o]
    <2>1. MayRecharacter(n, ch, k, u.sel, mem.nextChar)
        BY <1>1, <1>2, <1>5 DEF MayRecharacter
    <2>2. QED BY <1>1, <1>2, <1>3, <2>1, CharacterEdited
<1> HIDE DEF v
<1>7. SoundCounters(t, req)
    <2> SUFFICES ASSUME NEW d \in CharIDs, NEW o \in Keepers(t, d)
                 PROVE  \/ /\ o \in Keepers(mem, d) /\ d # ch
                           /\ Counters(StatsOf(t, o, d)) = Counters(StatsOf(mem, o, d))
                        \/ /\ o \in Keepers(mem, d) /\ d = ch
                           /\ StatsOf(t, o, d) = Credited(StatsOf(mem, o, d), m)
        BY <1>4 DEF SoundCounters
    <2>1. o \in Names /\ t.users[o] # NoUser /\ d \in Owned(t.users[o]) BY KeeperIs
    <2>2. CASE o = n
        <3>1. o \in Keepers(mem, d) BY <1>1, <1>6, <2>1, <2>2, KeeperIs
        <3>2. QED BY <1>5, <1>6, <2>2, <3>1 DEF StatsOf
    <2>3. CASE o # n
        <3>1. t.users[o] = mem.users[o] BY <1>6, <2>1, <2>3
        <3>2. o \in Keepers(mem, d) BY <2>1, <3>1, KeeperIs
        <3>3. d # ch BY <1>1, <1>2, <2>1, <2>3, <3>1, Kept
        <3>4. QED BY <3>1, <3>2, <3>3 DEF StatsOf
    <2>4. QED BY <2>2, <2>3
<1> HIDE DEF u
<1>8. Shown(v) = Shown(u) BY <1>1, <1>5, <1>6, ShownKept
<1>9. SoundAccount(n, t, req)
    BY <1>1, <1>4, <1>6, <1>8 DEF SoundAccount, u
<1>10. Sound(n, t, req)
    BY <1>1, <1>2, <1>4, <1>6, <1>7, <1>9 DEF Sound
<1>11. QED BY <1>1, <1>10, ChangeKeeps

-----------------------------------------------------------------------------
(* What a step leaves alone keeps its part of the invariant.               *)

LEMMA PartsStay ==
    /\ StoresKept /\ UNCHANGED <<up, mem, file>> => StoresKept'
    /\ SavedWhole /\ UNCHANGED <<faulty, up, lock, mem, file>> => SavedWhole'
    /\ IdentitiesKept /\ UNCHANGED <<faulty, up, mem, file, told, owners>>
          => IdentitiesKept'
    /\ OneIdentity /\ UNCHANGED <<faulty, told, owners>> => OneIdentity'
BY DEF StoresKept, WellKept, Current, Migrates, Owned, Complete,
       SavedWhole, IdentitiesKept, KnownTo, Holders, Keepers, OneIdentity

LEMMA MirrorStays ==
    ASSUME MirrorKept, UNCHANGED <<cast, up, mem, lock, file>>, UNCHANGED mirrorVars
    PROVE  MirrorKept'
<1>1. OneUpsert' BY DEF MirrorKept, OneUpsert, mirrorVars
<1>2. \A i : Doc(mem, i)' = Doc(mem, i) /\ Doc(file, i)' = Doc(file, i)
             /\ Holders(mem, i)' = Holders(mem, i) /\ Holders(file, i)' = Holders(file, i)
             /\ Busy(i)' = Busy(i) /\ Tracked(i)' = Tracked(i)
             /\ Upserts(i)' = Upserts(i)
    BY DEF Doc, Holders, UserOf, Busy, Tracked, Upserts, mirrorVars
<1>3. FileFollows' /\ UpsertsFollow' /\ WrittenFollows' /\ DeletedFollow'
    BY <1>2 DEF MirrorKept, FileFollows, UpsertsFollow, WrittenFollows, DeletedFollow,
                mirrorVars
<1>4. QED BY <1>1, <1>3 DEF MirrorKept

LEMMA CountsStay ==
    ASSUME CountsKept, UNCHANGED <<faulty, up, mem, lock, file, results>>
    PROVE  CountsKept'
<1>1. \A ch : /\ Keepers(mem, ch)' = Keepers(mem, ch)
              /\ Keepers(file, ch)' = Keepers(file, ch)
              /\ Due(ch)' = Due(ch)
              /\ \A n : /\ StatsOf(mem, n, ch)' = StatsOf(mem, n, ch)
                        /\ StatsOf(file, n, ch)' = StatsOf(file, n, ch)
    BY DEF Keepers, Owned, Due, StatsOf
<1>2. FileCounted => FileCounted' BY <1>1 DEF FileCounted
<1>3. MemCounted => MemCounted' BY <1>1 DEF MemCounted
<1>4. QED BY <1>2, <1>3 DEF CountsKept

-----------------------------------------------------------------------------
(* What is told, shown and mirrored of an account.                         *)

LEMMA ShownType ==
    ASSUME NEW u \in Users
    PROVE  Shown(u) \in Copies
<1>1. /\ u.sel \in 0 .. MaxChar /\ Owned(u) \in SUBSET CharIDs
      /\ \A ch \in Owned(u) : u.chars[ch] \in Chars
    BY UserType
<1>2. [ch \in Owned(u) |-> u.chars[ch].name] \in [Owned(u) -> CharNames]
    BY <1>1 DEF Chars
<1>3. [ch \in Owned(u) |-> u.chars[ch].name]
          \in UNION {[S -> CharNames] : S \in SUBSET CharIDs}
    BY <1>1, <1>2
<1>4. QED BY <1>1, <1>3 DEF Shown, Copies

LEMMA DocType ==
    ASSUME NEW s \in Stores, NEW id
    PROVE  /\ Holders(s, id) # {} => UserOf(s, id) \in Users
           /\ Doc(s, id) \in Docs \cup {NoUser}
           /\ Holders(s, id) = {} => Doc(s, id) = NoUser
<1>1. ASSUME Holders(s, id) # {} PROVE UserOf(s, id) \in Users
    <2> DEFINE n == CHOOSE n \in Holders(s, id) : TRUE
    <2>1. n \in Holders(s, id) BY <1>1
    <2> HIDE DEF n
    <2>2. s.users[n] \in Users BY <2>1, HolderIs, StoreType
    <2>3. QED BY <2>2 DEF UserOf, n
<1>2. ASSUME NEW u \in Users PROVE [banned |-> u.banned, chars |-> u.chars] \in Docs
    BY UserType DEF Docs
<1>3. QED BY <1>1, <1>2 DEF Doc

(* Who is told of an account learns what holds, and nothing else than      *)
(* somebody was told before.                                               *)
OneEach(ids, chars) ==
    /\ \A f, g \in ids : f[1] = g[1] => f = g
    /\ \A f, g \in chars : f[1] = g[1] => f = g

LEMMA ToldIs ==
    ASSUME TypeOK, WellKept(mem), Current(mem), NEW id \in IDs, Told(id)
    PROVE  /\ told' \subseteq IDs \X Names /\ owners' \subseteq CharIDs \X IDs
           /\ KnownTo(mem, told, owners) =>
                /\ KnownTo(mem, told', owners')
                /\ OneEach(told, owners) => OneEach(told', owners')
<1>1. /\ mem \in Stores /\ told \subseteq IDs \X Names
      /\ owners \subseteq CharIDs \X IDs
    BY DEF TypeOK
<1>2. \A n \in Holders(mem, id) :
          /\ n \in Names /\ mem.users[n] # NoUser /\ mem.users[n].id = id
          /\ mem.users[n] \in Users
          /\ Holders(mem, id) = {n} /\ id < mem.next
          /\ Owned(mem.users[n]) \subseteq CharIDs
          /\ \A ch \in Owned(mem.users[n]) : ch < mem.nextChar
    BY <1>1, HolderIs, HeldByOne, StoreType, UserType DEF Current
<1>3. told' = told \cup {<<id, n>> : n \in Holders(mem, id)}
      /\ owners' = owners \cup
             UNION {Owned(mem.users[n]) \X {id} : n \in Holders(mem, id)}
    BY DEF Told
<1>4. CASE Holders(mem, id) = {}
    <2>1. told' = told /\ owners' = owners BY <1>3, <1>4
    <2>2. QED BY <1>1, <2>1
<1>5. ASSUME NEW n \in Holders(mem, id)
      PROVE  /\ told' \subseteq IDs \X Names /\ owners' \subseteq CharIDs \X IDs
             /\ KnownTo(mem, told, owners) =>
                  /\ KnownTo(mem, told', owners')
                  /\ OneEach(told, owners) => OneEach(told', owners')
    <2> DEFINE own == Owned(mem.users[n]) \X {id}
    <2>1. told' = told \cup {<<id, n>>} /\ owners' = owners \cup own
        BY <1>2, <1>3
    <2>2. \A f \in own : /\ f = <<f[1], id>> /\ f[2] = id /\ f[1] \in Owned(mem.users[n])
                         /\ f \in CharIDs \X IDs
        BY <1>2
    <2> HIDE DEF own
    <2>3. told' \subseteq IDs \X Names /\ owners' \subseteq CharIDs \X IDs
        BY <1>1, <1>2, <2>1, <2>2
    <2>4. ASSUME KnownTo(mem, told, owners)
          PROVE  KnownTo(mem, told', owners')
        <3>1. ASSUME NEW f \in own, NEW m \in Keepers(mem, f[1])
              PROVE  f[1] < mem.nextChar /\ mem.users[m].id = f[2]
            <4>1. f[1] \in Owned(mem.users[n]) /\ f[2] = id BY <2>2
            <4>2. m = n BY <1>2, <4>1, KeeperIs, Kept
            <4>3. QED BY <1>2, <4>1, <4>2
        <3>2. \A f \in own : f[1] < mem.nextChar BY <1>2, <2>2
        <3>3. <<id, n>>[1] = id /\ <<id, n>>[2] = n OBVIOUS
        <3>4. QED BY <1>2, <2>1, <2>4, <3>1, <3>2, <3>3 DEF KnownTo
    <2>5. ASSUME KnownTo(mem, told, owners), OneEach(told, owners)
          PROVE  OneEach(told', owners')
        <3>1. ASSUME NEW f \in told, f[1] = id PROVE f = <<id, n>>
            <4>1. n \in {f[2]} BY <2>5, <3>1 DEF KnownTo
            <4>2. f = <<f[1], f[2]>> BY <1>1
            <4>3. QED BY <3>1, <4>1, <4>2
        <3>2. ASSUME NEW f \in owners, NEW g \in own, f[1] = g[1] PROVE f = g
            <4>1. g = <<g[1], id>> /\ g[1] \in Owned(mem.users[n]) BY <2>2
            <4>2. n \in Keepers(mem, f[1]) BY <1>2, <3>2, <4>1, KeeperIs
            <4>3. mem.users[n].id = f[2] BY <2>5, <4>2 DEF KnownTo
            <4>4. f = <<f[1], f[2]>> BY <1>1
            <4>5. QED BY <1>2, <3>2, <4>1, <4>3, <4>4
        <3>3. ASSUME NEW f \in own, NEW g \in own, f[1] = g[1] PROVE f = g
            BY <2>2, <3>3
        <3>4. \A f, g \in told' : f[1] = g[1] => f = g
            <4> TAKE f, g \in told'
            <4> HAVE f[1] = g[1]
            <4>1. <<id, n>>[1] = id OBVIOUS
            <4>2. CASE f \in told /\ g \in told BY <2>5, <4>2 DEF OneEach
            <4>3. CASE f = <<id, n>> \/ g = <<id, n>> BY <2>1, <3>1, <4>1, <4>3
            <4>4. QED BY <2>1, <4>2, <4>3
        <3>5. \A f, g \in owners' : f[1] = g[1] => f = g
            <4> TAKE f, g \in owners'
            <4> HAVE f[1] = g[1]
            <4>1. CASE f \in owners /\ g \in owners BY <2>5, <4>1 DEF OneEach
            <4>2. CASE f \in own \/ g \in own BY <2>1, <3>2, <3>3, <4>2
            <4>3. QED BY <2>1, <4>1, <4>2
        <3>6. QED BY <3>4, <3>5 DEF OneEach
    <2>6. QED BY <2>3, <2>4, <2>5
<1>6. QED BY <1>4, <1>5

LEMMA MirroredIs ==
    ASSUME TypeOK, NEW k \in 0 .. MaxSteps, NEW id \in IDs, NEW saved, Mirrored(k, id, saved)
    PROVE  /\ writes' \subseteq [n : 0 .. MaxSteps, id : IDs, doc : Docs \cup {NoUser}]
           /\ crossed' \subseteq IDs /\ lost' \subseteq IDs /\ mirror' = mirror
           /\ crossed \subseteq crossed' /\ lost \subseteq lost'
           /\ writes \subseteq writes'
           /\ \A w \in writes' :
                 w \in writes
                 \/ (id \in cast.watched /\ w.id = id /\ w.doc = Doc(mem, id))
           /\ id \in cast.watched => \E w \in writes' : w.id = id
           /\ \A w \in writes : w.id = id => id \in crossed'
           /\ ~saved /\ id \in cast.watched => id \in lost'
           /\ saved => lost' = lost
           /\ OneUpsert => OneUpsert'
<1>1. /\ writes \subseteq [n : 0 .. MaxSteps, id : IDs, doc : Docs \cup {NoUser}]
      /\ crossed \subseteq IDs /\ lost \subseteq IDs
      /\ Doc(mem, id) \in Docs \cup {NoUser}
    BY DocType DEF TypeOK
<1> DEFINE new == [n |-> k, id |-> id, doc |-> Doc(mem, id)]
<1>2. /\ new \in [n : 0 .. MaxSteps, id : IDs, doc : Docs \cup {NoUser}]
      /\ new.id = id /\ new.doc = Doc(mem, id)
    BY <1>1
<1>3. writes' = writes \cup (IF id \in cast.watched THEN {new} ELSE {})
    <2>1. writes' = writes \cup {[n |-> k, id |-> i, doc |-> Doc(mem, i)] :
                                    i \in {id} \cap cast.watched}
        BY DEF Mirrored
    <2>2. CASE id \in cast.watched
        <3>1. {id} \cap cast.watched = {id} BY <2>2
        <3>2. QED BY <2>1, <2>2, <3>1
    <2>3. CASE id \notin cast.watched
        <3>1. {id} \cap cast.watched = {} BY <2>3
        <3>2. QED BY <2>1, <2>3, <3>1
    <2>4. QED BY <2>2, <2>3
<1> HIDE DEF new
<1>4. /\ crossed' = IF \E w \in writes : w.id = id THEN crossed \cup {id} ELSE crossed
      /\ lost' = IF saved THEN lost ELSE lost \cup ({id} \cap cast.watched)
      /\ mirror' = mirror
    BY DEF Mirrored
<1>5. ASSUME OneUpsert PROVE OneUpsert'
    BY <1>2, <1>3, <1>4, <1>5 DEF OneUpsert
<1>6. QED BY <1>1, <1>2, <1>3, <1>4, <1>5

-----------------------------------------------------------------------------
(* Connections.                                                            *)

LEMMA LoginKeeps ==
    ASSUME AccountsInv, NEW c \in Clients, NEW n \in Names, Login(c, n)
    PROVE  AccountsInv'
<1> DEFINE u == mem.users[n]
<1>1. /\ TypeOK /\ StoresKept /\ DownIsEmpty /\ LockServes /\ AcctsGiven
      /\ SavedWhole /\ IdentitiesKept /\ OneIdentity /\ BannedAreKicked
      /\ CopiesRenewed /\ MirrorKept /\ CountsKept
    BY DEF AccountsInv
<1>2. /\ up /\ lock = Free /\ u # NoUser /\ ~u.banned
      /\ pc' = [pc EXCEPT ![c] = "authed"]
      /\ acct' = [acct EXCEPT ![c] = u.id]
      /\ copy' = copy /\ got' = Replied(c, u.id)
      /\ Told(u.id)
      /\ cast' = cast /\ up' = up /\ mem' = mem /\ lock' = lock /\ file' = file
      /\ kicks' = kicks /\ UNCHANGED mirrorVars
      /\ mirror' = mirror /\ writes' = writes /\ syncing' = syncing
      /\ crossed' = crossed /\ lost' = lost /\ steps' = steps
      /\ faulty' = faulty /\ results' = results
      /\ excused' = excused /\ touched' = touched
    BY DEF Login, Ready, storeVars, mirrorVars
<1>3. /\ mem \in Stores /\ WellKept(mem) /\ Current(mem)
      /\ u \in Users /\ u.id \in IDs /\ u.id < mem.next
      /\ Holders(mem, u.id) = {n} /\ UserOf(mem, u.id) = u
    <2>1. mem \in Stores /\ WellKept(mem) /\ Current(mem)
        BY <1>1, <1>2 DEF TypeOK, StoresKept
    <2>2. QED BY <1>2, <2>1, HeldByOne, StoreType, UserType
<1>4. /\ \A d \in Clients \ {c} : /\ acct'[d] = acct[d] /\ pc'[d] = pc[d]
                                  /\ ToBeShown(d)' = ToBeShown(d)
      /\ acct'[c] = u.id /\ ToBeShown(c)' = Shown(u) /\ pc'[c] = "authed"
      /\ got' \in [Clients -> Copies \cup {NoUser}]
    <2>1. got' = [got EXCEPT ![c] = Shown(u)] BY <1>2, <1>3 DEF Replied
    <2>2. got \in [Clients -> Copies \cup {NoUser}] BY <1>1 DEF TypeOK
    <2>3. acct \in [Clients -> 0 .. MaxID]
          /\ pc \in [Clients -> {"new", "authed", "joined", "closed"}]
        BY <1>1 DEF TypeOK
    <2>4. Shown(u) \in Copies /\ Shown(u) # NoUser
        BY <1>3, ShownType, CopyAssumption
    <2> HIDE DEF u
    <2>5. got'[c] = Shown(u) /\ \A d \in Clients \ {c} : got'[d] = got[d]
        BY <2>1, <2>2
    <2>6. got' \in [Clients -> Copies \cup {NoUser}] BY <2>1, <2>2, <2>4
    <2>7. \A d \in Clients \ {c} : acct'[d] = acct[d] /\ pc'[d] = pc[d]
        BY <1>2, <2>3
    <2>8. acct'[c] = u.id /\ pc'[c] = "authed" BY <1>2, <2>3
    <2>9. ToBeShown(c)' = Shown(u) BY <2>4, <2>5 DEF ToBeShown
    <2>10. \A d \in Clients \ {c} : ToBeShown(d)' = ToBeShown(d)
        BY <1>2, <2>5 DEF ToBeShown
    <2>11. QED BY <2>6, <2>7, <2>8, <2>9, <2>10
<1> HIDE DEF u
<1>5. /\ told' \subseteq IDs \X Names /\ owners' \subseteq CharIDs \X IDs
      /\ KnownTo(mem, told, owners) =>
            /\ KnownTo(mem, told', owners')
            /\ OneEach(told, owners) => OneEach(told', owners')
    BY <1>1, <1>2, <1>3, ToldIs
<1>6. TypeOK'
    <2>1. copy' \in [Clients -> Copies \cup {NoUser}] BY <1>1, <1>2 DEF TypeOK
    <2>2. acct' \in [Clients -> 0 .. MaxID]
        <3>1. u.id \in 0 .. MaxID BY <1>3, CountAssumption DEF IDs
        <3>2. QED BY <1>1, <1>2, <3>1 DEF TypeOK
    <2>3. pc' \in [Clients -> {"new", "authed", "joined", "closed"}]
        BY <1>1, <1>2 DEF TypeOK
    <2>4. QED BY <1>1, <1>2, <1>4, <1>5, <2>1, <2>2, <2>3 DEF TypeOK
<1>7. StoresKept' /\ SavedWhole' BY <1>1, <1>2, PartsStay
<1>8. DownIsEmpty' /\ LockServes' BY <1>2 DEF DownIsEmpty, LockServes
<1>9. AcctsGiven'
    BY <1>1, <1>2, <1>3, <1>4 DEF AcctsGiven, Live
<1>10. IdentitiesKept' /\ OneIdentity'
    <2>1. CASE faulty BY <1>2, <2>1 DEF IdentitiesKept, OneIdentity
    <2>2. CASE ~faulty
        <3>1. mem = file /\ KnownTo(mem, told, owners) /\ OneEach(told, owners)
            BY <1>1, <1>2, <2>2 DEF SavedWhole, IdentitiesKept, OneIdentity, OneEach
        <3>2. KnownTo(mem, told', owners') /\ OneEach(told', owners')
            BY <1>5, <3>1
        <3>3. QED BY <1>2, <3>1, <3>2 DEF IdentitiesKept, KnownTo, Holders, Keepers,
                                          OneIdentity, OneEach
    <2>3. QED BY <2>1, <2>2
<1>11. BannedAreKicked'
    <2> SUFFICES ASSUME NEW d \in Clients, NEW m \in Names, Live(d)',
                        m \in Holders(mem, acct'[d]), mem.users[m].banned,
                        acct'[d] \notin kicks
                 PROVE  d \in excused
        BY <1>2 DEF BannedAreKicked, Holders
    <2>1. CASE d = c BY <1>2, <1>3, <1>4, <2>1 DEF u
    <2>2. CASE d # c
        <3>1. Live(d) /\ acct'[d] = acct[d] BY <1>4, <2>2 DEF Live
        <3>2. QED BY <1>1, <1>2, <3>1 DEF BannedAreKicked, Busy
    <2>3. QED BY <2>1, <2>2
<1>12. CopiesRenewed'
    <2> SUFFICES ASSUME NEW d \in Clients, NEW m \in Names, Live(d)',
                        d \notin touched, m \in Holders(mem, acct'[d])
                 PROVE  ToBeShown(d)' = Shown(mem.users[m])
        BY <1>2 DEF CopiesRenewed, Holders, Shown, Owned
    <2>1. CASE d = c BY <1>3, <1>4, <2>1 DEF u
    <2>2. CASE d # c
        <3>1. Live(d) /\ acct'[d] = acct[d] /\ ToBeShown(d)' = ToBeShown(d)
            BY <1>4, <2>2 DEF Live
        <3>2. QED BY <1>1, <1>2, <3>1 DEF CopiesRenewed, Busy
    <2>3. QED BY <2>1, <2>2
<1>13. MirrorKept' /\ CountsKept' BY <1>1, <1>2, MirrorStays, CountsStay
<1>14. QED
    BY <1>6, <1>7, <1>8, <1>9, <1>10, <1>11, <1>12, <1>13 DEF AccountsInv

(* A step of connections alone: who is still logged in was, as the same.   *)
LEMMA ConnectionsKeep ==
    ASSUME AccountsInv, TypeOK', UNCHANGED <<cast, storeVars, mirrorVars>>,
           UNCHANGED <<faulty, told, owners, results>>,
           \A d \in Clients : Live(d)' =>
               /\ Live(d) /\ acct'[d] = acct[d] /\ ToBeShown(d)' = ToBeShown(d)
               /\ touched' \cap {d} = touched \cap {d}
               /\ d \in excused => d \in excused'
               /\ acct[d] \in kicks => acct[d] \in kicks' \/ d \in excused',
           up,
           lock # Free /\ lock.op = "character" => acct'[lock.conn] = acct[lock.conn]
    PROVE  AccountsInv'
<1>1. /\ StoresKept /\ LockServes /\ AcctsGiven
      /\ SavedWhole /\ IdentitiesKept /\ OneIdentity /\ BannedAreKicked
      /\ CopiesRenewed /\ MirrorKept /\ CountsKept
    BY DEF AccountsInv
<1>2. /\ cast' = cast /\ up' = up /\ mem' = mem /\ lock' = lock /\ file' = file
      /\ UNCHANGED mirrorVars /\ faulty' = faulty /\ told' = told /\ owners' = owners
      /\ results' = results
    BY DEF storeVars
<1>3. StoresKept' /\ SavedWhole' /\ IdentitiesKept' /\ OneIdentity'
    BY <1>1, <1>2, PartsStay
<1>4. DownIsEmpty' BY <1>2 DEF DownIsEmpty
<1>5. LockServes' BY <1>1, <1>2 DEF LockServes, Holders
<1>6. AcctsGiven' BY <1>1, <1>2 DEF AcctsGiven
<1>7. BannedAreKicked'
    <2> SUFFICES ASSUME NEW d \in Clients, NEW m \in Names, Live(d)',
                        m \in Holders(mem, acct'[d]), mem.users[m].banned,
                        acct'[d] \notin kicks', ~(Busy(acct'[d]) /\ lock.op = "ban")
                 PROVE  d \in excused'
        BY <1>2 DEF BannedAreKicked, Holders, Busy
    <2>1. Live(d) /\ acct'[d] = acct[d] OBVIOUS
    <2>2. CASE acct[d] \in kicks BY <2>1, <2>2
    <2>3. CASE acct[d] \notin kicks
        <3>1. d \in excused BY <1>1, <2>1, <2>3 DEF BannedAreKicked
        <3>2. QED BY <3>1
    <2>4. QED BY <2>2, <2>3
<1>8. CopiesRenewed'
    <2> SUFFICES ASSUME NEW d \in Clients, NEW m \in Names, Live(d)',
                        d \notin touched', m \in Holders(mem, acct'[d]),
                        ~(Busy(acct'[d]) /\ lock.op = "character")
                 PROVE  ToBeShown(d)' = Shown(mem.users[m])
        BY <1>2 DEF CopiesRenewed, Holders, Busy, Shown, Owned
    <2>1. /\ Live(d) /\ acct'[d] = acct[d] /\ ToBeShown(d)' = ToBeShown(d)
          /\ d \notin touched
        OBVIOUS
    <2>2. QED BY <1>1, <2>1 DEF CopiesRenewed
<1>9. MirrorKept' /\ CountsKept' BY <1>1, <1>2, MirrorStays, CountsStay
<1>10. QED
    BY <1>3, <1>4, <1>5, <1>6, <1>7, <1>8, <1>9 DEF AccountsInv

LEMMA JoinKeeps ==
    ASSUME AccountsInv, NEW c \in Clients, Join(c)
    PROVE  AccountsInv'
<1>1. TypeOK /\ DownIsEmpty BY DEF AccountsInv
<1>2. /\ pc[c] = "authed" /\ pc' = [pc EXCEPT ![c] = "joined"]
      /\ UNCHANGED <<cast, storeVars, mirrorVars>>
      /\ UNCHANGED <<faulty, told, owners, results>>
      /\ UNCHANGED <<acct, copy, got, kicks, steps, excused, touched>>
    BY DEF Join, histVars
<1>3. up BY <1>1, <1>2 DEF DownIsEmpty
<1>4. TypeOK' BY <1>1, <1>2 DEF TypeOK, storeVars, mirrorVars
<1>5. \A d \in Clients : Live(d)' => Live(d) BY <1>1, <1>2 DEF Live, TypeOK
<1>6. \A d \in Clients : ToBeShown(d)' = ToBeShown(d) BY <1>2 DEF ToBeShown
<1>7. QED BY <1>2, <1>3, <1>4, <1>5, <1>6, ConnectionsKeep

LEMMA SetUserKeeps ==
    ASSUME AccountsInv, NEW c \in Clients, SetUser(c)
    PROVE  AccountsInv'
<1>1. TypeOK /\ DownIsEmpty BY DEF AccountsInv
<1>2. /\ got[c] # NoUser
      /\ copy' = [copy EXCEPT ![c] = got[c]]
      /\ got' = [got EXCEPT ![c] = NoUser]
      /\ UNCHANGED <<cast, storeVars, mirrorVars>>
      /\ UNCHANGED <<faulty, told, owners, results>>
      /\ UNCHANGED <<pc, acct, kicks, steps, excused, touched>>
    BY DEF SetUser, histVars
<1>3. up BY <1>1, <1>2 DEF DownIsEmpty
<1>4. /\ copy \in [Clients -> Copies \cup {NoUser}]
      /\ got \in [Clients -> Copies \cup {NoUser}]
    BY <1>1 DEF TypeOK
<1>5. TypeOK'
    <2>1. /\ copy' \in [Clients -> Copies \cup {NoUser}]
          /\ got' \in [Clients -> Copies \cup {NoUser}]
        BY <1>2, <1>4
    <2>2. QED BY <1>1, <1>2, <2>1 DEF TypeOK, storeVars, mirrorVars
<1>6. \A d \in Clients : Live(d)' => Live(d) BY <1>2 DEF Live
<1>7. ASSUME NEW d \in Clients PROVE ToBeShown(d)' = ToBeShown(d)
    <2>1. CASE d = c BY <1>2, <1>4, <2>1 DEF ToBeShown
    <2>2. CASE d # c BY <1>2, <1>4, <2>2 DEF ToBeShown
    <2>3. QED BY <2>1, <2>2
<1>8. QED BY <1>2, <1>3, <1>5, <1>6, <1>7, ConnectionsKeep

LEMMA LeaveKeeps ==
    ASSUME AccountsInv, NEW c \in Clients, Leave(c)
    PROVE  AccountsInv'
<1>1. TypeOK /\ DownIsEmpty /\ LockServes BY DEF AccountsInv
<1>2. /\ pc[c] \in {"joined", "closed"} /\ (lock # Free => lock.conn # c)
      /\ pc' = [pc EXCEPT ![c] = "new"]
      /\ acct' = [acct EXCEPT ![c] = 0]
      /\ copy' = [copy EXCEPT ![c] = NoUser]
      /\ excused' = excused \ {c} /\ touched' = touched \ {c}
      /\ UNCHANGED <<cast, storeVars, mirrorVars>>
      /\ UNCHANGED <<faulty, told, owners, results>>
      /\ UNCHANGED <<got, kicks, steps>>
    BY DEF Leave
<1>3. up BY <1>1, <1>2 DEF DownIsEmpty
<1>4. TypeOK'
    <2>1. 0 \in 0 .. MaxID BY CountAssumption
    <2>2. QED BY <1>1, <1>2, <2>1 DEF TypeOK, storeVars, mirrorVars
<1>5. \A d \in Clients : d # c => /\ pc'[d] = pc[d] /\ acct'[d] = acct[d]
                                   /\ ToBeShown(d)' = ToBeShown(d)
    <2>1. copy \in [Clients -> Copies \cup {NoUser}] BY <1>1 DEF TypeOK
    <2>2. \A d \in Clients : d # c => copy'[d] = copy[d] BY <1>2, <2>1
    <2>3. QED BY <1>1, <1>2, <2>2 DEF TypeOK, ToBeShown
<1>6. ~Live(c)' BY <1>1, <1>2 DEF Live, TypeOK
<1>7. \A d \in Clients : Live(d)' => d # c /\ Live(d) BY <1>5, <1>6 DEF Live
<1>8. lock # Free /\ lock.op = "character" => acct'[lock.conn] = acct[lock.conn]
    BY <1>1, <1>2, <1>5 DEF LockServes
<1>9. QED BY <1>2, <1>3, <1>4, <1>5, <1>7, <1>8, ConnectionsKeep

LEMMA KickKeeps ==
    ASSUME AccountsInv, NEW id \in IDs, KickAccountID(id)
    PROVE  AccountsInv'
<1>1. TypeOK /\ DownIsEmpty BY DEF AccountsInv
<1>2. /\ id \in kicks /\ kicks' = kicks \ {id}
      /\ UNCHANGED <<cast, storeVars, mirrorVars>>
      /\ UNCHANGED <<faulty, told, owners, results>>
      /\ UNCHANGED <<acct, copy, got, steps, touched>>
    BY DEF KickAccountID
<1>3. up BY <1>1, <1>2 DEF DownIsEmpty
<1>4. /\ pc' \in [Clients -> {"new", "authed", "joined", "closed"}]
      /\ excused \subseteq excused' /\ excused' \subseteq Clients
      /\ \A d \in Clients : Live(d)' => Live(d) /\ (acct[d] = id => d \in excused')
    <2>1. CASE pc' = pc /\ excused' = excused \cup {d \in Clients : acct[d] = id}
        BY <1>1, <2>1 DEF TypeOK, Live
    <2>2. ASSUME NEW c \in KickTargets(id), pc' = [pc EXCEPT ![c] = "closed"],
                 excused' = excused \cup {d \in Clients : d # c /\ acct[d] = id}
          PROVE  <1>4!1 /\ <1>4!2 /\ <1>4!3
        BY <1>1, <2>2 DEF TypeOK, Live, KickTargets
    <2>3. QED BY <2>1, <2>2 DEF KickAccountID
<1>5. TypeOK' BY <1>1, <1>2, <1>4 DEF TypeOK, storeVars, mirrorVars
<1>6. \A d \in Clients : ToBeShown(d)' = ToBeShown(d) BY <1>2 DEF ToBeShown
<1>7. QED BY <1>2, <1>3, <1>4, <1>5, <1>6, ConnectionsKeep

-----------------------------------------------------------------------------
(* The mirror.                                                             *)

(* A step of the mirror alone.                                             *)
LEMMA MirrorStepKeeps ==
    ASSUME AccountsInv, TypeOK', up, MirrorKept',
           UNCHANGED <<cast, storeVars, connVars, kicks, histVars>>
    PROVE  AccountsInv'
<1>1. /\ StoresKept /\ LockServes /\ AcctsGiven
      /\ SavedWhole /\ IdentitiesKept /\ OneIdentity /\ BannedAreKicked
      /\ CopiesRenewed /\ CountsKept
    BY DEF AccountsInv
<1>2. /\ up' = up /\ mem' = mem /\ lock' = lock /\ file' = file
      /\ pc' = pc /\ acct' = acct /\ copy' = copy /\ got' = got /\ kicks' = kicks
      /\ faulty' = faulty /\ told' = told /\ owners' = owners
      /\ results' = results /\ excused' = excused /\ touched' = touched
    BY DEF storeVars, connVars, histVars
<1>3. StoresKept' /\ SavedWhole' /\ IdentitiesKept' /\ OneIdentity' /\ CountsKept'
    BY <1>1, <1>2, PartsStay, CountsStay
<1>4. DownIsEmpty' BY <1>2 DEF DownIsEmpty
<1>5. LockServes' /\ AcctsGiven' BY <1>1, <1>2 DEF LockServes, AcctsGiven, Holders, Live
<1>6. BannedAreKicked' /\ CopiesRenewed'
    BY <1>1, <1>2 DEF BannedAreKicked, CopiesRenewed, ToBeShown, Live, Holders, Busy,
                      Shown, Owned
<1>7. QED BY <1>3, <1>4, <1>5, <1>6 DEF AccountsInv

LEMMA WriteLandsKeeps ==
    ASSUME AccountsInv, NEW w \in writes, WriteLands(w)
    PROVE  AccountsInv'
<1>1. TypeOK /\ DownIsEmpty /\ MirrorKept BY DEF AccountsInv
<1>2. /\ writes' = writes \ {w} /\ syncing' = syncing /\ crossed' = crossed
      /\ \/ mirror' = [mirror EXCEPT ![w.id] = w.doc] /\ lost' = lost /\ steps' = steps
         \/ /\ steps < MaxSteps /\ steps' = steps + 1
            /\ lost' = lost \cup {w.id} /\ mirror' = mirror
      /\ UNCHANGED <<cast, storeVars, connVars, kicks, histVars>>
      /\ cast' = cast /\ up' = up /\ mem' = mem /\ lock' = lock /\ file' = file
    BY DEF WriteLands, storeVars
<1>3. up BY <1>1 DEF DownIsEmpty
<1>4. /\ w.id \in IDs /\ w.doc \in Docs \cup {NoUser}
      /\ mirror \in [IDs -> Docs \cup {NoUser}] /\ lost \subseteq lost'
      /\ \A id \in IDs : id # w.id => mirror'[id] = mirror[id]
      /\ w.id \notin lost' => mirror'[w.id] = w.doc
    <2>1. w.id \in IDs /\ w.doc \in Docs \cup {NoUser}
          /\ mirror \in [IDs -> Docs \cup {NoUser}]
        BY <1>1 DEF TypeOK
    <2>2. QED BY <1>2, <2>1
<1>5. TypeOK'
    <2>1. mirror' \in [IDs -> Docs \cup {NoUser}] /\ lost' \subseteq IDs
        BY <1>1, <1>2, <1>4 DEF TypeOK
    <2>2. steps' \in 0 .. MaxSteps BY <1>1, <1>2, StepAssumption DEF TypeOK
    <2>3. QED BY <1>1, <1>2, <2>1, <2>2 DEF TypeOK, storeVars, connVars, histVars
<1>6. \A i : /\ Doc(mem, i)' = Doc(mem, i) /\ Doc(file, i)' = Doc(file, i)
             /\ Holders(mem, i)' = Holders(mem, i) /\ Busy(i)' = Busy(i)
             /\ Tracked(i)' => Tracked(i) /\ i \notin lost'
    BY <1>2, <1>4 DEF Doc, Holders, UserOf, Busy, Tracked
<1>7. MirrorKept'
    <2>1. OneUpsert' BY <1>1, <1>2 DEF MirrorKept, OneUpsert
    <2>2. FileFollows' BY <1>1, <1>2, <1>4, <1>6 DEF MirrorKept, FileFollows
    <2>3. UpsertsFollow' BY <1>1, <1>2, <1>6 DEF MirrorKept, UpsertsFollow
    <2>4. WrittenFollows'
        <3> SUFFICES ASSUME NEW id \in IDs, Tracked(id), id \notin lost', ~Busy(id),
                            \A v \in writes \ {w} : v.id # id,
                            id \notin syncing \/ Holders(mem, id) = {}
                     PROVE  mirror'[id] = Doc(mem, id)
            BY <1>2, <1>6 DEF WrittenFollows, Upserts
        <3>1. CASE id = w.id
            <4>1. mirror'[id] = w.doc BY <1>4, <3>1
            <4>2. w.doc = Doc(mem, id) BY <1>1, <3>1 DEF MirrorKept, UpsertsFollow
            <4>3. QED BY <4>1, <4>2
        <3>2. CASE id # w.id
            <4>1. Upserts(id) = {} BY <3>2 DEF Upserts
            <4>2. mirror[id] = Doc(mem, id)
                BY <1>1, <1>3, <4>1 DEF MirrorKept, WrittenFollows
            <4>3. QED BY <1>4, <3>2, <4>2
        <3>3. QED BY <3>1, <3>2
    <2>5. DeletedFollow' BY <1>2, <1>3 DEF DeletedFollow
    <2>6. QED BY <2>1, <2>2, <2>3, <2>4, <2>5 DEF MirrorKept
<1>8. QED BY <1>2, <1>3, <1>5, <1>7, MirrorStepKeeps

LEMMA SyncNextKeeps ==
    ASSUME AccountsInv, NEW id \in IDs, SyncNext(id)
    PROVE  AccountsInv'
<1>1. TypeOK /\ MirrorKept BY DEF AccountsInv
<1>2. /\ up /\ id \in syncing /\ syncing' = syncing \ {id}
      /\ \/ Holders(mem, id) = {} /\ UNCHANGED <<mirror, writes, crossed, lost>>
         \/ Holders(mem, id) # {} /\ Mirrored(0, id, TRUE)
      /\ UNCHANGED <<cast, storeVars, connVars, kicks, steps, histVars>>
      /\ cast' = cast /\ up' = up /\ mem' = mem /\ lock' = lock /\ file' = file
    BY DEF SyncNext, storeVars
<1>3. /\ writes' \subseteq [n : 0 .. MaxSteps, id : IDs, doc : Docs \cup {NoUser}]
      /\ crossed' \subseteq IDs /\ lost' = lost /\ mirror' = mirror
      /\ crossed \subseteq crossed' /\ writes \subseteq writes'
      /\ \A w \in writes' : w \in writes \/ (w.id = id /\ w.doc = Doc(mem, id))
      /\ id \in cast.watched /\ Holders(mem, id) # {} => \E w \in writes' : w.id = id
      /\ OneUpsert => OneUpsert'
    <2>1. CASE Holders(mem, id) = {} /\ UNCHANGED <<mirror, writes, crossed, lost>>
        BY <1>1, <2>1 DEF TypeOK, OneUpsert
    <2>2. CASE Mirrored(0, id, TRUE)
        <3>1. 0 \in 0 .. MaxSteps BY StepAssumption
        <3>2. QED BY <1>1, <2>2, <3>1, MirroredIs
    <2>3. QED BY <1>2, <2>1, <2>2
<1>4. TypeOK'
    <2>1. lost' \subseteq IDs /\ mirror' \in [IDs -> Docs \cup {NoUser}]
        BY <1>1, <1>3 DEF TypeOK
    <2>2. QED BY <1>1, <1>2, <1>3, <2>1 DEF TypeOK, storeVars, connVars, histVars
<1>5. \A i : /\ Doc(mem, i)' = Doc(mem, i) /\ Doc(file, i)' = Doc(file, i)
             /\ Holders(mem, i)' = Holders(mem, i) /\ Busy(i)' = Busy(i)
             /\ Tracked(i)' => Tracked(i)
    BY <1>2, <1>3 DEF Doc, Holders, UserOf, Busy, Tracked
<1>6. MirrorKept'
    <2>1. OneUpsert' BY <1>1, <1>3 DEF MirrorKept
    <2>2. FileFollows' BY <1>1, <1>2, <1>3, <1>5 DEF MirrorKept, FileFollows
    <2>3. UpsertsFollow' BY <1>1, <1>2, <1>3, <1>5 DEF MirrorKept, UpsertsFollow
    <2>4. WrittenFollows'
        <3> SUFFICES ASSUME NEW i \in IDs, Tracked(i), ~Busy(i),
                            \A v \in writes' : v.id # i,
                            i \notin syncing' \/ Holders(mem, i) = {}
                     PROVE  mirror[i] = Doc(mem, i)
            BY <1>3, <1>5 DEF WrittenFollows, Upserts
        <3>1. Upserts(i) = {} BY <1>3 DEF Upserts
        <3>2. i = id => Holders(mem, i) = {} BY <1>3 DEF Tracked
        <3>3. i \notin syncing \/ Holders(mem, i) = {} BY <1>2, <3>2
        <3>4. QED BY <1>1, <1>2, <3>1, <3>3 DEF MirrorKept, WrittenFollows
    <2>5. DeletedFollow' BY <1>2 DEF DeletedFollow
    <2>6. QED BY <2>1, <2>2, <2>3, <2>4, <2>5 DEF MirrorKept
<1>7. QED BY <1>2, <1>4, <1>6, MirrorStepKeeps

-----------------------------------------------------------------------------
(* The lobby process.                                                      *)

LEMMA CrashKeeps ==
    ASSUME AccountsInv, Crash
    PROVE  AccountsInv'
<1>1. /\ TypeOK /\ StoresKept /\ IdentitiesKept /\ OneIdentity /\ MirrorKept /\ CountsKept
    BY DEF AccountsInv
<1>2. /\ up /\ steps < MaxSteps /\ steps' = steps + 1
      /\ up' = FALSE /\ mem' = EmptyStore /\ lock' = Free
      /\ pc' = [c \in Clients |-> "new"]
      /\ acct' = [c \in Clients |-> 0]
      /\ copy' = [c \in Clients |-> NoUser]
      /\ got' = [c \in Clients |-> NoUser]
      /\ kicks' = {} /\ writes' = {} /\ syncing' = {} /\ crossed' = crossed
      /\ lost' = lost \cup syncing \cup {w.id : w \in writes}
                     \cup (IF lock = Free THEN {} ELSE {lock.id} \cap cast.watched)
      /\ excused' = {} /\ touched' = {}
      /\ cast' = cast /\ file' = file /\ mirror' = mirror /\ faulty' = faulty
      /\ told' = told /\ owners' = owners /\ results' = results
    BY DEF Crash
<1>3. TypeOK'
    <2>1. steps' \in 0 .. MaxSteps BY <1>1, <1>2, StepAssumption DEF TypeOK
    <2>2. lost' \subseteq IDs
        <3>1. lock # Free => lock.id \in IDs BY <1>1, RequestType DEF TypeOK
        <3>2. \A w \in writes : w.id \in IDs BY <1>1 DEF TypeOK
        <3>3. QED BY <1>1, <1>2, <3>1, <3>2 DEF TypeOK
    <2>3. 0 \in 0 .. MaxID BY CountAssumption
    <2>4. QED BY <1>1, <1>2, <2>1, <2>2, <2>3, EmptyStoreIs DEF TypeOK
<1>4. StoresKept'
    BY <1>1, <1>2, EmptyStoreIs DEF StoresKept
<1>5. DownIsEmpty' BY <1>2 DEF DownIsEmpty
<1>6. LockServes' /\ AcctsGiven' /\ SavedWhole' /\ BannedAreKicked' /\ CopiesRenewed'
    BY <1>2 DEF LockServes, AcctsGiven, SavedWhole, BannedAreKicked, CopiesRenewed
<1>7. IdentitiesKept' /\ OneIdentity'
    BY <1>1, <1>2 DEF IdentitiesKept, OneIdentity, KnownTo, Holders, Keepers
<1>8. MirrorKept'
    <2>1. OneUpsert' /\ FileFollows' /\ UpsertsFollow' /\ WrittenFollows'
        BY <1>2 DEF OneUpsert, FileFollows, UpsertsFollow, WrittenFollows
    <2>2. DeletedFollow'
        <3> SUFFICES ASSUME NEW id \in IDs, id \in cast.watched,
                            id \notin crossed \cup lost', Holders(file, id) = {}
                     PROVE  mirror[id] = NoUser
            BY <1>2 DEF DeletedFollow, Tracked, Holders
        <3>1. Tracked(id) /\ ~Busy(id) /\ id \notin syncing /\ id \notin lost
            BY <1>2 DEF Tracked, Busy
        <3>2. Upserts(id) = {} BY <1>2 DEF Upserts
        <3>3. mirror[id] = Doc(mem, id)
            BY <1>1, <1>2, <3>1, <3>2 DEF MirrorKept, WrittenFollows
        <3>4. Doc(file, id) = Doc(mem, id)
            BY <1>1, <1>2, <3>1 DEF MirrorKept, FileFollows
        <3>5. Doc(file, id) = NoUser BY DEF Doc
        <3>6. QED BY <3>3, <3>4, <3>5
    <2>3. QED BY <2>1, <2>2 DEF MirrorKept
<1>9. CountsKept'
    <2>1. FileCounted => FileCounted'
        BY <1>2 DEF FileCounted, Keepers, Owned, StatsOf
    <2>2. QED BY <1>1, <1>2, <2>1 DEF CountsKept
<1>10. QED
    BY <1>3, <1>4, <1>5, <1>6, <1>7, <1>8, <1>9 DEF AccountsInv

(* Start with one of the stores loading may give.                          *)
StartedWith(store) ==
    /\ ~up /\ up' = TRUE /\ mem' = store /\ file' = store
    /\ syncing' = Registered(file) \cap cast.watched
    /\ crossed' = crossed \ Registered(file)
    /\ lost' = lost \ Registered(file)
    /\ results' = [ch \in CharIDs |->
          IF FormerlyOf(ch, store) = {} THEN results[ch]
          ELSE Progress(file.users[CHOOSE n \in FormerlyOf(ch, store) : TRUE].legacy)]
    /\ UNCHANGED <<cast, lock, connVars, kicks, mirror, writes, steps, faulty, told,
                   owners, excused, touched>>

LEMMA StartKeeps ==
    ASSUME AccountsInv, Start
    PROVE  AccountsInv'
<1> PICK L \in Loaded(file) : StartedWith(L) BY DEF Start, StartedWith
<1> DEFINE Former(ch) == FormerlyOf(ch, L)
<1>1. /\ TypeOK /\ StoresKept /\ DownIsEmpty /\ IdentitiesKept /\ OneIdentity
      /\ MirrorKept /\ CountsKept
    BY DEF AccountsInv
<1>2. /\ ~up /\ up' = TRUE /\ mem' = L /\ file' = L
      /\ syncing' = Registered(file) \cap cast.watched
      /\ crossed' = crossed \ Registered(file)
      /\ lost' = lost \ Registered(file)
      /\ results' = [ch \in CharIDs |->
            IF Former(ch) = {} THEN results[ch]
            ELSE Progress(file.users[CHOOSE n \in Former(ch) : TRUE].legacy)]
      /\ cast' = cast /\ lock' = lock /\ pc' = pc /\ acct' = acct /\ copy' = copy
      /\ got' = got /\ kicks' = kicks /\ mirror' = mirror /\ writes' = writes /\ steps' = steps
      /\ faulty' = faulty /\ told' = told /\ owners' = owners
      /\ excused' = excused /\ touched' = touched
    BY DEF StartedWith, connVars
<1>3. file \in Stores /\ WellKept(file)
    BY <1>1 DEF TypeOK, StoresKept
<1>4. /\ L \in Stores /\ WellKept(L) /\ Current(L)
      /\ L.next = file.next /\ file.nextChar <= L.nextChar
      /\ \A id : Holders(L, id) = Holders(file, id)
      /\ \A ch \in CharIDs : \A n \in Keepers(L, ch) :
            \/ /\ n \in Keepers(file, ch) /\ ~Migrates(file.users[n])
               /\ StatsOf(L, n, ch) = StatsOf(file, n, ch)
            \/ /\ Migrates(file.users[n]) /\ file.nextChar <= ch
               /\ Keepers(file, ch) = {} /\ Keepers(L, ch) = {n}
               /\ StatsOf(L, n, ch) = file.users[n].legacy
      /\ \A n \in Names : L.users[n] # NoUser => L.users[n].id = file.users[n].id
      /\ \A ch \in CharIDs : Keepers(L, ch) = {} => Keepers(file, ch) = {}
    BY <1>3, StoreLoaded
<1>5. \A ch : Former(ch) = {n \in Keepers(L, ch) : Migrates(file.users[n])}
    BY KeeperIs DEF Former, FormerlyOf, Migrants
<1>6. /\ lock = Free /\ writes = {} /\ \A c \in Clients : pc[c] = "new"
      /\ file.nextChar \in Nat /\ L.nextChar \in Nat
    BY <1>1, <1>2, <1>3, <1>4, StoreType, IdsAreNumbers DEF DownIsEmpty
<1>7. \A n : Migrates(file.users[n]) /\ n \in Names =>
          file.users[n].legacy \in Stats /\ Complete(file.users[n].legacy)
    BY <1>3, StoreType, UserType, Kept DEF Migrates
<1>8. ASSUME NEW ch \in CharIDs
      PROVE  /\ results'[ch] \in Reports
             /\ Former(ch) = {} => results'[ch] = results[ch]
             /\ \A n \in Former(ch) :
                   results'[ch] = Progress(file.users[n].legacy)
    <2>1. results \in [CharIDs -> Reports] BY <1>1 DEF TypeOK, Reports
    <2>2. CASE Former(ch) = {}
        <3>1. results'[ch] = results[ch] BY <1>2, <2>2
        <3>2. QED BY <2>1, <2>2, <3>1
    <2>3. ASSUME NEW n \in Former(ch)
          PROVE  results'[ch] = Progress(file.users[n].legacy)
                 /\ results'[ch] \in Reports
        <3>1. n \in Keepers(L, ch) /\ Migrates(file.users[n]) /\ n \in Names
            BY <1>5, KeeperIs
        <3>2. Keepers(L, ch) = {n}
            BY <1>4, <3>1
        <3>3. Former(ch) = {n} BY <1>5, <3>1, <3>2
        <3>4. (CHOOSE m \in {n} : TRUE) = n OBVIOUS
        <3>5. results'[ch] = Progress(file.users[n].legacy)
            BY <1>2, <3>3, <3>4
        <3>6. QED BY <1>7, <3>1, <3>5, ProgressCounts
    <2>4. QED BY <2>2, <2>3
<1>9. TypeOK'
    <2>1. Registered(file) \subseteq IDs
        BY <1>3, StoreType, UserType DEF Registered
    <2>2. results' \in [CharIDs -> [wins : Nat, losses : Nat, xp : Nat]]
        <3>1. results' = [ch \in CharIDs |-> results'[ch]] BY <1>2
        <3>2. QED BY <1>8, <3>1 DEF Reports
    <2>3. QED BY <1>1, <1>2, <1>4, <2>1, <2>2 DEF TypeOK
<1>10. StoresKept' BY <1>2, <1>4 DEF StoresKept
<1>11. DownIsEmpty' BY <1>2 DEF DownIsEmpty
<1>12. LockServes' /\ AcctsGiven' /\ SavedWhole' /\ BannedAreKicked' /\ CopiesRenewed'
    BY <1>2, <1>6
    DEF LockServes, AcctsGiven, SavedWhole, BannedAreKicked, CopiesRenewed, Live
<1>13. IdentitiesKept' /\ OneIdentity'
    <2>1. ASSUME KnownTo(file, told, owners) PROVE KnownTo(L, told, owners)
        <3>1. \A f \in told : f[1] < L.next /\ Holders(L, f[1]) \subseteq {f[2]}
            BY <1>4, <2>1 DEF KnownTo
        <3>2. ASSUME NEW f \in owners
              PROVE  f[1] < L.nextChar /\ \A n \in Keepers(L, f[1]) : L.users[n].id = f[2]
            <4>1. f[1] \in CharIDs /\ f[1] \in Nat
                BY <1>1, IdsAreNumbers DEF TypeOK
            <4>2. f[1] < file.nextChar
                  /\ \A n \in Keepers(file, f[1]) : file.users[n].id = f[2]
                BY <2>1 DEF KnownTo
            <4>3. f[1] < L.nextChar BY <1>4, <1>6, <4>1, <4>2
            <4>4. ASSUME NEW n \in Keepers(L, f[1]) PROVE L.users[n].id = f[2]
                <5>1. n \in Keepers(file, f[1]) BY <1>4, <1>6, <4>1, <4>2
                <5>2. n \in Names /\ L.users[n] # NoUser BY KeeperIs
                <5>3. QED BY <1>4, <4>2, <5>1, <5>2
            <4>5. QED BY <4>3, <4>4
        <3>3. QED BY <3>1, <3>2 DEF KnownTo
    <2>2. IdentitiesKept'
        BY <1>1, <1>2, <2>1 DEF IdentitiesKept, KnownTo, Holders, Keepers
    <2>3. OneIdentity' BY <1>1, <1>2 DEF OneIdentity
    <2>4. QED BY <2>2, <2>3
<1>14. MirrorKept'
    <2>1. OneUpsert' /\ UpsertsFollow' BY <1>2, <1>6 DEF OneUpsert, UpsertsFollow
    <2>2. FileFollows' BY <1>2 DEF FileFollows, Doc, Holders, UserOf
    <2>3. WrittenFollows'
        <3> SUFFICES ASSUME NEW id \in IDs, id \in cast.watched,
                            id \notin crossed' \cup lost',
                            id \notin syncing' \/ Holders(L, id) = {}
                     PROVE  mirror[id] = Doc(L, id)
            BY <1>2 DEF WrittenFollows, Tracked, Doc, Holders, UserOf
        <3>1. id \in Registered(file) <=> Holders(file, id) # {} BY HolderIs
        <3>2. Holders(file, id) = {} BY <1>2, <1>4, <3>1
        <3>3. Tracked(id) BY <1>2, <3>1, <3>2 DEF Tracked
        <3>4. mirror[id] = NoUser
            BY <1>1, <1>2, <3>2, <3>3 DEF MirrorKept, DeletedFollow
        <3>5. QED BY <1>4, <3>2, <3>4 DEF Doc
    <2>4. DeletedFollow' BY <1>2 DEF DeletedFollow
    <2>5. QED BY <2>1, <2>2, <2>3, <2>4 DEF MirrorKept
<1>15. CountsKept'
    <2> SUFFICES ASSUME ~faulty PROVE FileCounted' /\ MemCounted'
        BY <1>2 DEF CountsKept
    <2>1. FileCounted BY <1>1 DEF CountsKept
    <2>2. ASSUME NEW ch \in CharIDs, NEW n \in Keepers(L, ch)
          PROVE  Deserved(results'[ch]) = Counters(StatsOf(L, n, ch))
        <3>1. CASE /\ n \in Keepers(file, ch) /\ ~Migrates(file.users[n])
                   /\ StatsOf(L, n, ch) = StatsOf(file, n, ch)
            <4>1. Former(ch) = {} BY <1>4, <1>5, <3>1
            <4>2. results'[ch] = results[ch] BY <1>8, <4>1
            <4>3. Deserved(results[ch]) = Counters(StatsOf(file, n, ch))
                BY <2>1, <3>1 DEF FileCounted
            <4>4. QED BY <3>1, <4>2, <4>3
        <3>2. CASE /\ Migrates(file.users[n])
                   /\ StatsOf(L, n, ch) = file.users[n].legacy
            <4>1. n \in Names BY KeeperIs
            <4>2. results'[ch] = Progress(file.users[n].legacy) BY <1>5, <1>8, <3>2
            <4>3. QED BY <1>7, <3>2, <4>1, <4>2, ProgressCounts
        <3>3. QED BY <1>4, <3>1, <3>2
    <2>3. ASSUME NEW ch \in CharIDs, ch >= L.nextChar
          PROVE  results'[ch] = Nothing
        <3>1. ch \in Nat BY IdsAreNumbers
        <3>2. Keepers(L, ch) = {}
            <4>1. \A n : n \notin Keepers(L, ch)
                BY <1>4, <1>6, <2>3, <3>1, KeeperIs DEF Current
            <4>2. QED BY <4>1
        <3>3. Keepers(file, ch) = {} BY <1>4, <3>2
        <3>4. results'[ch] = results[ch] BY <1>5, <1>8, <3>2
        <3>5. ch >= file.nextChar BY <1>4, <1>6, <2>3, <3>1
        <3>6. QED BY <2>1, <3>3, <3>4, <3>5 DEF FileCounted
    <2>4. \A ch : Due(ch)' = results'[ch] BY <1>2, <1>6 DEF Due
    <2>5. FileCounted'
        BY <1>2, <2>2, <2>3 DEF FileCounted, Keepers, Owned, StatsOf
    <2>6. MemCounted'
        BY <1>2, <2>2, <2>3, <2>4 DEF MemCounted, Keepers, Owned, StatsOf
    <2>7. QED BY <2>5, <2>6
<1>16. QED
    BY <1>9, <1>10, <1>11, <1>12, <1>13, <1>14, <1>15 DEF AccountsInv

-----------------------------------------------------------------------------
(* The end of a change.                                                    *)

LEMMA SaveKeeps ==
    ASSUME AccountsInv, Save
    PROVE  AccountsInv'
<1> DEFINE id == lock.id
           c == lock.conn
<1>1. /\ TypeOK /\ StoresKept /\ DownIsEmpty /\ LockServes /\ AcctsGiven
      /\ SavedWhole /\ IdentitiesKept /\ OneIdentity /\ BannedAreKicked
      /\ CopiesRenewed /\ MirrorKept /\ CountsKept
    BY DEF AccountsInv
<1>2. PICK saved \in BOOLEAN :
          /\ saved => file' = mem /\ faulty' = faulty /\ steps' = steps
          /\ ~saved => /\ steps < MaxSteps /\ steps' = steps + 1 /\ faulty' = TRUE
                       /\ file' = file
          /\ Mirrored(steps, id, saved)
    BY DEF Save
<1>3. /\ lock # Free /\ lock' = Free
      /\ pc' = IF lock.op = "login" THEN [pc EXCEPT ![c] = "authed"] ELSE pc
      /\ acct' = IF lock.op = "login" THEN [acct EXCEPT ![c] = id] ELSE acct
      /\ copy' = copy
      /\ got' = IF lock.op \in {"login", "character"} THEN Replied(c, id) ELSE got
      /\ Told(id)
      /\ kicks' = IF lock.op = "ban" THEN kicks \cup {id} ELSE kicks
      /\ touched' = IF lock.op \in {"character", "delete"}
                    THEN touched \cup Sharing(c, id) ELSE touched
      /\ cast' = cast /\ up' = up /\ mem' = mem /\ syncing' = syncing
      /\ excused' = excused
    BY DEF Save
<1>4. results' = IF lock.op # "result" THEN results
                 ELSE [results EXCEPT ![lock.char] = Added(@, lock.match)]
    BY Zenon DEF Save, Added
<1>5. /\ up /\ lock \in Requests /\ id \in IDs
      /\ mem \in Stores /\ WellKept(mem) /\ Current(mem)
      /\ acct \in [Clients -> 0 .. MaxID]
      /\ pc \in [Clients -> {"new", "authed", "joined", "closed"}]
      /\ got \in [Clients -> Copies \cup {NoUser}]
      /\ results \in [CharIDs -> Reports]
    BY <1>1, <1>3, RequestType DEF TypeOK, DownIsEmpty, StoresKept, Reports
<1>6. /\ lock.op \in {"login", "character"} => c \in Clients /\ Holders(mem, id) # {}
      /\ lock.op = "login" => \A n \in Holders(mem, id) : ~mem.users[n].banned
      /\ lock.op = "character" => acct[c] = id
      /\ lock.op = "result" => lock.char \in CharIDs /\ lock.match \in Matches
    BY <1>1, <1>3 DEF LockServes
<1>7. \A n \in Holders(mem, id) :
          /\ mem.users[n] \in Users /\ UserOf(mem, id) = mem.users[n] /\ id < mem.next
    BY <1>5, HolderIs, HeldByOne, StoreType
<1> HIDE DEF id, c
<1>8. /\ told' \subseteq IDs \X Names /\ owners' \subseteq CharIDs \X IDs
      /\ KnownTo(mem, told, owners) =>
            /\ KnownTo(mem, told', owners')
            /\ OneEach(told, owners) => OneEach(told', owners')
    BY <1>1, <1>3, <1>5, ToldIs
<1>9. /\ writes' \subseteq [n : 0 .. MaxSteps, id : IDs, doc : Docs \cup {NoUser}]
      /\ crossed' \subseteq IDs /\ lost' \subseteq IDs /\ mirror' = mirror
      /\ crossed \subseteq crossed' /\ lost \subseteq lost'
      /\ writes \subseteq writes'
      /\ \A w \in writes' : w \in writes \/ (w.id = id /\ w.doc = Doc(mem, id))
      /\ id \in cast.watched => \E w \in writes' : w.id = id
      /\ \A w \in writes : w.id = id => id \in crossed'
      /\ ~saved /\ id \in cast.watched => id \in lost'
      /\ OneUpsert => OneUpsert'
    <2>1. steps \in 0 .. MaxSteps BY <1>1 DEF TypeOK
    <2>2. QED BY <1>1, <1>2, <1>5, <2>1, MirroredIs
<1>10. /\ lock.op = "login" =>
             /\ pc' = [pc EXCEPT ![c] = "authed"] /\ acct' = [acct EXCEPT ![c] = id]
             /\ acct'[c] = id
       /\ \A d \in Clients : ~(lock.op = "login" /\ d = c) =>
             pc'[d] = pc[d] /\ acct'[d] = acct[d]
       /\ \A d \in Clients : ~(lock.op \in {"login", "character"} /\ d = c) =>
             ToBeShown(d)' = ToBeShown(d)
       /\ \A d \in Clients : lock.op \in {"login", "character"} /\ d = c =>
             ToBeShown(d)' = Shown(UserOf(mem, id))
       /\ got' \in [Clients -> Copies \cup {NoUser}]
    <2>1. ASSUME lock.op \in {"login", "character"}
          PROVE  /\ got' = [got EXCEPT ![c] = Shown(UserOf(mem, id))]
                 /\ Shown(UserOf(mem, id)) \in Copies
                 /\ Shown(UserOf(mem, id)) # NoUser
        <3>1. UserOf(mem, id) \in Users BY <1>6, <1>7, <2>1
        <3>2. QED BY <1>3, <2>1, <3>1, ShownType, CopyAssumption DEF Replied
    <2>2. /\ lock.op = "login" =>
                /\ pc' = [pc EXCEPT ![c] = "authed"]
                /\ acct' = [acct EXCEPT ![c] = id] /\ acct'[c] = id
          /\ \A d \in Clients : ~(lock.op = "login" /\ d = c) =>
                pc'[d] = pc[d] /\ acct'[d] = acct[d]
        BY <1>3, <1>5, <1>6
    <2>3. ASSUME NEW d \in Clients, ~(lock.op \in {"login", "character"} /\ d = c)
          PROVE  ToBeShown(d)' = ToBeShown(d)
        <3>1. got'[d] = got[d] BY <1>3, <1>5, <2>1, <2>3
        <3>2. QED BY <1>3, <3>1 DEF ToBeShown
    <2>4. ASSUME NEW d \in Clients, lock.op \in {"login", "character"}, d = c
          PROVE  ToBeShown(d)' = Shown(UserOf(mem, id))
        <3>1. got'[d] = Shown(UserOf(mem, id)) /\ got'[d] # NoUser
            BY <1>5, <2>1, <2>4
        <3>2. QED BY <3>1 DEF ToBeShown
    <2>5. got' \in [Clients -> Copies \cup {NoUser}]
        <3>1. CASE lock.op \in {"login", "character"} BY <1>5, <2>1, <3>1
        <3>2. CASE lock.op \notin {"login", "character"} BY <1>3, <1>5, <3>2
        <3>3. QED BY <3>1, <3>2
    <2>6. QED BY <2>2, <2>3, <2>4, <2>5
<1>11. TypeOK'
    <2>1. steps' \in 0 .. MaxSteps BY <1>1, <1>2, StepAssumption DEF TypeOK
    <2>2. file' \in Stores /\ faulty' \in BOOLEAN BY <1>1, <1>2, <1>5 DEF TypeOK
    <2>3. pc' \in [Clients -> {"new", "authed", "joined", "closed"}]
        BY <1>3, <1>5
    <2>4. acct' \in [Clients -> 0 .. MaxID]
        <3>1. id \in 0 .. MaxID BY <1>5, CountAssumption DEF IDs
        <3>2. QED BY <1>3, <1>5, <3>1
    <2>5. copy' \in [Clients -> Copies \cup {NoUser}] BY <1>1, <1>3 DEF TypeOK
    <2>6. results' \in [CharIDs -> Reports]
        <3>1. CASE lock.op = "result"
            <4>1. results[lock.char] \in Reports BY <1>5, <1>6, <3>1
            <4>2. Added(results[lock.char], lock.match) \in Reports
                BY <1>6, <3>1, <4>1, MatchAssumption DEF Added, Reports
            <4>3. QED BY <1>4, <1>5, <3>1, <4>2
        <3>2. CASE lock.op # "result" BY <1>4, <1>5, <3>2
        <3>3. QED BY <3>1, <3>2
    <2>7. kicks' \subseteq IDs /\ touched' \subseteq Clients
        BY <1>1, <1>3, <1>5 DEF TypeOK, Sharing
    <2>8. mirror' \in [IDs -> Docs \cup {NoUser}] BY <1>1, <1>9 DEF TypeOK
    <2>9. QED
        BY <1>1, <1>3, <1>8, <1>9, <1>10, <2>1, <2>2, <2>3, <2>4, <2>5, <2>6, <2>7,
           <2>8
        DEF TypeOK, Reports
<1>12. StoresKept'
    <2>1. CASE saved BY <1>2, <1>3, <1>5, <2>1 DEF StoresKept
    <2>2. CASE ~saved
        <3>1. StoresKept /\ UNCHANGED <<up, mem, file>> BY <1>1, <1>2, <1>3, <2>2
        <3>2. QED BY <3>1, PartsStay
    <2>3. QED BY <2>1, <2>2
<1>13. DownIsEmpty' /\ LockServes' /\ SavedWhole'
    BY <1>2, <1>3, <1>5 DEF DownIsEmpty, LockServes, SavedWhole
<1>14. AcctsGiven'
    <2> SUFFICES ASSUME NEW d \in Clients, Live(d)' PROVE acct'[d] < mem.next
        BY <1>3 DEF AcctsGiven
    <2>1. CASE lock.op = "login" /\ d = c BY <1>6, <1>7, <1>10, <2>1
    <2>2. CASE ~(lock.op = "login" /\ d = c)
        BY <1>1, <1>5, <1>10, <2>2 DEF AcctsGiven, Live
    <2>3. QED BY <2>1, <2>2
<1>15. IdentitiesKept' /\ OneIdentity'
    <2> SUFFICES ASSUME ~faulty'
                 PROVE  /\ KnownTo(file', told', owners') /\ KnownTo(mem', told', owners')
                        /\ OneEach(told', owners')
        <3>1. OneEach(told, owners)' <=> OneEach(told', owners') BY DEF OneEach
        <3>2. OneIdentity' <=> (~faulty' => OneEach(told', owners'))
            BY DEF OneIdentity, OneEach
        <3>3. IdentitiesKept' <=>
                  (~faulty' => /\ KnownTo(file', told', owners')
                               /\ (up' => KnownTo(mem', told', owners')))
            BY DEF IdentitiesKept, KnownTo, Holders, Keepers
        <3>4. QED BY <3>2, <3>3
    <2>1. saved /\ ~faulty /\ file' = mem BY <1>2
    <2>2. KnownTo(mem, told, owners) /\ OneEach(told, owners)
        BY <1>1, <1>5, <2>1 DEF IdentitiesKept, OneIdentity, OneEach
    <2>3. QED BY <1>3, <1>8, <2>1, <2>2
<1>16. BannedAreKicked'
    <2> SUFFICES ASSUME NEW d \in Clients, NEW m \in Names, Live(d)',
                        m \in Holders(mem, acct'[d]), mem.users[m].banned,
                        acct'[d] \notin kicks'
                 PROVE  d \in excused
        BY <1>3 DEF BannedAreKicked, Holders
    <2>1. CASE lock.op = "login" /\ d = c BY <1>6, <1>10, <2>1
    <2>2. CASE ~(lock.op = "login" /\ d = c)
        <3>1. Live(d) /\ acct'[d] = acct[d] BY <1>10, <2>2 DEF Live
        <3>2. acct[d] \notin kicks /\ ~(Busy(acct[d]) /\ lock.op = "ban")
            BY <1>3, <3>1 DEF Busy, id
        <3>3. QED BY <1>1, <1>5, <3>1, <3>2 DEF BannedAreKicked
    <2>3. QED BY <2>1, <2>2
<1>17. CopiesRenewed'
    <2> SUFFICES ASSUME NEW d \in Clients, NEW m \in Names, Live(d)',
                        d \notin touched', m \in Holders(mem, acct'[d])
                 PROVE  ToBeShown(d)' = Shown(mem.users[m])
        BY <1>3 DEF CopiesRenewed, Holders, Shown, Owned
    <2>1. CASE lock.op \in {"login", "character"} /\ d = c
        <3>1. acct'[d] = id BY <1>6, <1>10, <2>1
        <3>2. UserOf(mem, id) = mem.users[m] BY <1>7, <3>1
        <3>3. QED BY <1>10, <2>1, <3>2
    <2>2. CASE ~(lock.op \in {"login", "character"} /\ d = c)
        <3>1. Live(d) /\ acct'[d] = acct[d] /\ ToBeShown(d)' = ToBeShown(d)
            BY <1>10, <2>2 DEF Live
        <3>2. d \notin touched BY <1>3
        <3>3. ~(Busy(acct[d]) /\ lock.op = "character")
            BY <1>3, <2>2 DEF Busy, Sharing, id
        <3>4. QED BY <1>1, <1>5, <3>1, <3>2, <3>3 DEF CopiesRenewed
    <2>3. QED BY <2>1, <2>2
<1>18. MirrorKept'
    <2>1. \A i : /\ Doc(mem, i)' = Doc(mem, i) /\ ~Busy(i)'
                 /\ Holders(mem, i)' = Holders(mem, i)
                 /\ Tracked(i)' => Tracked(i) /\ i \notin crossed' /\ i \notin lost'
        BY <1>3, <1>9 DEF Doc, Holders, UserOf, Busy, Tracked
    <2>2. OneUpsert' BY <1>1, <1>9 DEF MirrorKept
    <2>3. FileFollows'
        <3> SUFFICES ASSUME NEW i \in cast.watched, i \notin lost'
                     PROVE  Doc(file, i)' = Doc(mem, i)
            BY <1>3, <2>1 DEF FileFollows
        <3>1. CASE saved BY <1>2, <3>1 DEF Doc, Holders, UserOf
        <3>2. CASE ~saved
            <4>1. i # id /\ i \notin lost BY <1>9, <3>2
            <4>2. ~Busy(i) BY <4>1 DEF Busy, id
            <4>3. Doc(file, i) = Doc(mem, i)
                BY <1>1, <1>5, <4>1, <4>2 DEF MirrorKept, FileFollows
            <4>4. Doc(file, i)' = Doc(file, i)
                BY <1>2, <3>2 DEF Doc, Holders, UserOf
            <4>5. QED BY <4>3, <4>4
        <3>3. QED BY <3>1, <3>2
    <2>4. UpsertsFollow'
        <3> SUFFICES ASSUME NEW w \in writes', Tracked(w.id), w.id \notin crossed'
                     PROVE  w.doc = Doc(mem, w.id)
            BY <2>1 DEF UpsertsFollow
        <3>1. CASE w.id = id /\ w.doc = Doc(mem, id) BY <3>1
        <3>2. CASE w \in writes
            <4>1. w.id # id BY <1>9, <3>2
            <4>2. ~Busy(w.id) BY <4>1 DEF Busy, id
            <4>3. QED BY <1>1, <3>2, <4>2 DEF MirrorKept, UpsertsFollow
        <3>3. QED BY <1>9, <3>1, <3>2
    <2>5. WrittenFollows'
        <3> SUFFICES ASSUME NEW i \in IDs, Tracked(i), \A w \in writes' : w.id # i,
                            i \notin syncing \/ Holders(mem, i) = {}
                     PROVE  mirror[i] = Doc(mem, i)
            BY <1>3, <1>9, <2>1 DEF WrittenFollows, Upserts
        <3>1. i # id BY <1>9 DEF Tracked
        <3>2. ~Busy(i) BY <3>1 DEF Busy, id
        <3>3. Upserts(i) = {} BY <1>9 DEF Upserts
        <3>4. QED BY <1>1, <1>5, <3>2, <3>3 DEF MirrorKept, WrittenFollows
    <2>6. DeletedFollow' BY <1>3, <1>5 DEF DeletedFollow
    <2>7. QED BY <2>2, <2>3, <2>4, <2>5, <2>6 DEF MirrorKept
<1>19. CountsKept'
    <2> SUFFICES ASSUME ~faulty' PROVE FileCounted' /\ MemCounted'
        BY DEF CountsKept
    <2>1. saved /\ file' = mem /\ mem' = mem /\ MemCounted
        BY <1>1, <1>2, <1>3, <1>5 DEF CountsKept
    <2>2. ASSUME NEW ch \in CharIDs
          PROVE  results'[ch] = Due(ch) /\ Due(ch)' = Due(ch)
        <3>1. results'[ch] = Due(ch)
            <4>1. CASE lock.op = "result"
                BY <1>3, <1>4, <1>5, <1>6, <4>1 DEF Due
            <4>2. CASE lock.op # "result" BY <1>4, <4>2 DEF Due
            <4>3. QED BY <4>1, <4>2
        <3>2. Due(ch)' = results'[ch] BY <1>3 DEF Due
        <3>3. QED BY <3>1, <3>2
    <2>3. \A ch : /\ Keepers(file, ch)' = Keepers(mem, ch)
                  /\ Keepers(mem, ch)' = Keepers(mem, ch)
                  /\ \A n : /\ StatsOf(file, n, ch)' = StatsOf(mem, n, ch)
                            /\ StatsOf(mem, n, ch)' = StatsOf(mem, n, ch)
        BY <2>1 DEF Keepers, Owned, StatsOf
    <2>4. FileCounted' BY <2>1, <2>2, <2>3 DEF MemCounted, FileCounted
    <2>5. MemCounted' BY <2>1, <2>2, <2>3 DEF MemCounted
    <2>6. QED BY <2>4, <2>5
<1>20. QED
    BY <1>11, <1>12, <1>13, <1>14, <1>15, <1>16, <1>17, <1>18, <1>19 DEF AccountsInv

-----------------------------------------------------------------------------
(* The invariant.                                                          *)

LEMMA InitEstablishes ==
    ASSUME Init
    PROVE  AccountsInv
<1>1. /\ up = FALSE /\ mem = EmptyStore /\ lock = Free /\ file = cast.file
      /\ pc = [c \in Clients |-> "new"] /\ acct = [c \in Clients |-> 0]
      /\ copy = [c \in Clients |-> NoUser] /\ got = [c \in Clients |-> NoUser]
      /\ kicks = {}
      /\ mirror = [id \in IDs |-> NoUser] /\ writes = {} /\ syncing = {}
      /\ steps = 0 /\ faulty = FALSE /\ told = {} /\ owners = {}
      /\ excused = {} /\ touched = {} /\ crossed = {} /\ lost = {}
      /\ cast \in Casts
    BY DEF Init
<1>2. /\ file \in Stores /\ WellKept(file)
      /\ mem \in Stores /\ WellKept(mem)
    BY <1>1, CastAssumption, EmptyStoreIs
<1>3. ASSUME NEW ch \in CharIDs
      PROVE  /\ results[ch] \in Reports
             /\ Keepers(file, ch) = {} => results[ch] = Nothing
             /\ \A n \in Keepers(file, ch) :
                   Deserved(results[ch]) = Counters(StatsOf(file, n, ch))
    <2>1. results[ch] = IF Keepers(file, ch) = {} THEN Nothing
                        ELSE LET n == CHOOSE n \in Keepers(file, ch) : TRUE
                             IN  Progress(file.users[n].chars[ch].stats)
        BY <1>1 DEF Init
    <2>2. CASE Keepers(file, ch) = {} BY <2>1, <2>2, NothingCounts
    <2>3. ASSUME NEW n \in Keepers(file, ch)
          PROVE  /\ results[ch] \in Reports
                 /\ Deserved(results[ch]) = Counters(StatsOf(file, n, ch))
        <3>1. n \in Names /\ file.users[n] # NoUser /\ ch \in Owned(file.users[n])
            BY KeeperIs
        <3>2. \A m \in Keepers(file, ch) : m = n BY <1>2, <3>1, KeeperIs, Kept
        <3>3. (CHOOSE m \in Keepers(file, ch) : TRUE) = n BY <3>2
        <3>4. results[ch] = Progress(file.users[n].chars[ch].stats)
            BY <2>1, <3>3, Zenon
        <3>5. file.users[n].chars[ch].stats \in Stats
            <4>1. file.users[n].chars[ch] \in Chars BY <1>2, <3>1, StoreType, UserType
            <4>2. QED BY <4>1 DEF Chars
        <3>6. Complete(file.users[n].chars[ch].stats) BY <1>2, <3>1, Kept
        <3>7. QED BY <3>4, <3>5, <3>6, ProgressCounts DEF StatsOf
    <2>4. QED BY <2>2, <2>3
<1>4. TypeOK
    <2>1. results \in [CharIDs -> [wins : Nat, losses : Nat, xp : Nat]]
        <3>1. results = [ch \in CharIDs |-> results[ch]] BY DEF Init
        <3>2. QED BY <1>3, <3>1 DEF Reports
    <2>2. steps \in 0 .. MaxSteps BY <1>1, StepAssumption
    <2>3. 0 \in 0 .. MaxID BY CountAssumption
    <2>4. QED BY <1>1, <1>2, <2>1, <2>2, <2>3 DEF TypeOK
<1>5. StoresKept BY <1>1, <1>2 DEF StoresKept
<1>6. DownIsEmpty BY <1>1 DEF DownIsEmpty
<1>7. /\ LockServes /\ AcctsGiven /\ SavedWhole /\ IdentitiesKept /\ OneIdentity
      /\ BannedAreKicked /\ CopiesRenewed
    BY <1>1 DEF LockServes, AcctsGiven, SavedWhole, IdentitiesKept, KnownTo, OneIdentity,
                BannedAreKicked, CopiesRenewed
<1>8. MirrorKept
    BY <1>1 DEF MirrorKept, OneUpsert, FileFollows, UpsertsFollow, WrittenFollows,
                DeletedFollow
<1>9. CountsKept BY <1>1, <1>3 DEF CountsKept, FileCounted
<1>10. QED BY <1>4, <1>5, <1>6, <1>7, <1>8, <1>9 DEF AccountsInv

LEMMA StutteringKeeps ==
    ASSUME AccountsInv, UNCHANGED vars
    PROVE  AccountsInv'
<1>1. /\ TypeOK /\ StoresKept /\ DownIsEmpty /\ LockServes /\ AcctsGiven
      /\ SavedWhole /\ IdentitiesKept /\ OneIdentity /\ BannedAreKicked
      /\ CopiesRenewed /\ MirrorKept /\ CountsKept
    BY DEF AccountsInv
<1>2. /\ cast' = cast /\ up' = up /\ mem' = mem /\ lock' = lock /\ file' = file
      /\ UNCHANGED mirrorVars
      /\ mirror' = mirror /\ writes' = writes /\ syncing' = syncing
      /\ crossed' = crossed /\ lost' = lost /\ steps' = steps
      /\ pc' = pc /\ acct' = acct /\ copy' = copy /\ got' = got /\ kicks' = kicks
      /\ faulty' = faulty /\ told' = told /\ owners' = owners
      /\ results' = results /\ excused' = excused /\ touched' = touched
    BY DEF vars, storeVars, connVars, mirrorVars, histVars
<1>3. StoresKept' /\ SavedWhole' /\ IdentitiesKept' /\ OneIdentity' /\ MirrorKept'
      /\ CountsKept'
    BY <1>1, <1>2, PartsStay, MirrorStays, CountsStay
<1>4. TypeOK' BY <1>1, <1>2 DEF TypeOK
<1>5. DownIsEmpty' /\ LockServes' /\ AcctsGiven'
    BY <1>1, <1>2 DEF DownIsEmpty, LockServes, AcctsGiven, Holders, Live
<1>6. BannedAreKicked' /\ CopiesRenewed'
    BY <1>1, <1>2 DEF BannedAreKicked, CopiesRenewed, ToBeShown, Live, Holders, Busy,
                      Shown, Owned
<1>7. QED BY <1>3, <1>4, <1>5, <1>6 DEF AccountsInv

LEMMA NextKeeps ==
    ASSUME AccountsInv, [Next]_vars
    PROVE  AccountsInv'
<1>1. ASSUME NEW c \in Clients, NEW n \in Names, LoginNew(c, n)
      PROVE  AccountsInv'
    BY <1>1, LoginNewKeeps
<1>2. ASSUME NEW c \in Clients, NEW n \in Names, Login(c, n)
      PROVE  AccountsInv'
    BY <1>2, LoginKeeps
<1>3. ASSUME NEW c \in Clients, NEW n \in Names, NEW name \in CharNames,
             CreateCharacter(c, n, name)
      PROVE  AccountsInv'
    BY <1>3, CreateCharacterKeeps
<1>4. ASSUME NEW c \in Clients, NEW n \in Names, NEW ch \in CharIDs,
             SelectCharacter(c, n, ch)
      PROVE  AccountsInv'
    BY <1>4, SelectCharacterKeeps
<1>5. ASSUME NEW c \in Clients, NEW n \in Names, NEW ch \in CharIDs,
             UpgradeStat(c, n, ch)
      PROVE  AccountsInv'
    BY <1>5, UpgradeStatKeeps
<1>6. ASSUME NEW c \in Clients, NEW n \in Names, NEW ch \in CharIDs,
             NEW name \in CharNames, RenameCharacter(c, n, ch, name)
      PROVE  AccountsInv'
    BY <1>6, RenameCharacterKeeps
<1>7. ASSUME NEW n \in Names, CreateUser(n) PROVE AccountsInv'
    BY <1>7, CreateUserKeeps
<1>8. ASSUME NEW n \in Names, DeletePlayer(n) PROVE AccountsInv'
    BY <1>8, DeletePlayerKeeps
<1>9. ASSUME NEW n \in Names, NEW banned \in BOOLEAN, SetBan(n, banned)
      PROVE  AccountsInv'
    BY <1>9, SetBanKeeps
<1>10. ASSUME NEW n \in Names, NEW ch \in CharIDs, NEW m \in Matches,
              UpdateStats(n, ch, m)
       PROVE  AccountsInv'
    BY <1>10, UpdateStatsKeeps
<1>11. ASSUME NEW c \in Clients, SetUser(c) \/ Join(c) \/ Leave(c)
       PROVE  AccountsInv'
    BY <1>11, SetUserKeeps, JoinKeeps, LeaveKeeps
<1>12. ASSUME NEW id \in IDs, KickAccountID(id) \/ SyncNext(id) PROVE AccountsInv'
    BY <1>12, KickKeeps, SyncNextKeeps
<1>13. ASSUME NEW w \in writes, WriteLands(w) PROVE AccountsInv'
    BY <1>13, WriteLandsKeeps
<1>14. CASE Save BY <1>14, SaveKeeps
<1>15. CASE Crash BY <1>15, CrashKeeps
<1>16. CASE Start BY <1>16, StartKeeps
<1>17. CASE UNCHANGED vars BY <1>17, StutteringKeeps
<1>18. QED
    BY <1>1, <1>2, <1>3, <1>4, <1>5, <1>6, <1>7, <1>8, <1>9, <1>10, <1>11, <1>12,
       <1>13, <1>14, <1>15, <1>16, <1>17
    DEF Next

(* The parts above hold throughout.                                        *)
THEOREM AccountsKept == Spec => []AccountsInv
<1>1. Init => AccountsInv BY InitEstablishes
<1>2. AccountsInv /\ [Next]_vars => AccountsInv' BY NextKeeps
<1>3. QED BY <1>1, <1>2, PTL DEF Spec

(* Stores, connections, kicks, the mirror and what the lobby remembers of  *)
(* them keep their types: levels stay within the last one, the endurance   *)
(* within its limit, and ids within those that were given.                 *)
THEOREM TypeCorrect == Spec => []TypeOK
<1>1. AccountsInv => TypeOK BY DEF AccountsInv
<1>2. QED BY <1>1, AccountsKept, PTL

(* An account id or a character id a player was told never becomes another *)
(* player's, through deletions, crashes and restarts of the lobby          *)
(* (nextCharacterID is in the file, and NewStore never lowers it).         *)
THEOREM IdentitiesAreKept == Spec => []OneIdentity
<1>1. AccountsInv => OneIdentity BY DEF AccountsInv
<1>2. QED BY <1>1, AccountsKept, PTL

(* A character's record is what the loop of UpdateStats makes of every     *)
(* result reported for it, each counted once, for any number and size of   *)
(* results and whenever the lobby crashed.                                 *)
THEOREM EveryResultCounts == Spec => []ResultsCounted
<1>1. ASSUME AccountsInv PROVE ResultsCounted
    <2> SUFFICES ASSUME ~faulty, Ready, NEW n \in Names, mem.users[n] # NoUser,
                        NEW ch \in Owned(mem.users[n])
                 PROVE  Deserved(results[ch]) = Counters(StatsOf(mem, n, ch))
        BY DEF ResultsCounted, Counters, StatsOf
    <2>1. ch \in CharIDs /\ n \in Keepers(mem, ch) BY KeeperIs DEF Owned
    <2>2. Due(ch) = results[ch] BY DEF Ready, Due
    <2>3. QED BY <1>1, <2>1, <2>2 DEF AccountsInv, CountsKept, MemCounted, Ready
<1>2. QED BY <1>1, AccountsKept, PTL

(* Of a banned account only connections stay that KickAccountID, which     *)
(* closes one, did not pick.                                               *)
THEOREM OnlyMissedStay == Spec => []BanSurvivors
<1>1. ASSUME AccountsInv PROVE BanSurvivors
    BY <1>1 DEF AccountsInv, BanSurvivors, BannedAreKicked, Ready, Live, Busy
<1>2. QED BY <1>1, AccountsKept, PTL

(* Whenever the store is at rest, the copy the hub shows of a connection   *)
(* is its account as the store has it, or the handler that changed the     *)
(* account holds that snapshot and has setUser to do, unless another       *)
(* connection changed the account.                                         *)
THEOREM OwnChangesAreShown == Spec => []OwnChangesShown
<1>1. ASSUME AccountsInv PROVE OwnChangesShown
    BY <1>1 DEF AccountsInv, OwnChangesShown, CopiesRenewed, Ready, Live, Busy
<1>2. QED BY <1>1, AccountsKept, PTL

(* MongoDB ends with what the store holds of every account whose writes    *)
(* are done, were not on their way together and were not lost, across      *)
(* crashes and SyncAll's walk.                                             *)
THEOREM MirrorIsCurrent == Spec => []MirrorFollows
<1>1. ASSUME AccountsInv PROVE MirrorFollows
    <2> SUFFICES ASSUME up, lock = Free, NEW id \in cast.watched,
                        id \notin crossed \cup lost \cup syncing,
                        \A w \in writes : w.id # id
                 PROVE  mirror[id] = Doc(mem, id)
        BY DEF MirrorFollows
    <2>1. id \in IDs
        BY <1>1, CastAssumption DEF AccountsInv, TypeOK
    <2>2. Tracked(id) /\ ~Busy(id) /\ Upserts(id) = {} BY DEF Tracked, Busy, Upserts
    <2>3. QED BY <1>1, <2>1, <2>2 DEF AccountsInv, MirrorKept, WrittenFollows
<1>2. QED BY <1>1, AccountsKept, PTL
=============================================================================
