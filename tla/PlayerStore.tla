----------------------------- MODULE PlayerStore -----------------------------
(***************************************************************************)
(* The lobby's player store: accounts, their characters and what a match   *)
(* result does to a character.  Everything here is a function of the       *)
(* store's contents; Accounts says who calls it, when it is written to     *)
(* lobby.json and who is told.                                             *)
(*                                                                         *)
(* Source: services/lobby/store.go.                                        *)
(***************************************************************************)
EXTENDS Integers, FiniteSets, Functions

CONSTANTS
    Names,      \* login names, in lower case: the keys of ByName
    CharNames,  \* character names, compared without case
    AgencyName, \* the name a migrated character gets: its agency's
    NoUser,     \* a name nobody registered
    NoChar,     \* a character id an account does not have
    NoLegacy,   \* an account without progress from before characters
    MaxID,      \* account ids handed out
    MaxChar,    \* character ids handed out
    CharsPerUser, \* maxCharactersPerUser
    Matches     \* what a dedicated server reports of a player: won and xp

ASSUME NameAssumption == AgencyName \in CharNames
ASSUME CountAssumption ==
    MaxID \in Nat /\ MaxChar \in Nat /\ CharsPerUser \in Nat

(* The game server's CalculateExperience is a C int that is not negative: a  *)
(* character's 16 bits and xpGained together stay in the store's uint32.     *)
MaxXP == 2147483647
ASSUME MatchAssumption == Matches \subseteq [won : BOOLEAN, xp : 0 .. MaxXP]

UInt16 == 65536
TopLevel == 99
MaxUpgrade == 5

IDs == 1 .. MaxID
CharIDs == 1 .. MaxChar
Stats == [wins : 0 .. UInt16 - 1, losses : 0 .. UInt16 - 1,
          xp : 0 .. UInt16 - 1, level : 0 .. TopLevel,
          endurance : 0 .. MaxUpgrade]
Chars == [name : CharNames, rename : BOOLEAN, stats : Stats]
Users == [id : IDs, banned : BOOLEAN, sel : 0 .. MaxChar,
          legacy : Stats \cup {NoLegacy},
          chars : [CharIDs -> Chars \cup {NoChar}]]

(* The contents of the Store, in memory and in lobby.json.                 *)
Stores == [next : 1 .. MaxID + 1, nextChar : 1 .. MaxChar + 1,
           swept : BOOLEAN, users : [Names -> Users \cup {NoUser}]]

ASSUME AbsenceAssumption ==
    NoUser \notin Users /\ NoChar \notin Chars /\ NoLegacy \notin Stats

-----------------------------------------------------------------------------
(* Looking up.                                                             *)

NewStats == [wins |-> 0, losses |-> 0, xp |-> 0, level |-> 0, endurance |-> 0]
NoChars == [ch \in CharIDs |-> NoChar]

Owned(u) == {ch \in CharIDs : u.chars[ch] # NoChar}
CharNamesOf(u) == {u.chars[ch].name : ch \in Owned(u)}

(* The name under which account id is stored; a deleted account has none.  *)
Holders(s, id) == {n \in Names : s.users[n] # NoUser /\ s.users[n].id = id}
Registered(s) == {s.users[n].id : n \in {m \in Names : s.users[m] # NoUser}}
UserOf(s, id) == s.users[CHOOSE n \in Holders(s, id) : TRUE]

-----------------------------------------------------------------------------
(* A match result.                                                         *)

(* The loop of UpdateStats, from the level and the experience there are.   *)
Spends == [level : 0 .. 255, xp : Nat]
Levelled[p \in Spends] ==
    LET next == 100 * ((p.level + 1) % 256)
    IN  IF p.xp < next \/ p.level >= TopLevel
        THEN [level |-> p.level, xp |-> p.xp % UInt16]
        ELSE Levelled[[level |-> p.level + 1, xp |-> p.xp - next]]

(* Mutant: one level per match.                                            *)
CreditedOnce(st, m) ==
    LET x == st.xp + m.xp
        next == 100 * (st.level + 1)
        rises == x >= next /\ st.level < TopLevel
    IN  [st EXCEPT !.wins = IF m.won THEN (@ + 1) % UInt16 ELSE @,
                   !.losses = IF m.won THEN @ ELSE (@ + 1) % UInt16,
                   !.level = IF rises THEN @ + 1 ELSE @,
                   !.xp = (IF rises THEN x - next ELSE x) % UInt16]

(* a.Wins++ or a.Losses++, then the experience.                            *)
Credited(st, m) ==
    LET up == Levelled[[level |-> st.level, xp |-> st.xp + m.xp]]
    IN  [st EXCEPT !.wins = IF m.won THEN (@ + 1) % UInt16 ELSE @,
                   !.losses = IF m.won THEN @ ELSE (@ + 1) % UInt16,
                   !.level = up.level,
                   !.xp = up.xp]

-----------------------------------------------------------------------------
(* The store after each operation.                                         *)

(* Login of an unknown name and CreateUser.                                *)
WithAccount(s, n) ==
    [s EXCEPT !.next = @ + 1,
              !.users[n] = [id |-> s.next, banned |-> FALSE, sel |-> 0,
                            legacy |-> NoLegacy, chars |-> NoChars]]

WithCharacter(s, n, name) ==
    [s EXCEPT !.nextChar = @ + 1,
              !.users[n] =
                  [@ EXCEPT !.sel = s.nextChar,
                            !.chars[s.nextChar] = [name |-> name, rename |-> FALSE,
                                                   stats |-> NewStats]]]

WithName(s, n, ch, name) ==
    [s EXCEPT !.users[n].chars[ch] = [@ EXCEPT !.name = name, !.rename = FALSE]]

WithSelection(s, n, ch) == [s EXCEPT !.users[n].sel = ch]
WithResult(s, n, ch, m) == [s EXCEPT !.users[n].chars[ch].stats = Credited(@, m)]
WithUpgrade(s, n, ch) == [s EXCEPT !.users[n].chars[ch].stats.endurance = @ + 1]
WithBan(s, n, banned) == [s EXCEPT !.users[n].banned = banned]
WithoutAccount(s, n) == [s EXCEPT !.users[n] = NoUser]

CanCreateCharacter(s, n, name) ==
    /\ name \notin CharNamesOf(s.users[n])
    /\ Cardinality(Owned(s.users[n])) < CharsPerUser

CanRename(s, n, ch, name) ==
    /\ ch \in Owned(s.users[n])
    /\ s.users[n].chars[ch].rename
    /\ name \notin CharNamesOf(s.users[n])

-----------------------------------------------------------------------------
(* NewStore.                                                               *)

NormalSelection(u) ==
    IF u.sel \in Owned(u) THEN u
    ELSE [u EXCEPT !.sel = IF Owned(u) = {} THEN 0
                           ELSE CHOOSE ch \in Owned(u) :
                                    \A d \in Owned(u) : ch <= d]

(* The progress of an account without characters becomes a character that  *)
(* may be renamed.                                                         *)
Migrates(u) == u # NoUser /\ Owned(u) = {} /\ u.legacy # NoLegacy
Migrated(u, ch) ==
    [u EXCEPT !.chars[ch] = [name |-> AgencyName, rename |-> TRUE,
                             stats |-> u.legacy],
              !.sel = ch, !.legacy = NoLegacy]

(* The one-time sweep over characters that still have their agency's name. *)
Swept(u) ==
    [u EXCEPT !.chars = [ch \in CharIDs |->
        IF @[ch] # NoChar /\ @[ch].name = AgencyName
        THEN [@[ch] EXCEPT !.rename = TRUE] ELSE @[ch]]]

(* The first free character id, from a number on.                         *)
FreeFrom(s, from) ==
    LET used == UNION {Owned(s.users[n]) : n \in {m \in Names : s.users[m] # NoUser}}
    IN  CHOOSE k \in from .. MaxChar + 1 :
            /\ \A ch \in used : ch < k
            /\ \A j \in from .. k - 1 : \E ch \in used : j <= ch

(* Accounts that migrate get the next character ids, in the order of a Go  *)
(* map; the next id is then next.                                          *)
Migrants(s) == {n \in Names : Migrates(s.users[n])}
LoadedWith(s, next, ids) ==
    LET user(n) == IF n \in Migrants(s) THEN Migrated(s.users[n], ids[n])
                   ELSE NormalSelection(s.users[n])
        ready(n) == IF s.swept THEN user(n) ELSE Swept(user(n))
    IN  [s EXCEPT
            !.nextChar = next,
            !.swept = TRUE,
            !.users = [n \in Names |-> IF s.users[n] = NoUser THEN NoUser
                                       ELSE ready(n)]]
LoadedFrom(s, first) ==
    UNION {{LoadedWith(s, next, ids) : ids \in Bijection(Migrants(s), first .. next - 1)} :
           next \in first .. MaxChar + 1}

(* Mutant: the next character id is counted from the characters found.     *)
LoadedRecounted(s) == LoadedFrom(s, FreeFrom(s, 1))

(* A store the lobby wrote: an id and a character are one account's, and   *)
(* the experience of a character does not reach the next level.            *)
Complete(st) == st.level = TopLevel \/ st.xp < 100 * (st.level + 1)
WellKept(s) ==
    \A n, m \in {k \in Names : s.users[k] # NoUser} :
        /\ s.users[n].id < s.next
        /\ s.users[n].id = s.users[m].id => n = m
        /\ Owned(s.users[n]) \cap Owned(s.users[m]) # {} => n = m
        /\ \A ch \in Owned(s.users[n]) : Complete(s.users[n].chars[ch].stats)
        /\ s.users[n].legacy # NoLegacy => Complete(s.users[n].legacy)

(* NewStore: what may be in memory, and in the file, afterwards.            *)
Loaded(s) == LoadedFrom(s, FreeFrom(s, s.nextChar))
=============================================================================
