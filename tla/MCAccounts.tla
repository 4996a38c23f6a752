------------------------------ MODULE MCAccounts ------------------------------
(***************************************************************************)
(* A lobby that finds the file of an older version with a veteran of level *)
(* 98, 50 points short of the last one, and one who lost once, or whose     *)
(* account was deleted.  A match brings a new player from level 0 to 2, or  *)
(* to 35, and a veteran over the top.                                       *)
(***************************************************************************)
EXTENDS Accounts, TLC

CONSTANTS n1, n2, c1, c2

Connections == {c1, c2}
Symmetry == Permutations(Connections)

Veteran ==
    [id |-> 1, banned |-> FALSE, sel |-> 0,
     legacy |-> [wins |-> UInt16 - 1, losses |-> 7, xp |-> 9850, level |-> 98,
                 endurance |-> 4],
     chars |-> NoChars]
Beginner ==
    [id |-> 2, banned |-> FALSE, sel |-> 0,
     legacy |-> [wins |-> 0, losses |-> 1, xp |-> 0, level |-> 0, endurance |-> 0],
     chars |-> NoChars]
OldFile(second) ==
    [next |-> 3, nextChar |-> 1, swept |-> FALSE,
     users |-> n1 :> Veteran @@ n2 :> second]

(* Two connections without MongoDB, after both accounts migrated; one with *)
(* it.                                                                     *)
MirroredOnly ==
    {[served |-> 1, watched |-> {1}, file |-> OldFile(NoUser)]}
PlainOrMirrored ==
    MirroredOnly \cup
    {[served |-> 2, watched |-> {}, file |-> OldFile(Beginner)]}

Results == {[won |-> TRUE, xp |-> 350], [won |-> FALSE, xp |-> 65500]}
=============================================================================
