------------------------------- MODULE MapStore -------------------------------
(***************************************************************************)
(* The lobby's community maps: a file per SHA-1, an index of them, a table  *)
(* by name, and a symbolic link per name for the dedicated servers.         *)
(*                                                                         *)
(* A change holds MapStore.mu and goes through the disk step by step: op    *)
(* is the change under way and the step it is at.  A download looks its     *)
(* map up under the lock and reads the file after it.  A crash may fall     *)
(* between any two steps, and every call that writes, renames, links or     *)
(* removes may fail: only a failed write of the map itself is reported, the *)
(* other errors are ignored or logged.                                      *)
(*                                                                         *)
(* Source: services/lobby/maps.go.                                          *)
(***************************************************************************)
EXTENDS Naturals

CONSTANTS
    Spellings, \* map file names as uploaded: what links are called
    Keys,      \* names without case: the keys of byName
    KeyOf,     \* strings.ToUpper
    Shas,      \* contents, by SHA-1
    Downloads, \* downloads at a time
    NoMeta,    \* no map, or no link
    Corrupt,   \* an index.json that does not parse
    Free,      \* nobody holds mu for writing
    MaxSteps   \* bound on uploads, deletes, crashes and failed calls

ASSUME KeyAssumption == KeyOf \in [Spellings -> Keys]
ASSUME StepAssumption == MaxSteps \in Nat

Metas == [sha : Shas, name : Spellings]
Ops == [kind : {"upload", "delete"}, meta : Metas, at : {"write", "index", "link"}]

Named == [Keys -> Metas \cup {NoMeta}]
Listed == [Shas -> Metas \cup {NoMeta}]

(* index.json lists bySHA1 in the order Go's map iteration had: names says  *)
(* which map of each name comes last.                                       *)
Indexes == [maps : Listed, names : Named] \cup {Corrupt}

ASSUME MarkAssumption ==
    NoMeta \notin Shas \cup Metas \cup Indexes /\ Free \notin Ops

VARIABLES
    up, bySHA1, byName, op,  \* the lobby process
    blobs, index, temp,      \* the disk: <sha1>.sil, index.json, index.json.tmp
    links, linking,          \* linkDir, and whether it is in use (linkDir # "")
    get,                     \* each download between its two steps
    steps,
    cut,   \* history: the contents whose file was written in part, or went
           \* without the index saying so, by a crash or a failed call
    unlinked, \* history: the spellings whose link was last tried in vain
    last   \* history: what the last finished change made of each name,
           \* Corrupt if it was cut short or not saved, or the index lost

memVars == <<bySHA1, byName>>
indexVars == <<index, temp>>
linkVars == <<links, linking, unlinked>>
diskVars == <<blobs, indexVars, linkVars>>
vars == <<up, memVars, op, diskVars, get, steps, cut, last>>

TypeOK ==
    /\ up \in BOOLEAN
    /\ bySHA1 \in Listed
    /\ byName \in Named
    /\ op \in Ops \cup {Free}
    /\ blobs \in [Shas -> {"none", "torn", "whole"}]
    /\ index \in Indexes
    /\ temp \in Indexes \cup {NoMeta}
    /\ links \in [Spellings -> Shas \cup {NoMeta}]
    /\ linking \in BOOLEAN
    /\ unlinked \subseteq Spellings
    /\ get \in [Downloads -> [sha : Shas, kept : BOOLEAN] \cup {NoMeta}]
    /\ steps \in 0 .. MaxSteps
    /\ cut \subseteq Shas
    /\ last \in [Keys -> Shas \cup {NoMeta, Corrupt}]

NoMaps == [sha \in Shas |-> NoMeta]
NoNames == [k \in Keys |-> NoMeta]
NoDownloads == [d \in Downloads |-> NoMeta]

Init ==
    /\ up = TRUE
    /\ bySHA1 = NoMaps
    /\ byName = NoNames
    /\ op = Free
    /\ blobs = [sha \in Shas |-> "none"]
    /\ index = [maps |-> NoMaps, names |-> NoNames]
    /\ temp = NoMeta
    /\ links = [s \in Spellings |-> NoMeta]
    /\ linking \in BOOLEAN
    /\ unlinked = {}
    /\ get = NoDownloads
    /\ steps = 0
    /\ cut = {}
    /\ last = [k \in Keys |-> NoMeta]

Ready == up /\ op = Free
Step == steps < MaxSteps /\ steps' = steps + 1

HasName(names, sha) == \E k \in Keys : names[k] # NoMeta /\ names[k].sha = sha

(* History: the downloads whose map still has a name.                       *)
Kept(names) ==
    [d \in Downloads |->
        IF get[d] = NoMeta THEN NoMeta
        ELSE [get[d] EXCEPT !.kept = @ /\ HasName(names, get[d].sha)]]

-----------------------------------------------------------------------------
(* Upload.                                                                  *)

(* The file is written only if there is none.                               *)
Upload(name, sha) ==
    /\ Ready
    /\ Step
    /\ blobs' = IF blobs[sha] = "none" THEN [blobs EXCEPT ![sha] = "torn"] ELSE blobs
    /\ op' = [kind |-> "upload", meta |-> [sha |-> sha, name |-> name],
              at |-> IF blobs[sha] = "none" THEN "write" ELSE "index"]
    /\ UNCHANGED <<up, memVars, indexVars, linkVars, get, cut, last>>

Written ==
    /\ op # Free
    /\ op.at = "write"
    /\ blobs' = [blobs EXCEPT ![op.meta.sha] = "whole"]
    /\ op' = [op EXCEPT !.at = "index"]
    /\ cut' = cut \ {op.meta.sha}
    /\ UNCHANGED <<up, memVars, indexVars, linkVars, get, steps, last>>

(* os.WriteFile cannot open the file, or fails on the way: the upload is     *)
(* refused.                                                                 *)
WriteFails ==
    /\ op # Free
    /\ op.at = "write"
    /\ Step
    /\ op' = Free
    /\ \/ /\ blobs' = [blobs EXCEPT ![op.meta.sha] = "none"]
          /\ UNCHANGED cut
       \/ /\ cut' = cut \cup {op.meta.sha}
          /\ UNCHANGED blobs
    /\ UNCHANGED <<up, memVars, indexVars, linkVars, get, last>>

-----------------------------------------------------------------------------
(* Delete of the map some name has, up to the index.                        *)

(* Mutant: the file goes though another name has it.                        *)
DeleteUnasked(k) ==
    /\ Ready
    /\ Step
    /\ byName[k] # NoMeta
    /\ LET sha == byName[k].sha
           names == [byName EXCEPT ![k] = NoMeta]
       IN  /\ byName' = names
           /\ bySHA1' = [bySHA1 EXCEPT ![sha] = NoMeta]
           /\ blobs' = [blobs EXCEPT ![sha] = "none"]
           /\ get' = Kept(names)
    /\ op' = [kind |-> "delete", meta |-> byName[k], at |-> "index"]
    /\ UNCHANGED <<up, indexVars, linkVars, cut, last>>

(* Mutant: the entry by SHA-1 is forgotten.                                 *)
DeleteStillListed(k) ==
    /\ Ready
    /\ Step
    /\ byName[k] # NoMeta
    /\ LET sha == byName[k].sha
           names == [byName EXCEPT ![k] = NoMeta]
       IN  /\ byName' = names
           /\ bySHA1' = bySHA1
           /\ blobs' = IF HasName(names, sha) THEN blobs
                       ELSE [blobs EXCEPT ![sha] = "none"]
           /\ get' = Kept(names)
    /\ op' = [kind |-> "delete", meta |-> byName[k], at |-> "index"]
    /\ UNCHANGED <<up, indexVars, linkVars, cut, last>>

(* os.Remove of the file may fail; nobody looks.                            *)
Delete(k) ==
    /\ Ready
    /\ Step
    /\ byName[k] # NoMeta
    /\ LET sha == byName[k].sha
           names == [byName EXCEPT ![k] = NoMeta]
       IN  /\ byName' = names
           /\ bySHA1' = IF HasName(names, sha) THEN bySHA1
                        ELSE [bySHA1 EXCEPT ![sha] = NoMeta]
           /\ \/ blobs' = IF HasName(names, sha) THEN blobs
                          ELSE [blobs EXCEPT ![sha] = "none"]
              \/ UNCHANGED blobs
           /\ get' = Kept(names)
    /\ op' = [kind |-> "delete", meta |-> byName[k], at |-> "index"]
    /\ UNCHANGED <<up, indexVars, linkVars, cut, last>>

-----------------------------------------------------------------------------
(* The index and the link.                                                  *)

(* The names loadIndex will find in an index of maps: of several maps of    *)
(* one name, the last in the file.                                          *)
Orders(maps) ==
    {names \in Named : \A k \in Keys :
        LET found == {maps[sha] : sha \in {s \in Shas :
                         maps[s] # NoMeta /\ KeyOf[maps[s].name] = k}}
        IN  IF found = {} THEN names[k] = NoMeta ELSE names[k] \in found}

(* The contents whose file is missing, or half written, and listed.         *)
Hurt == IF op # Free /\ op.at # "link" /\ blobs[op.meta.sha] # "whole"
        THEN {op.meta.sha} ELSE {}

(* What a change makes of its name.                                         *)
Made == IF op.kind = "upload" THEN op.meta.sha ELSE NoMeta

(* saveIndex ignores errors.  The temporary file is written, written in     *)
(* part, or cannot be opened and stays what it was; it is then renamed,     *)
(* whatever it is, or the rename fails and index.json stays what it was.    *)
Saved(maps) ==
    \E names \in Orders(maps) :
        /\ index' = [maps |-> maps, names |-> names]
        /\ temp' = NoMeta
        /\ last' = [last EXCEPT ![KeyOf[op.meta.name]] = Made]
        /\ UNCHANGED <<steps, cut>>

NotSaved(maps) ==
    /\ Step
    /\ \E written \in {[maps |-> maps, names |-> names] : names \in Orders(maps)}
                       \cup {Corrupt, temp} :
          \/ /\ written # NoMeta
             /\ index' = written
             /\ temp' = NoMeta
          \/ /\ temp' = written
             /\ UNCHANGED index
    /\ cut' = cut \cup Hurt
    /\ last' = [last EXCEPT ![KeyOf[op.meta.name]] = Corrupt]

SaveIndex ==
    /\ op # Free
    /\ op.at = "index"
    /\ IF op.kind = "upload"
       THEN /\ bySHA1' = [bySHA1 EXCEPT ![op.meta.sha] = op.meta]
            /\ byName' = [byName EXCEPT ![KeyOf[op.meta.name]] = op.meta]
       ELSE UNCHANGED memVars
    /\ get' = Kept(byName')
    /\ Saved(bySHA1') \/ NotSaved(bySHA1')
    /\ op' = [op EXCEPT !.at = "link"]
    /\ UNCHANGED <<up, blobs, linkVars>>

(* Mutant of Linked: an upload makes its link only if there is none.        *)
LinkedOnce ==
    IF Made # NoMeta /\ links[op.meta.name] # NoMeta THEN links
    ELSE [links EXCEPT ![op.meta.name] = Made]

Linked == [links EXCEPT ![op.meta.name] = Made]

(* updateLink, and the end of Delete: the link as the map's name is         *)
(* spelled.  An error, or a file that is no link in its place, leaves what  *)
(* is there.                                                                *)
UpdateLink ==
    /\ op # Free
    /\ op.at = "link"
    /\ op' = Free
    /\ \/ /\ linking
          /\ links' = Linked
          /\ unlinked' = unlinked \ {op.meta.name}
          /\ UNCHANGED steps
       \/ /\ linking
          /\ Step
          /\ unlinked' = unlinked \cup {op.meta.name}
          /\ UNCHANGED links
       \/ /\ ~linking
          /\ UNCHANGED <<links, unlinked, steps>>
    /\ UNCHANGED <<up, memVars, blobs, indexVars, linking, get, cut, last>>

-----------------------------------------------------------------------------
(* Downloads: GetBySHA1 and GetByName.                                      *)

LookUp(d, sha) ==
    /\ Ready
    /\ get[d] = NoMeta
    /\ bySHA1[sha] # NoMeta \/ HasName(byName, sha)
    /\ get' = [get EXCEPT ![d] = [sha |-> sha, kept |-> HasName(byName, sha)]]
    /\ UNCHANGED <<up, memVars, op, diskVars, steps, cut, last>>

(* os.ReadFile: the client gets blobs[get[d].sha].                          *)
ReadFile(d) ==
    /\ get[d] # NoMeta
    /\ get' = [get EXCEPT ![d] = NoMeta]
    /\ UNCHANGED <<up, memVars, op, diskVars, steps, cut, last>>

-----------------------------------------------------------------------------
(* The lobby process.                                                       *)

Crash ==
    /\ up
    /\ Step
    /\ up' = FALSE
    /\ bySHA1' = NoMaps
    /\ byName' = NoNames
    /\ op' = Free
    /\ get' = NoDownloads
    /\ cut' = cut \cup Hurt
    /\ last' = IF op = Free \/ op.at = "link" THEN last
               ELSE [last EXCEPT ![KeyOf[op.meta.name]] = Corrupt]
    /\ UNCHANGED diskVars

(* rebuildLinks: the links of known maps, and no link of an unknown name,   *)
(* but where a call failed.                                                 *)
Rebuilt(names, failed) ==
    [s \in Spellings |->
        IF s \in failed THEN links[s]
        ELSE IF names[KeyOf[s]] = NoMeta THEN NoMeta
        ELSE IF names[KeyOf[s]].name = s THEN names[KeyOf[s]].sha
        ELSE links[s]]

(* loadIndex of an index that parses, or of one that does not or that       *)
(* cannot be read.                                                          *)
Loads ==
    /\ index # Corrupt
    /\ bySHA1' = index.maps
    /\ byName' = index.names
    /\ UNCHANGED last
LoadsNothing ==
    /\ bySHA1' = NoMaps
    /\ byName' = NoNames
    /\ last' = [k \in Keys |-> Corrupt]

(* NewMapStore.  Links are off if linkDir is not configured or cannot be    *)
(* made.                                                                    *)
Start ==
    /\ ~up
    /\ up' = TRUE
    /\ linking' \in BOOLEAN
    /\ \E failed \in SUBSET Spellings :
          /\ \/ /\ failed = {}
                /\ Loads \/ (index = Corrupt /\ LoadsNothing)
                /\ UNCHANGED steps
             \/ Step /\ (Loads \/ LoadsNothing)
          /\ IF linking' THEN links' = Rebuilt(byName', failed) /\ unlinked' = failed
             ELSE UNCHANGED <<links, unlinked>>
    /\ UNCHANGED <<op, blobs, indexVars, get, cut>>

-----------------------------------------------------------------------------
Next ==
    \/ \E sha \in Shas :
          \/ \E name \in Spellings : Upload(name, sha)
          \/ \E d \in Downloads : LookUp(d, sha)
    \/ \E k \in Keys : Delete(k)
    \/ \E d \in Downloads : ReadFile(d)
    \/ Written \/ WriteFails \/ SaveIndex \/ UpdateLink \/ Crash \/ Start

Spec == Init /\ [][Next]_vars

-----------------------------------------------------------------------------
(* Between changes, every map that is listed or has a name has its whole    *)
(* file, but for those whose own write was cut short, or whose removal did  *)
(* not get into the index.                                                  *)
CatalogueStored ==
    Ready => \A sha \in Shas \ cut :
                 (bySHA1[sha] # NoMeta \/ HasName(byName, sha)) => blobs[sha] = "whole"

(* A download reads its file after it gave up the lock: if its map has had  *)
(* a name all the while, whatever was uploaded and deleted, the file is     *)
(* there and whole.                                                         *)
DownloadsWhole ==
    \A d \in Downloads :
        (get[d] # NoMeta /\ get[d].kept /\ get[d].sha \notin cut)
        => blobs[get[d].sha] = "whole"

(* Between changes a dedicated server finds every map that has a name: the  *)
(* link of its spelling leads to that map, after a crash at any step too,   *)
(* unless links are off or the last try at that link failed.                *)
LinksFollow ==
    Ready /\ linking =>
        \A k \in Keys :
            byName[k] # NoMeta /\ byName[k].name \notin unlinked
            => links[byName[k].name] = byName[k].sha

(* A name stands for the map last uploaded under it, and for none once it   *)
(* is deleted; the names of a change cut short or of a lost index aside.    *)
LastUploadWins ==
    Ready => \A k \in Keys :
        last[k] # Corrupt =>
            last[k] = IF byName[k] = NoMeta THEN NoMeta ELSE byName[k].sha
=============================================================================
