--------------------------- MODULE MapStore_proofs ---------------------------
(***************************************************************************)
(* Proofs about the map store, for any names, spellings, contents and       *)
(* downloads, and whatever number of changes, crashes and failed calls.     *)
(***************************************************************************)
EXTENDS MapStore, TLAPS

USE KeyAssumption, MarkAssumption, StepAssumption

At(kind, at) == op # Free /\ op.kind = kind /\ op.at = at

(* A table of contents and a table of names, of memory or of an index file: *)
(* entries are filed where they belong, and a named map is listed.          *)
Consistent(maps, names) ==
    /\ \A sha \in Shas : maps[sha] # NoMeta => maps[sha].sha = sha
    /\ \A k \in Keys : names[k] # NoMeta =>
           KeyOf[names[k].name] = k /\ maps[names[k].sha] # NoMeta

Parses(i) == i \notin {NoMeta, Corrupt}

Tables ==
    /\ Consistent(bySHA1, byName)
    /\ \A i \in {index, temp} : Parses(i) => Consistent(i.maps, i.names)

(* Half a file is one being written, or one whose write was cut short.      *)
TornKnown ==
    \A sha \in Shas : blobs[sha] = "torn" =>
        sha \in cut \/ (At("upload", "write") /\ op.meta.sha = sha)

(* What memory lists is stored at every step; what the index lists is, and   *)
(* what a temporary file does that may yet become the index, but for the map *)
(* a delete has removed and not yet struck out.                             *)
ListedStored ==
    \A sha \in Shas \ cut :
        /\ bySHA1[sha] # NoMeta => blobs[sha] = "whole"
        /\ \A i \in {index, temp} : (Parses(i) /\ i.maps[sha] # NoMeta) =>
               blobs[sha] = "whole" \/ (At("delete", "index") /\ op.meta.sha = sha)

(* The change under way: its file is written before the index, a delete     *)
(* starts at the index, and its name is set or struck out before its link.  *)
ChangeUnderWay ==
    op # Free =>
        /\ up
        /\ op.at = "write" => blobs[op.meta.sha] = "torn"
        /\ op.kind = "upload" /\ op.at # "write" =>
               op.meta.sha \in cut \/ blobs[op.meta.sha] = "whole"
        /\ op.kind = "delete" =>
               op.at # "write" /\ byName[KeyOf[op.meta.name]] = NoMeta
        /\ op.kind = "upload" /\ op.at = "link" =>
               byName[KeyOf[op.meta.name]] = op.meta

DownloadsNamed ==
    \A d \in Downloads : get[d] # NoMeta =>
        up /\ (get[d].kept => HasName(byName, get[d].sha))

(* A name's link leads to its map, but while its upload is about to make it, *)
(* if links are on and the last try at it did not fail.                     *)
NamesLinked ==
    linking => \A k \in Keys :
        (/\ byName[k] # NoMeta
         /\ byName[k].name \notin unlinked
         /\ ~(At("upload", "link") /\ KeyOf[op.meta.name] = k))
        => links[byName[k].name] = byName[k].sha

IInv ==
    /\ TypeOK /\ Tables /\ TornKnown /\ ListedStored
    /\ ChangeUnderWay /\ DownloadsNamed /\ NamesLinked

-----------------------------------------------------------------------------
(* Types *)

LEMMA KeptType ==
    ASSUME TypeOK, NEW names
    PROVE  Kept(names) \in [Downloads -> [sha : Shas, kept : BOOLEAN] \cup {NoMeta}]
  <1> SUFFICES ASSUME NEW d \in Downloads, get[d] # NoMeta
               PROVE  [get[d] EXCEPT !.kept = @ /\ HasName(names, get[d].sha)]
                          \in [sha : Shas, kept : BOOLEAN]
    BY DEF Kept
  <1>1. get[d] \in [sha : Shas, kept : BOOLEAN]
    BY DEF TypeOK
  <1>2. (get[d].kept /\ HasName(names, get[d].sha)) \in BOOLEAN
    BY <1>1
  <1> QED BY <1>1, <1>2

LEMMA StepType ==
    ASSUME TypeOK, Step
    PROVE  steps' \in 0 .. MaxSteps
  BY DEF TypeOK, Step

LEMMA TypeStep ==
    ASSUME TypeOK, [Next]_vars
    PROVE  TypeOK'
  <1>a. op # Free => op \in Ops
    BY DEF TypeOK
  <1>1. ASSUME NEW name \in Spellings, NEW sha \in Shas, Upload(name, sha)
        PROVE  TypeOK'
    BY <1>1, StepType DEF Upload, TypeOK, Ops, Metas, memVars, indexVars, linkVars
  <1>2. ASSUME NEW d \in Downloads, NEW sha \in Shas, LookUp(d, sha)
        PROVE  TypeOK'
    <2>1. HasName(byName, sha) \in BOOLEAN
      BY DEF HasName
    <2> QED BY <1>2, <2>1 DEF LookUp, TypeOK, memVars, diskVars, indexVars, linkVars
  <1>3. ASSUME NEW k \in Keys, Delete(k) PROVE TypeOK'
    <2>1. byName[k] \in Metas /\ byName[k].sha \in Shas
      BY <1>3 DEF Delete, TypeOK, Named, Metas
    <2>2. byName' \in Named
      BY <1>3 DEF Delete, TypeOK, Named
    <2>3. bySHA1' \in Listed /\ blobs' \in [Shas -> {"none", "torn", "whole"}]
      BY <1>3, <2>1 DEF Delete, TypeOK, Listed
    <2>4. get' \in [Downloads -> [sha : Shas, kept : BOOLEAN] \cup {NoMeta}]
      BY <1>3, KeptType DEF Delete
    <2>5. op' \in Ops
      BY <1>3, <2>1 DEF Delete, Ops
    <2> QED BY <1>3, StepType, <2>2, <2>3, <2>4, <2>5 DEF Delete, TypeOK, indexVars, linkVars
  <1>4. ASSUME NEW d \in Downloads, ReadFile(d) PROVE TypeOK'
    BY <1>4 DEF ReadFile, TypeOK, memVars, diskVars, indexVars, linkVars
  <1>5. CASE Written
    BY <1>5, <1>a DEF Written, TypeOK, Ops, Metas, memVars, indexVars, linkVars
  <1>6. CASE WriteFails
    BY <1>6, <1>a, StepType DEF WriteFails, TypeOK, Ops, Metas, memVars, indexVars, linkVars
  <1>7. CASE SaveIndex
    <2>1. op \in Ops /\ op.meta \in Metas /\ op.meta.sha \in Shas /\ op.meta.name \in Spellings
      BY <1>7, <1>a DEF SaveIndex, Ops, Metas
    <2>2. byName' \in Named /\ bySHA1' \in Listed
      BY <1>7, <2>1 DEF SaveIndex, TypeOK, Named, Listed, memVars
    <2>3. \A names \in Orders(bySHA1') : [maps |-> bySHA1', names |-> names] \in Indexes
      BY <2>2 DEF Orders, Indexes
    <2>6. Hurt \subseteq Shas /\ Made \in Shas \cup {NoMeta}
      BY <2>1 DEF Hurt, Made
    <2>7. /\ index' \in Indexes /\ temp' \in Indexes \cup {NoMeta}
          /\ cut' \subseteq Shas /\ steps' \in 0 .. MaxSteps
          /\ last' \in [Keys -> Shas \cup {NoMeta, Corrupt}]
      <3>1. CASE Saved(bySHA1')
        BY <2>1, <2>3, <2>6, <3>1 DEF Saved, TypeOK
      <3>2. CASE NotSaved(bySHA1')
        <4>1. PICK written \in {[maps |-> bySHA1', names |-> names] : names \in Orders(bySHA1')}
                                   \cup {Corrupt, temp} :
                 \/ written # NoMeta /\ index' = written /\ temp' = NoMeta
                 \/ temp' = written /\ index' = index
          BY <3>2 DEF NotSaved
        <4>2. written \in Indexes \cup {NoMeta}
          BY <2>3 DEF TypeOK, Indexes
        <4>3. index' \in Indexes /\ temp' \in Indexes \cup {NoMeta}
          BY <4>1, <4>2 DEF TypeOK
        <4> QED BY <2>1, <2>6, <3>2, <4>3, StepType DEF NotSaved, TypeOK
      <3> QED BY <1>7, <3>1, <3>2 DEF SaveIndex
    <2>4. get' \in [Downloads -> [sha : Shas, kept : BOOLEAN] \cup {NoMeta}]
      BY <1>7, KeptType DEF SaveIndex
    <2>5. op' \in Ops
      BY <1>7, <2>1 DEF SaveIndex, Ops
    <2> QED BY <1>7, <2>2, <2>4, <2>5, <2>7 DEF SaveIndex, TypeOK, linkVars
  <1>8. CASE UpdateLink
    <2>1. op \in Ops /\ op.meta.sha \in Shas /\ op.meta.name \in Spellings
      BY <1>8, <1>a DEF UpdateLink, Ops, Metas
    <2> QED
      BY <1>8, <2>1, StepType DEF UpdateLink, Linked, Made, TypeOK, memVars, indexVars
  <1>9. CASE Crash
    <2>1. bySHA1' \in Listed /\ byName' \in Named
      BY <1>9 DEF Crash, NoMaps, NoNames, Listed, Named
    <2>2. cut' \subseteq Shas
      BY <1>9, <1>a DEF Crash, Hurt, TypeOK, Ops, Metas
    <2> QED BY <1>9, StepType, <2>1, <2>2 DEF Crash, TypeOK, NoDownloads, diskVars, indexVars, linkVars
  <1>10. CASE Start
    <2> PICK failed \in SUBSET Spellings :
          /\ (failed = {} /\ (Loads \/ (index = Corrupt /\ LoadsNothing)) /\ UNCHANGED steps)
             \/ (Step /\ (Loads \/ LoadsNothing))
          /\ IF linking' THEN links' = Rebuilt(byName', failed) /\ unlinked' = failed
             ELSE UNCHANGED <<links, unlinked>>
      BY <1>10 DEF Start
    <2>1. bySHA1' \in Listed /\ byName' \in Named
      BY DEF Loads, LoadsNothing, TypeOK, Indexes, NoMaps, NoNames, Listed, Named
    <2>2. Rebuilt(byName', failed) \in [Spellings -> Shas \cup {NoMeta}]
      <3> SUFFICES ASSUME NEW s \in Spellings, byName'[KeyOf[s]] # NoMeta
                   PROVE  byName'[KeyOf[s]].sha \in Shas
        BY DEF Rebuilt, TypeOK
      <3> QED BY <2>1 DEF Named, Metas
    <2>3. links' \in [Spellings -> Shas \cup {NoMeta}] /\ unlinked' \subseteq Spellings
      BY <2>2 DEF TypeOK
    <2>4. last' \in [Keys -> Shas \cup {NoMeta, Corrupt}] /\ steps' \in 0 .. MaxSteps
      BY StepType DEF Loads, LoadsNothing, TypeOK
    <2> QED BY <1>10, <2>1, <2>3, <2>4 DEF Start, TypeOK, indexVars
  <1>11. CASE UNCHANGED vars
    BY <1>11 DEF vars, memVars, diskVars, indexVars, linkVars, TypeOK
  <1> QED
    BY <1>1, <1>2, <1>3, <1>4, <1>5, <1>6, <1>7, <1>8, <1>9, <1>10, <1>11 DEF Next

LEMMA TypeInit == Init => TypeOK
  BY DEF Init, TypeOK, Listed, Named, Indexes, NoMaps, NoNames, NoDownloads

(* Types are kept.                                                          *)
THEOREM TypeCorrect == Spec => []TypeOK
  <1> QED BY TypeInit, TypeStep, PTL DEF Spec

-----------------------------------------------------------------------------
(* The invariant: the steps of a change *)

LEMMA ChangeType ==
    ASSUME TypeOK, op # Free
    PROVE  /\ op \in Ops /\ op.meta \in Metas
           /\ op.meta.sha \in Shas /\ op.meta.name \in Spellings
           /\ KeyOf[op.meta.name] \in Keys
  BY DEF TypeOK, Ops, Metas

LEMMA EntryType ==
    ASSUME TypeOK, NEW k \in Keys, byName[k] # NoMeta
    PROVE  byName[k] \in Metas /\ byName[k].sha \in Shas /\ byName[k].name \in Spellings
  BY DEF TypeOK, Named, Metas

LEMMA UploadStep ==
    ASSUME IInv, NEW name \in Spellings, NEW sha \in Shas, Upload(name, sha)
    PROVE  (Tables /\ TornKnown /\ ListedStored /\ ChangeUnderWay
            /\ DownloadsNamed /\ NamesLinked)'
  <1> USE DEF IInv
  <1> DEFINE new == [kind |-> "upload", meta |-> [sha |-> sha, name |-> name],
                     at |-> IF blobs[sha] = "none" THEN "write" ELSE "index"]
  <1>1. /\ op = Free /\ up /\ up' /\ op' = new
        /\ UNCHANGED <<up, bySHA1, byName, index, temp, links, linking, unlinked, get, cut>>
    BY DEF Upload, Ready, memVars, indexVars, linkVars
  <1>a. new # Free
    BY DEF Ops, Metas
  <1>2. Tables'
    BY <1>1 DEF Tables, Consistent
  <1>3. TornKnown'
    BY <1>1, <1>a DEF Upload, TornKnown, At, TypeOK
  <1>4. ListedStored'
    BY <1>1, <1>a DEF Upload, ListedStored, At, TypeOK
  <1>5. ChangeUnderWay'
    BY <1>1, <1>a DEF Upload, ChangeUnderWay, TornKnown, At, TypeOK
  <1>6. DownloadsNamed'
    BY <1>1 DEF DownloadsNamed, HasName
  <1>7. NamesLinked'
    BY <1>1, <1>a DEF NamesLinked, At
  <1> QED BY <1>2, <1>3, <1>4, <1>5, <1>6, <1>7

LEMMA WrittenStep ==
    ASSUME IInv, Written
    PROVE  (Tables /\ TornKnown /\ ListedStored /\ ChangeUnderWay
            /\ DownloadsNamed /\ NamesLinked)'
  <1> USE DEF IInv
  <1> DEFINE sha == op.meta.sha
  <1>1. /\ op # Free /\ op \in Ops /\ op.at = "write" /\ op.kind = "upload"
        /\ sha \in Shas
        /\ blobs' = [blobs EXCEPT ![sha] = "whole"]
        /\ op' = [op EXCEPT !.at = "index"] /\ cut' = cut \ {sha}
        /\ UNCHANGED <<up, bySHA1, byName, index, temp, links, linking, unlinked, get>>
    BY ChangeType DEF Written, ChangeUnderWay, Ops, memVars, indexVars, linkVars
  <1>a. /\ op' \in Ops /\ op' # Free
        /\ op'.kind = "upload" /\ op'.at = "index" /\ op'.meta = op.meta
    BY <1>1 DEF Ops
  <1>2. Tables'
    BY <1>1 DEF Tables, Consistent
  <1>3. TornKnown'
    BY <1>1 DEF TornKnown, At, TypeOK
  <1>4. ListedStored'
    BY <1>1 DEF ListedStored, At, TypeOK
  <1>5. ChangeUnderWay'
    BY <1>1, <1>a DEF ChangeUnderWay, TypeOK
  <1>6. DownloadsNamed'
    BY <1>1 DEF DownloadsNamed, HasName
  <1>7. NamesLinked'
    BY <1>1 DEF NamesLinked, At
  <1> QED BY <1>2, <1>3, <1>4, <1>5, <1>6, <1>7

LEMMA WriteFailsStep ==
    ASSUME IInv, WriteFails
    PROVE  (Tables /\ TornKnown /\ ListedStored /\ ChangeUnderWay
            /\ DownloadsNamed /\ NamesLinked)'
  <1> USE DEF IInv
  <1>1. /\ op # Free /\ op \in Ops /\ op.at = "write" /\ op.kind = "upload"
        /\ op' = Free /\ blobs[op.meta.sha] = "torn" /\ op.meta.sha \in Shas
        /\ UNCHANGED <<up, bySHA1, byName, index, temp, links, linking, unlinked, get>>
        /\ \/ blobs' = [blobs EXCEPT ![op.meta.sha] = "none"] /\ cut' = cut
           \/ blobs' = blobs /\ cut' = cut \cup {op.meta.sha}
    BY ChangeType DEF WriteFails, ChangeUnderWay, Ops, memVars, indexVars, linkVars
  <1>2. Tables'
    BY <1>1 DEF Tables, Consistent
  <1>3. TornKnown'
    BY <1>1 DEF TornKnown, At, TypeOK
  <1>4. ListedStored'
    BY <1>1 DEF ListedStored, At, TypeOK
  <1>5. ChangeUnderWay'
    BY <1>1 DEF ChangeUnderWay
  <1>6. DownloadsNamed'
    BY <1>1 DEF DownloadsNamed, HasName
  <1>7. NamesLinked'
    BY <1>1 DEF NamesLinked, At
  <1> QED BY <1>2, <1>3, <1>4, <1>5, <1>6, <1>7

LEMMA KeptNamed ==
    ASSUME TypeOK, NEW names, get' = Kept(names),
           NEW d \in Downloads, get'[d] # NoMeta, get'[d].kept
    PROVE  HasName(names, get'[d].sha)
  <1>1. get[d] \in [sha : Shas, kept : BOOLEAN]
        /\ get'[d] = [get[d] EXCEPT !.kept = @ /\ HasName(names, get[d].sha)]
    BY DEF Kept, TypeOK
  <1> QED BY <1>1

(* A map whose last name goes is struck from memory with its file; one with  *)
(* another name keeps both.                                                 *)
LEMMA DeleteStep ==
    ASSUME IInv, NEW k \in Keys, Delete(k)
    PROVE  (Tables /\ TornKnown /\ ListedStored /\ ChangeUnderWay
            /\ DownloadsNamed /\ NamesLinked)'
  <1> USE DEF IInv
  <1> DEFINE sha == byName[k].sha
             names == [byName EXCEPT ![k] = NoMeta]
             new == [kind |-> "delete", meta |-> byName[k], at |-> "index"]
  <1>1. /\ op = Free /\ up /\ byName[k] # NoMeta
        /\ byName' = names /\ get' = Kept(names) /\ op' = new
        /\ UNCHANGED <<up, index, temp, links, linking, unlinked, cut>>
    BY DEF Delete, Ready, indexVars, linkVars
  <1>2. byName[k] \in Metas /\ sha \in Shas /\ KeyOf[byName[k].name] = k
    BY <1>1, EntryType DEF Tables, Consistent
  <1>a. new # Free
    BY <1>2 DEF Ops
  <1>b. \/ HasName(names, sha) /\ bySHA1' = bySHA1 /\ blobs' = blobs
        \/ /\ ~HasName(names, sha)
           /\ bySHA1' = [bySHA1 EXCEPT ![sha] = NoMeta]
           /\ blobs' = blobs \/ blobs' = [blobs EXCEPT ![sha] = "none"]
    BY DEF Delete
  <1>4. Tables'
    <2>1. \A s \in Shas : bySHA1'[s] # NoMeta => bySHA1'[s].sha = s
      BY <1>b DEF Tables, Consistent, TypeOK, Listed
    <2>2. ASSUME NEW j \in Keys, names[j] # NoMeta
          PROVE  KeyOf[names[j].name] = j /\ bySHA1'[names[j].sha] # NoMeta
      <3>1. names[j] = byName[j] /\ byName[j] \in Metas /\ byName[j].sha \in Shas
        BY <1>1, <2>2, EntryType DEF TypeOK, Named
      <3>2. KeyOf[byName[j].name] = j /\ bySHA1[byName[j].sha] # NoMeta
        BY <2>2, <3>1 DEF Tables, Consistent
      <3>3. ~HasName(names, sha) => byName[j].sha # sha
        BY <2>2, <3>1 DEF HasName
      <3> QED BY <1>b, <3>1, <3>2, <3>3 DEF TypeOK, Listed
    <2>3. Consistent(bySHA1', byName')
      BY <1>1, <2>1, <2>2 DEF Consistent
    <2> QED BY <1>1, <2>3 DEF Tables
  <1>5. TornKnown'
    BY <1>1, <1>2, <1>b DEF TornKnown, At, TypeOK
  <1>6. ListedStored'
    BY <1>1, <1>2, <1>a, <1>b DEF ListedStored, At, TypeOK, Listed
  <1>7. ChangeUnderWay'
    BY <1>1, <1>2 DEF ChangeUnderWay, TypeOK, Named
  <1>8. DownloadsNamed'
    BY <1>1, KeptNamed DEF DownloadsNamed
  <1>9. NamesLinked'
    BY <1>1 DEF NamesLinked, At, TypeOK, Named
  <1> QED BY <1>4, <1>5, <1>6, <1>7, <1>8, <1>9

(* The names an index gives its maps agree with them.                       *)
LEMMA OrdersConsistent ==
    ASSUME NEW maps, NEW names \in Orders(maps),
           \A sha \in Shas : maps[sha] # NoMeta => maps[sha].sha = sha
    PROVE  Consistent(maps, names)
  <1> SUFFICES ASSUME NEW k \in Keys, names[k] # NoMeta
               PROVE  KeyOf[names[k].name] = k /\ maps[names[k].sha] # NoMeta
    BY DEF Consistent
  <1>1. PICK s \in Shas : maps[s] # NoMeta /\ KeyOf[maps[s].name] = k /\ names[k] = maps[s]
    BY DEF Orders
  <1> QED BY <1>1

(* The index and the temporary file list what memory does, or what the      *)
(* index or an earlier temporary file did, or do not parse.  A file that is *)
(* missing and that the index may still list is added to cut.               *)
LEMMA SaveIndexStep ==
    ASSUME IInv, SaveIndex
    PROVE  (Tables /\ TornKnown /\ ListedStored /\ ChangeUnderWay
            /\ DownloadsNamed /\ NamesLinked)'
  <1> USE DEF IInv
  <1>1. /\ op # Free /\ op \in Ops /\ op.at = "index" /\ up
        /\ op' = [op EXCEPT !.at = "link"]
        /\ get' = Kept(byName')
        /\ UNCHANGED <<up, blobs, links, linking, unlinked>>
    BY ChangeType DEF SaveIndex, ChangeUnderWay, linkVars
  <1>2. /\ op.meta \in Metas /\ op.meta.sha \in Shas
        /\ op.meta.name \in Spellings /\ KeyOf[op.meta.name] \in Keys
        /\ op.meta # NoMeta
    BY <1>1, ChangeType
  <1>a. /\ op' \in Ops /\ op' # Free
        /\ op'.kind = op.kind /\ op'.at = "link" /\ op'.meta = op.meta
    BY <1>1 DEF Ops
  <1>b. \/ /\ op.kind = "upload"
           /\ bySHA1' = [bySHA1 EXCEPT ![op.meta.sha] = op.meta]
           /\ byName' = [byName EXCEPT ![KeyOf[op.meta.name]] = op.meta]
        \/ op.kind = "delete" /\ UNCHANGED <<bySHA1, byName>>
    BY <1>1 DEF SaveIndex, memVars, Ops
  <1>c. /\ cut \subseteq cut'
        /\ \A i \in {index', temp'} : Parses(i) =>
              \/ i.maps = bySHA1' /\ i.names \in Orders(bySHA1')
              \/ i \in {index, temp} /\ cut' = cut \cup Hurt
    <2>1. CASE Saved(bySHA1')
      BY <2>1 DEF Saved, Parses
    <2>2. CASE NotSaved(bySHA1')
      BY <2>2 DEF NotSaved, Parses
    <2> QED BY <2>1, <2>2 DEF SaveIndex
  <1>3. Consistent(bySHA1', byName')
    <2>1. Consistent(bySHA1, byName)
      BY DEF Tables
    <2>2. CASE op.kind = "upload"
      <3>1. \A s \in Shas : bySHA1'[s] # NoMeta => bySHA1'[s].sha = s
        BY <1>2, <1>b, <2>1, <2>2 DEF Consistent, TypeOK, Listed
      <3>2. ASSUME NEW k \in Keys, byName'[k] # NoMeta
            PROVE  KeyOf[byName'[k].name] = k /\ bySHA1'[byName'[k].sha] # NoMeta
        <4>1. bySHA1'[op.meta.sha] = op.meta
          BY <1>2, <1>b, <2>2 DEF TypeOK, Listed
        <4>2. CASE k = KeyOf[op.meta.name]
          <5>1. byName'[k] = op.meta
            BY <1>b, <2>2, <4>2 DEF TypeOK, Named
          <5> QED BY <1>2, <4>1, <4>2, <5>1
        <4>3. CASE k # KeyOf[op.meta.name]
          <5>1. byName'[k] = byName[k] /\ byName[k].sha \in Shas
            BY <1>b, <2>2, <3>2, <4>3, EntryType DEF TypeOK, Named
          <5>2. KeyOf[byName[k].name] = k /\ bySHA1[byName[k].sha] # NoMeta
            BY <2>1, <3>2, <5>1 DEF Consistent
          <5> QED BY <1>2, <1>b, <2>2, <5>1, <5>2 DEF TypeOK, Listed
        <4> QED BY <4>2, <4>3
      <3> QED BY <3>1, <3>2 DEF Consistent
    <2>3. CASE op.kind = "delete"
      BY <1>b, <2>1, <2>3
    <2> QED BY <1>b, <2>2, <2>3
  <1>4. Tables'
    <2>1. ASSUME NEW i \in {index', temp'}, Parses(i)
          PROVE  Consistent(i.maps, i.names)
      <3>1. CASE i.maps = bySHA1' /\ i.names \in Orders(bySHA1')
        BY <1>3, <3>1, OrdersConsistent DEF Consistent
      <3>2. CASE i \in {index, temp}
        BY <2>1, <3>2 DEF Tables
      <3> QED BY <1>c, <2>1, <3>1, <3>2
    <2> QED BY <1>3, <2>1 DEF Tables, Parses
  <1>5. TornKnown'
    BY <1>1, <1>c DEF TornKnown, At
  <1>6. ListedStored'
    <2>1. \A s \in Shas \ cut : bySHA1'[s] # NoMeta => blobs[s] = "whole"
      BY <1>1, <1>2, <1>b DEF ListedStored, ChangeUnderWay, TypeOK, Listed
    <2>2. ASSUME NEW s \in Shas \ cut', NEW i \in {index', temp'},
                 Parses(i), i.maps[s] # NoMeta
          PROVE  blobs[s] = "whole"
      <3>1. CASE i.maps = bySHA1'
        BY <1>c, <2>1, <2>2, <3>1
      <3>2. CASE i \in {index, temp} /\ cut' = cut \cup Hurt
        <4>1. s \in Shas \ cut /\ s \notin Hurt
          BY <2>2, <3>2
        <4>2. blobs[s] = "whole" \/ op.meta.sha = s
          BY <2>2, <3>2, <4>1 DEF ListedStored
        <4> QED BY <1>1, <4>1, <4>2 DEF Hurt
      <3> QED BY <1>c, <2>2, <3>1, <3>2
    <2>3. \A s \in Shas \ cut' : bySHA1'[s] # NoMeta => blobs[s] = "whole"
      BY <1>c, <2>1
    <2> QED BY <1>1, <2>2, <2>3 DEF ListedStored, Parses
  <1>7. ChangeUnderWay'
    BY <1>1, <1>2, <1>a, <1>b, <1>c DEF ChangeUnderWay, TypeOK, Named
  <1>8. DownloadsNamed'
    BY <1>1, KeptNamed DEF DownloadsNamed
  <1>9. NamesLinked'
    BY <1>1, <1>2, <1>a, <1>b DEF NamesLinked, At, TypeOK, Named
  <1> QED BY <1>4, <1>5, <1>6, <1>7, <1>8, <1>9

(* The link made or removed is no link of another name: its spelling has     *)
(* one key.                                                                 *)
LEMMA UpdateLinkStep ==
    ASSUME IInv, UpdateLink
    PROVE  (Tables /\ TornKnown /\ ListedStored /\ ChangeUnderWay
            /\ DownloadsNamed /\ NamesLinked)'
  <1> USE DEF IInv
  <1>1. /\ op # Free /\ op \in Ops /\ op.at = "link" /\ op' = Free
        /\ UNCHANGED <<up, bySHA1, byName, blobs, index, temp, linking, get, cut>>
        /\ linking =>
              \/ /\ links' = [links EXCEPT ![op.meta.name] = Made]
                 /\ unlinked' = unlinked \ {op.meta.name}
              \/ /\ links' = links
                 /\ unlinked' = unlinked \cup {op.meta.name}
    BY ChangeType DEF UpdateLink, Linked, memVars, indexVars
  <1>2. Tables'
    BY <1>1 DEF Tables, Consistent
  <1>3. TornKnown'
    BY <1>1 DEF TornKnown, At
  <1>4. ListedStored'
    BY <1>1 DEF ListedStored, At
  <1>5. ChangeUnderWay'
    BY <1>1 DEF ChangeUnderWay
  <1>6. DownloadsNamed'
    BY <1>1 DEF DownloadsNamed, HasName
  <1>7. NamesLinked'
    <2> SUFFICES ASSUME linking, NEW k \in Keys, byName[k] # NoMeta,
                        byName[k].name \notin unlinked'
                 PROVE  links'[byName[k].name] = byName[k].sha
      BY <1>1 DEF NamesLinked
    <2>1. KeyOf[byName[k].name] = k /\ byName[k].name \in Spellings
      BY EntryType DEF Tables, Consistent
    <2>2. CASE KeyOf[op.meta.name] = k
      <3>1. op.kind = "upload" /\ byName[k] = op.meta
        BY <1>1, <2>2 DEF ChangeUnderWay, Ops
      <3> QED BY <1>1, <2>1, <3>1 DEF Made, TypeOK
    <2>3. CASE KeyOf[op.meta.name] # k
      BY <1>1, <2>1, <2>3 DEF NamesLinked, At, TypeOK
    <2> QED BY <2>2, <2>3
  <1> QED BY <1>2, <1>3, <1>4, <1>5, <1>6, <1>7

-----------------------------------------------------------------------------
(* The invariant: downloads, crash and start *)

LEMMA DownloadStep ==
    ASSUME IInv, NEW d \in Downloads,
           ReadFile(d) \/ \E sha \in Shas : LookUp(d, sha)
    PROVE  (Tables /\ TornKnown /\ ListedStored /\ ChangeUnderWay
            /\ DownloadsNamed /\ NamesLinked)'
  <1> USE DEF IInv
  <1>1. UNCHANGED <<up, bySHA1, byName, op, blobs, index, temp, links, linking,
                    unlinked, cut>>
    BY DEF ReadFile, LookUp, memVars, diskVars, indexVars, linkVars
  <1>2. (Tables /\ TornKnown /\ ListedStored /\ ChangeUnderWay /\ NamesLinked)'
    BY <1>1 DEF Tables, TornKnown, ListedStored, ChangeUnderWay, NamesLinked,
                Consistent, At
  <1>3. DownloadsNamed'
    <2>1. CASE ReadFile(d)
      BY <1>1, <2>1 DEF ReadFile, DownloadsNamed, HasName, TypeOK
    <2>2. ASSUME NEW sha \in Shas, LookUp(d, sha) PROVE DownloadsNamed'
      <3>1. get' = [get EXCEPT ![d] = [sha |-> sha, kept |-> HasName(byName, sha)]] /\ up
        BY <2>2 DEF LookUp, Ready
      <3> SUFFICES ASSUME NEW e \in Downloads, get'[e] # NoMeta, get'[e].kept
                   PROVE  HasName(byName, get'[e].sha)
        BY <1>1, <3>1 DEF DownloadsNamed, HasName, TypeOK
      <3>2. CASE e = d
        BY <3>1, <3>2 DEF TypeOK
      <3>3. CASE e # d
        BY <3>1, <3>3 DEF DownloadsNamed, TypeOK
      <3> QED BY <3>2, <3>3
    <2> QED BY <2>1, <2>2
  <1> QED BY <1>2, <1>3

(* What a crash may leave without its file is added to cut.                 *)
LEMMA CrashStep ==
    ASSUME IInv, Crash
    PROVE  (Tables /\ TornKnown /\ ListedStored /\ ChangeUnderWay
            /\ DownloadsNamed /\ NamesLinked)'
  <1> USE DEF IInv
  <1>1. /\ bySHA1' = NoMaps /\ byName' = NoNames /\ op' = Free
        /\ get' = NoDownloads /\ cut' = cut \cup Hurt
        /\ UNCHANGED <<blobs, index, temp>>
    BY DEF Crash, diskVars, indexVars
  <1>2. Tables'
    BY <1>1 DEF Tables, Consistent, NoMaps, NoNames
  <1>3. TornKnown'
    BY <1>1, ChangeType DEF TornKnown, At, Hurt
  <1>4. ListedStored'
    <2>1. \A s \in Shas : bySHA1'[s] = NoMeta
      BY <1>1 DEF NoMaps
    <2>2. \A s \in Shas \ (cut \cup Hurt) : \A i \in {index, temp} :
              Parses(i) /\ i.maps[s] # NoMeta => blobs[s] = "whole"
      BY DEF ListedStored, At, Hurt
    <2> QED BY <1>1, <2>1, <2>2 DEF ListedStored
  <1>5. ChangeUnderWay'
    BY <1>1 DEF ChangeUnderWay
  <1>6. DownloadsNamed'
    BY <1>1 DEF DownloadsNamed, NoDownloads
  <1>7. NamesLinked'
    BY <1>1 DEF NamesLinked, NoNames
  <1> QED BY <1>2, <1>3, <1>4, <1>5, <1>6, <1>7

(* rebuildLinks gives every name its link.                                  *)
LEMMA StartStep ==
    ASSUME IInv, Start
    PROVE  (Tables /\ TornKnown /\ ListedStored /\ ChangeUnderWay
            /\ DownloadsNamed /\ NamesLinked)'
  <1> USE DEF IInv
  <1>1. /\ op = Free /\ \A d \in Downloads : get[d] = NoMeta
        /\ up'
        /\ UNCHANGED <<op, blobs, index, temp, get, cut>>
    BY DEF Start, ChangeUnderWay, DownloadsNamed, indexVars
  <1>2. \/ bySHA1' = NoMaps /\ byName' = NoNames
        \/ Parses(index) /\ bySHA1' = index.maps /\ byName' = index.names
    <2>1. index # NoMeta
      BY DEF TypeOK, Indexes
    <2> QED BY <2>1 DEF Start, Loads, LoadsNothing, Parses
  <1>3. Consistent(bySHA1', byName')
    BY <1>2 DEF Tables, Consistent, NoMaps, NoNames
  <1>4. Tables'
    BY <1>1, <1>3 DEF Tables
  <1>5. TornKnown'
    BY <1>1 DEF TornKnown, At
  <1>6. ListedStored'
    BY <1>1, <1>2 DEF ListedStored, At, NoMaps
  <1>7. ChangeUnderWay'
    BY <1>1 DEF ChangeUnderWay
  <1>8. DownloadsNamed'
    BY <1>1 DEF DownloadsNamed
  <1>9. NamesLinked'
    <2> SUFFICES ASSUME linking', NEW k \in Keys, byName'[k] # NoMeta,
                        byName'[k].name \notin unlinked'
                 PROVE  links'[byName'[k].name] = byName'[k].sha
      BY DEF NamesLinked
    <2>3. links' = Rebuilt(byName', unlinked')
      BY DEF Start
    <2>1. byName' \in Named
      BY <1>2 DEF TypeOK, Indexes, NoNames, Named, Parses
    <2>2. KeyOf[byName'[k].name] = k /\ byName'[k].name \in Spellings
      BY <1>3, <2>1 DEF Consistent, Named, Metas
    <2> QED BY <2>2, <2>3 DEF Rebuilt
  <1> QED BY <1>4, <1>5, <1>6, <1>7, <1>8, <1>9

LEMMA IInvStep ==
    ASSUME IInv, [Next]_vars
    PROVE  IInv'
  <1>1. TypeOK'
    BY TypeStep DEF IInv
  <1>2. CASE UNCHANGED vars
    BY <1>1, <1>2 DEF vars, memVars, diskVars, indexVars, linkVars, IInv, Tables, Consistent, TornKnown,
        ListedStored, ChangeUnderWay, DownloadsNamed, NamesLinked, At, HasName
  <1>3. CASE Next
    BY <1>1, <1>3, UploadStep, WrittenStep, WriteFailsStep, DeleteStep, SaveIndexStep,
       UpdateLinkStep, DownloadStep, CrashStep, StartStep DEF Next, IInv
  <1> QED BY <1>2, <1>3

LEMMA IInvInit == Init => IInv
  <1> SUFFICES ASSUME Init PROVE IInv
    OBVIOUS
  <1>1. Tables /\ ListedStored
    BY DEF Init, Tables, Consistent, ListedStored, Parses, NoMaps, NoNames
  <1>2. TornKnown /\ ChangeUnderWay /\ DownloadsNamed /\ NamesLinked
    BY DEF Init, TornKnown, ChangeUnderWay, DownloadsNamed, NamesLinked, NoNames,
       NoDownloads
  <1> QED BY <1>1, <1>2, TypeInit DEF IInv

LEMMA IInvCorrect == Spec => []IInv
  <1> QED BY IInvInit, IInvStep, PTL DEF Spec

-----------------------------------------------------------------------------
(* The properties the run checks *)

(* Between changes, every map listed or named has its whole file, but for   *)
(* those whose own write was cut short or whose removal is not in the index: *)
(* a name's map is listed, and what memory lists is stored at every step.    *)
THEOREM CatalogueCorrect == Spec => []CatalogueStored
  <1>1. ASSUME IInv PROVE CatalogueStored
    <2>1. \A sha \in Shas : HasName(byName, sha) => bySHA1[sha] # NoMeta
      BY <1>1 DEF IInv, Tables, Consistent, HasName
    <2> QED BY <1>1, <2>1 DEF IInv, ListedStored, CatalogueStored
  <1> QED BY <1>1, IInvCorrect, PTL

(* A download whose map kept a name all the while reads a whole file.       *)
THEOREM DownloadsCorrect == Spec => []DownloadsWhole
  <1>1. ASSUME IInv PROVE DownloadsWhole
    <2> SUFFICES ASSUME NEW d \in Downloads, get[d] # NoMeta, get[d].kept,
                        get[d].sha \notin cut
                 PROVE  blobs[get[d].sha] = "whole"
      BY DEF DownloadsWhole
    <2>1. get[d].sha \in Shas /\ HasName(byName, get[d].sha)
      BY <1>1 DEF IInv, TypeOK, DownloadsNamed
    <2>2. bySHA1[get[d].sha] # NoMeta
      BY <1>1, <2>1 DEF IInv, Tables, Consistent, HasName
    <2> QED BY <1>1, <2>1, <2>2 DEF IInv, ListedStored
  <1> QED BY <1>1, IInvCorrect, PTL

(* Between changes the link of a name's spelling leads to its map, where     *)
(* links are on and the last try at it did not fail.                        *)
THEOREM LinksCorrect == Spec => []LinksFollow
  <1>1. ASSUME IInv PROVE LinksFollow
    BY <1>1 DEF IInv, NamesLinked, LinksFollow, Ready, At
  <1> QED BY <1>1, IInvCorrect, PTL
=============================================================================
