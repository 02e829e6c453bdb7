--------------------------- MODULE MigrationProofs ---------------------------
(***************************************************************************)
(* Proofs about Migration as the server runs it: whatever the releases     *)
(* before have left and wherever a start is cut off, what the file means   *)
(* in the current schema stays as it is, and a store that is ready finds   *)
(* it written out.                                                         *)
(***************************************************************************)
EXTENDS ServerProofs

\* The rows d means in the current schema, written out.
ConfigsOf(d) == {[id |-> c.id, path |-> c.path, name |-> c.name,
                  current |-> IF c.current = Null THEN c.id ELSE c.current,
                  created |-> c.created, updated |-> c.updated] : c \in d.configs}
VersionsOf(d) == {[id |-> v.id,
                   config |-> IF "config_id" \in d.contentColumns THEN v.config ELSE v.id,
                   created |-> v.created,
                   blob |-> [data |-> v.data, size |-> Len(v.data)]] : v \in d.contents}

\* The store d holds, in that sense.
Means(d) == <<d.inode, d.dirs, d.dirAcl, ConfigsOf(d), d.configAcl, VersionsOf(d)>>

\* Until the store is ready the file means the same at every step, wherever a start
\* is cut off: the migrations only write out what an older schema left unsaid.
MeaningKept == [][stage # "ready" => Means(db)' = Means(db)]_serverVars

Shaped(d) == IsDatabase(d) /\ IsUpgradable(d)

\* The flat migrations, and what each is there for.
Statements == {Add("config", "created_at"), Add("config", "updated_at"),
               Add("config_content", "created_at"), Add("config_content", "updated_at"),
               Add("config", "current_content_id"), Do("backfillCurrent")}
Done(d, s) == IF s.do = "add" THEN s.column \in ColumnsOf(d, s.table)
                              ELSE \A c \in d.configs : c.current # Null

\* A transaction of the migrations leaves these alone.
RowsKept == /\ work.inode = db.inode /\ work.dirs = db.dirs /\ work.dirAcl = db.dirAcl
            /\ work.configAcl = db.configAcl
SizesKept == work.configs = db.configs /\ work.configColumns = db.configColumns
SizesDropped == /\ work.configs = {[c EXCEPT !.size = 0] : c \in db.configs}
                /\ work.configColumns = db.configColumns \ {"content_size"}

Flattened == {"inspectVersions", "versions", "inspectSize", "size", "index", "ready"}

\* The table is there once the schema has been executed.
ConfigMade ==
    \/ stage = "closed"
    \/ "config" \in db.tables
    \/ stage = "schema" /\ \E i \in 1 .. Len(todo) : todo[i] = Create("config")

\* The inductive invariant: the meaning is sound, and what each stage has made is there.
UpgradeInv ==
    /\ IsUpgradable(db)
    /\ M(Upgraded(db))!IInv
    /\ ConfigMade
    /\ stage = "flat" =>
          /\ todo \in Seq(Statements)
          /\ \A s \in Statements : Done(db, s) \/ \E i \in 1 .. Len(todo) : todo[i] = s
    /\ stage \in Flattened => \A s \in Statements : Done(db, s)
    /\ stage = "versions" => RowsKept /\ SizesKept
    /\ stage = "size" => /\ RowsKept
                         /\ IF todo = <<>> THEN SizesDropped ELSE SizesKept

-----------------------------------------------------------------------------
(* What a database means *)

\* The store sees the rows alone.
LEMMA SameRows ==
  ASSUME NEW d, NEW e, M(d)!IInv,
         d.inode = e.inode, d.dirs = e.dirs, d.dirAcl = e.dirAcl, d.configAcl = e.configAcl,
         Configs(d) = Configs(e), Versions(d) = Versions(e)
  PROVE  M(e)!IInv
<1>1. M(e)!TypeOK /\ M(e)!NoOrphans
  BY DEF M!IInv, M!TypeOK, M!NoOrphans, M!Ids, M!DirRow, M!AclRow, M!ConfigRow,
     M!ContentRow, M!Blob, M!ConfigPath, M!Root, M!Entry, M!Level
<1>2. M(e)!InodesDistinct
  BY DEF M!IInv, M!InodesDistinct, M!UniqueIds, M!Ids
<1>3. M(e)!DirInv
  BY DEF M!IInv, M!DirInv, M!PathsUnique, M!TreeConnected, M!Parent, M!NoParent
<1>4. M(e)!ConfigInv
  BY DEF M!IInv, M!ConfigInv, M!ConfigsHoused, M!DirectoryExists, M!DirPaths, M!NamesUnique,
     M!CurrentIsLatest, M!FirstVersionStamp, M!Root
<1> QED
  BY <1>1, <1>2, <1>3, <1>4 DEF M!IInv
\* A version of Write leaves a database Store could have written: it is above all ids
\* there are, so it is its config's last, and not its first.
LEMMA VersionAdded ==
  ASSUME NEW d, NEW e, M(d)!IInv,
         NEW c \in Configs(d), NEW now \in Clock, NEW n, NEW new, NEW b,
         n = d.inode + 1, n <= MaxInode,
         new.id = n, new.config = c.id,
         new \in [id: Nat, config: Nat, created: Clock, blob: [data: Data, size: Size]],
         b \in M(d)!ConfigRow, b.current = n,
         b.id = c.id, b.path = c.path, b.name = c.name, b.created = c.created,
         e.inode = n, e.dirs = d.dirs, e.dirAcl = d.dirAcl, e.configAcl = d.configAcl,
         Configs(e) = (Configs(d) \ {c}) \cup {b},
         Versions(e) = Versions(d) \cup {new}
  PROVE  M(e)!IInv
<1>1. /\ d.inode \in Nat /\ n \in Nat
      /\ c.id \in 1 .. d.inode
      /\ \A k \in M(d)!Ids(d.dirs) \cup M(d)!Ids(Configs(d)) \cup M(d)!Ids(Versions(d)) : k < n
      /\ \A v \in Versions(d) : v.id < n /\ v.id \in Nat /\ v.id # n
  <2>1. d.inode \in Nat /\ n \in Nat
    BY SizeAssumption DEF M!IInv, M!TypeOK
  <2>2. \A k \in M(d)!Ids(d.dirs) \cup M(d)!Ids(Configs(d)) \cup M(d)!Ids(Versions(d)) :
           k \in 1 .. d.inode /\ k < n
    BY <2>1 DEF M!IInv, M!InodesDistinct
  <2>3. c.id \in M(d)!Ids(Configs(d)) /\ \A v \in Versions(d) : v.id \in M(d)!Ids(Versions(d))
    BY DEF M!Ids
  <2> QED
    BY <2>1, <2>2, <2>3
<1>2. M(e)!Ids(Configs(e)) = M(d)!Ids(Configs(d))
  BY DEF M!Ids
<1>3. M(e)!TypeOK
  BY <1>1 DEF M!IInv, M!TypeOK, M!DirRow, M!AclRow, M!ConfigRow, M!ContentRow, M!Blob,
     M!ConfigPath, M!Root, M!Entry, M!Level
<1>4. M(e)!InodesDistinct
  <2>1. M(e)!UniqueIds(e.dirs) /\ M(e)!UniqueIds(Configs(e)) /\ M(e)!UniqueIds(Versions(e))
    BY <1>1 DEF M!IInv, M!InodesDistinct, M!UniqueIds
  <2>2. /\ M(e)!Ids(Versions(e)) = M(d)!Ids(Versions(d)) \cup {n}
        /\ M(e)!Ids(e.dirs) = M(d)!Ids(d.dirs)
    BY DEF M!Ids
  <2>3. \A k \in M(e)!Ids(e.dirs) \cup M(e)!Ids(Configs(e)) \cup M(e)!Ids(Versions(e)) :
           k \in 1 .. e.inode
    BY <1>1, <1>2, <2>2 DEF M!IInv, M!InodesDistinct
  <2>4. n \notin M(d)!Ids(d.dirs) \cup M(d)!Ids(Configs(d))
    BY <1>1
  <2>5. \A v \in Versions(e) : v.id \in M(e)!Ids(Configs(e)) => v.id = v.config
    BY <1>2, <2>4 DEF M!IInv, M!InodesDistinct
  <2> QED
    BY <1>2, <2>1, <2>2, <2>3, <2>4, <2>5 DEF M!IInv, M!InodesDistinct
<1>5. M(e)!DirInv
  BY DEF M!IInv, M!DirInv, M!PathsUnique, M!TreeConnected, M!Parent, M!NoParent
<1>6. M(e)!ConfigsHoused /\ M(e)!NamesUnique
  BY DEF M!IInv, M!ConfigInv, M!ConfigsHoused, M!DirectoryExists, M!DirPaths, M!NamesUnique,
     M!Root
<1>7. M(e)!CurrentIsLatest
  <2> SUFFICES ASSUME NEW x \in Configs(e)
               PROVE  \E v \in Versions(e) : /\ v.id = x.current /\ v.config = x.id
                                             /\ \A w \in Versions(e) : w.config = x.id => w.id <= v.id
    BY DEF M!CurrentIsLatest
  <2>1. CASE x = b
    BY <1>1, <2>1
  <2>2. CASE x # b
    <3>1. x \in Configs(d) /\ x.id # c.id
      BY <2>2 DEF M!IInv, M!InodesDistinct, M!UniqueIds
    <3>2. PICK v \in Versions(d) : /\ v.id = x.current /\ v.config = x.id
                                   /\ \A w \in Versions(d) : w.config = x.id => w.id <= v.id
      BY <3>1 DEF M!IInv, M!ConfigInv, M!CurrentIsLatest
    <3> QED
      BY <3>1, <3>2
  <2> QED
    BY <2>1, <2>2
<1>8. M(e)!FirstVersionStamp
  <2> SUFFICES ASSUME NEW x \in Configs(e)
               PROVE  \E v \in Versions(e) : /\ v.config = x.id /\ v.created = x.created
                                             /\ \A w \in Versions(e) : w.config = x.id => v.id <= w.id
    BY Zenon DEF M!FirstVersionStamp
  <2>1. PICK y \in Configs(d) : y.id = x.id /\ y.created = x.created
    OBVIOUS
  <2>2. PICK v \in Versions(d) : /\ v.config = y.id /\ v.created = y.created
                                 /\ \A w \in Versions(d) : w.config = y.id => v.id <= w.id
    BY DEF M!IInv, M!ConfigInv, M!FirstVersionStamp
  <2> QED
    BY <1>1, <2>1, <2>2
<1>9. M(e)!NoOrphans
  BY <1>2 DEF M!IInv, M!NoOrphans, M!Ids
<1> QED
  BY <1>3, <1>4, <1>5, <1>6, <1>7, <1>8, <1>9 DEF M!IInv, M!ConfigInv

\* What an upgrade is for.
LEMMA UpgradedFacts ==
  ASSUME NEW d, Shaped(d)
  PROVE  /\ Upgraded(d).inode = d.inode /\ Upgraded(d).dirs = d.dirs
         /\ Upgraded(d).dirAcl = d.dirAcl /\ Upgraded(d).configAcl = d.configAcl
         /\ Configs(Upgraded(d)) = ConfigsOf(d)
         /\ Versions(Upgraded(d)) = VersionsOf(d)
<1> DEFINE conf(c) == [c EXCEPT !.current = IF @ = Null THEN c.id ELSE @, !.size = 0]
           cont(v) == [v EXCEPT !.config = IF "config_id" \in d.contentColumns
                                           THEN @ ELSE v.id,
                                !.size = Len(v.data)]
<1>1. /\ Upgraded(d).inode = d.inode /\ Upgraded(d).dirs = d.dirs
      /\ Upgraded(d).dirAcl = d.dirAcl /\ Upgraded(d).configAcl = d.configAcl
      /\ Upgraded(d).configs = {conf(c) : c \in d.configs}
      /\ Upgraded(d).contents = {cont(v) : v \in d.contents}
  BY DEF Upgraded, Shaped, IsDatabase, IsFile
<1>2. ASSUME NEW c \in d.configs
      PROVE  /\ conf(c).id = c.id /\ conf(c).path = c.path /\ conf(c).name = c.name
             /\ conf(c).current = IF c.current = Null THEN c.id ELSE c.current
             /\ conf(c).created = c.created /\ conf(c).updated = c.updated
  BY DEF Shaped, IsUpgradable, IsConfig
<1>3. ASSUME NEW v \in d.contents
      PROVE  /\ cont(v).id = v.id
             /\ cont(v).config = IF "config_id" \in d.contentColumns THEN v.config ELSE v.id
             /\ cont(v).created = v.created
             /\ cont(v).data = v.data /\ cont(v).size = Len(v.data)
  BY DEF Shaped, IsDatabase, IsRow
<1> HIDE DEF conf, cont
<1>4. Configs(Upgraded(d)) = ConfigsOf(d)
  BY <1>1, <1>2 DEF Configs, ConfigsOf
<1>5. Versions(Upgraded(d)) = VersionsOf(d)
  BY <1>1, <1>3 DEF Versions, VersionsOf
<1> QED
  BY <1>1, <1>4, <1>5

LEMMA SameMeaning ==
  ASSUME NEW d, NEW e, Shaped(d), Shaped(e), M(Upgraded(d))!IInv,
         d.inode = e.inode, d.dirs = e.dirs, d.dirAcl = e.dirAcl, d.configAcl = e.configAcl,
         ConfigsOf(d) = ConfigsOf(e), VersionsOf(d) = VersionsOf(e)
  PROVE  M(Upgraded(e))!IInv /\ Means(e) = Means(d)
<1>1. PICK x, y : x = Upgraded(d) /\ y = Upgraded(e)
  OBVIOUS
<1>2. M(y)!IInv
  BY <1>1, UpgradedFacts, SameRows
<1>3. Means(e) = Means(d)
  BY DEF Means
<1> QED
  BY <1>1, <1>2, <1>3

\* An id is never NULL.
LEMMA IdNotNull ==
  ASSUME NEW d, Shaped(d), M(Upgraded(d))!IInv, NEW c \in d.configs
  PROVE  c.id # Null
<1>1. PICK x : x = Upgraded(d)
  OBVIOUS
<1>2. PICK b \in Configs(x) : b.id = c.id
  <2>1. [id |-> c.id, path |-> c.path, name |-> c.name,
         current |-> IF c.current = Null THEN c.id ELSE c.current,
         created |-> c.created, updated |-> c.updated] \in ConfigsOf(d)
    BY DEF ConfigsOf
  <2> QED
    BY <1>1, <2>1, UpgradedFacts
<1>3. b.id \in 1 .. x.inode
  BY <1>1, <1>2 DEF M!IInv, M!InodesDistinct, M!Ids
<1> QED
  BY <1>2, <1>3 DEF Null

\* With the columns there and no NULL left, a database is what it means.
LEMMA UpgradedIsSame ==
  ASSUME NEW d, Shaped(d), {"config_id", "content_size"} \subseteq d.contentColumns,
         \A c \in d.configs : c.current # Null
  PROVE  ConfigsOf(d) = Configs(d) /\ VersionsOf(d) = Versions(d)
BY DEF ConfigsOf, Configs, VersionsOf, Versions, Shaped, IsDatabase

-----------------------------------------------------------------------------
(* Statements *)

LEMMA StatementFields ==
  /\ \A t, c : Add(t, c).do = "add" /\ Add(t, c).table = t /\ Add(t, c).column = c
  /\ \A what : Do(what).do = what
BY DEF Add, Do

\* A table that was not there had no rows, and the new one has every column.
LEMMA CreateMeans ==
  ASSUME Holds(db), IsUpgradable(db), M(Upgraded(db))!IInv, NEW t,
         db' = CreateTable(db, t), Holds(db)'
  PROVE  IsUpgradable(db)' /\ M(Upgraded(db))!IInv' /\ Means(db)' = Means(db)
<1>1. CASE t \in db.tables
  BY <1>1 DEF CreateTable
<1>2. CASE t \notin db.tables
  <2>1. /\ db'.inode = db.inode /\ db'.dirs = db.dirs /\ db'.dirAcl = db.dirAcl
        /\ db'.configs = db.configs /\ db'.configAcl = db.configAcl
        /\ db'.contents = db.contents /\ db'.tables = db.tables \cup {t}
        /\ db'.configColumns = IF t = "config" THEN ConfigColumns ELSE db.configColumns
        /\ db'.contentColumns = IF t = "config_content" THEN ContentColumns
                                                        ELSE db.contentColumns
    BY <1>2 DEF CreateTable, Holds, IsDatabase, IsFile
  <2>2. IsUpgradable(db')
    BY <1>2, <2>1 DEF IsUpgradable, ConfigColumns, ContentColumns
  <2>3. t = "config_content" => db.contents = {}
    BY <1>2 DEF Holds, IsDatabase
  <2>4. ConfigsOf(db) = ConfigsOf(db') /\ VersionsOf(db) = VersionsOf(db')
    BY <2>1, <2>3 DEF ConfigsOf, VersionsOf
  <2>5. Shaped(db) /\ Shaped(db')
    BY <2>2 DEF Shaped, Holds
  <2> QED
    BY <2>1, <2>2, <2>4, <2>5, SameMeaning
<1> QED
  BY <1>1, <1>2

\* A flat migration does what it is for, whether or not it was done, and undoes
\* nothing.
LEMMA FlatMeans ==
  ASSUME Holds(db), IsUpgradable(db), M(Upgraded(db))!IInv, NEW s \in Statements,
         {"config", "config_content"} \subseteq db.tables,
         ~ Broken(s, db),
         db' = IF Duplicate(s, db) THEN db ELSE Result(s, db), Holds(db)'
  PROVE  /\ IsUpgradable(db)' /\ M(Upgraded(db))!IInv' /\ Means(db)' = Means(db)
         /\ db'.tables = db.tables
         /\ Done(db', s)
         /\ \A r \in Statements : Done(db, r) => Done(db', r)
<1>1. CASE Duplicate(s, db)
  <2>1. Done(db, s)
    BY <1>1 DEF Duplicate, Done
  <2> QED
    BY <1>1, <2>1
<1>2. CASE s = Do("backfillCurrent")
  <2> DEFINE filled(c) == IF c.current = Null THEN [c EXCEPT !.current = c.id] ELSE c
  <2>1. db' = BackfillCurrent(db)
    BY <1>2 DEF Do, Duplicate, Result
  <2>2. /\ db'.configs = {filled(c) : c \in db.configs}
        /\ db'.inode = db.inode /\ db'.dirs = db.dirs /\ db'.dirAcl = db.dirAcl
        /\ db'.configAcl = db.configAcl /\ db'.contents = db.contents
        /\ db'.tables = db.tables /\ db'.configColumns = db.configColumns
        /\ db'.contentColumns = db.contentColumns
    BY <2>1 DEF BackfillCurrent, Holds, IsDatabase, IsFile
  <2>3. ASSUME NEW c \in db.configs
        PROVE  /\ IsConfig(filled(c)) /\ filled(c).id = c.id
               /\ filled(c).path = c.path /\ filled(c).name = c.name
               /\ filled(c).current = IF c.current = Null THEN c.id ELSE c.current
               /\ filled(c).created = c.created /\ filled(c).updated = c.updated
               /\ filled(c).current # Null
    <3>1. c.id # Null
      BY IdNotNull DEF Shaped, Holds
    <3>2. IsConfig(c)
      BY DEF IsUpgradable
    <3> QED
      BY <3>1, <3>2 DEF IsConfig
  <2> HIDE DEF filled
  <2>4. IsUpgradable(db')
    BY <2>2, <2>3 DEF IsUpgradable
  <2>5. ConfigsOf(db) = ConfigsOf(db') /\ VersionsOf(db) = VersionsOf(db')
    BY <2>2, <2>3 DEF ConfigsOf, VersionsOf
  <2>6. \A r \in Statements : Done(db, r) \/ r = s => Done(db', r)
    <3>1. \A table : ColumnsOf(db', table) = ColumnsOf(db, table)
      BY <2>2 DEF ColumnsOf
    <3>2. \A c \in db'.configs : c.current # Null
      BY <2>2, <2>3
    <3>3. s.do # "add"
      BY <1>2 DEF Do
    <3> QED
      BY <3>1, <3>2, <3>3 DEF Done
  <2>7. Shaped(db) /\ Shaped(db')
    BY <2>4 DEF Shaped, Holds
  <2> QED
    BY <2>2, <2>4, <2>5, <2>6, <2>7, SameMeaning
<1>3. CASE ~ Duplicate(s, db) /\ s # Do("backfillCurrent")
  <2>1. PICK t \in {"config", "config_content"},
             c \in {"created_at", "updated_at", "current_content_id"} :
          s = Add(t, c) /\ (t = "config_content" => c # "current_content_id")
    BY <1>3 DEF Statements
  <2>2. db' = AddColumn(db, t, c)
    BY <1>3, <2>1 DEF Add, Result
  <2>3. /\ db'.configs = db.configs
        /\ db'.inode = db.inode /\ db'.dirs = db.dirs /\ db'.dirAcl = db.dirAcl
        /\ db'.configAcl = db.configAcl /\ db'.contents = db.contents
        /\ db'.tables = db.tables
        /\ db'.configColumns = db.configColumns \cup (IF t = "config" THEN {c} ELSE {})
        /\ db'.contentColumns = db.contentColumns \cup (IF t = "config" THEN {} ELSE {c})
    BY <2>1, <2>2 DEF AddColumn, Holds, IsDatabase, IsFile
  <2>4. IsUpgradable(db')
    <3>1. c \in ConfigColumns /\ (t # "config" => c \in ContentColumns)
      BY <2>1 DEF ConfigColumns, ContentColumns
    <3>2. c # "content_size"
      BY <2>1
    <3> QED
      BY <2>3, <3>1, <3>2 DEF IsUpgradable
  <2>5. ConfigsOf(db) = ConfigsOf(db') /\ VersionsOf(db) = VersionsOf(db')
    <3>1. "config_id" \in db'.contentColumns <=> "config_id" \in db.contentColumns
      BY <2>1, <2>3
    <3> QED
      BY <2>3, <3>1 DEF ConfigsOf, VersionsOf
  <2>6. \A r \in Statements : Done(db, r) \/ r = s => Done(db', r)
    BY <2>1, <2>3 DEF Done, ColumnsOf, Add
  <2>7. Shaped(db) /\ Shaped(db')
    BY <2>4 DEF Shaped, Holds
  <2> QED
    BY <2>3, <2>4, <2>5, <2>6, <2>7, SameMeaning
<1> QED
  BY <1>1, <1>2, <1>3

\* A statement of the two transactions changes contents, or drops the size.
LEMMA TxRows ==
  ASSUME NEW d, IsFile(d),
         NEW s \in {Do("rename"), Do("createVersioned"), Do("copy"), Do("dropLegacy"),
                    Add("config_content", "content_size"), Do("backfillSize"), Do("dropSize")}
  PROVE  /\ Result(s, d).inode = d.inode /\ Result(s, d).dirs = d.dirs
         /\ Result(s, d).dirAcl = d.dirAcl /\ Result(s, d).configAcl = d.configAcl
         /\ s # Do("dropSize") => /\ Result(s, d).configs = d.configs
                                  /\ Result(s, d).configColumns = d.configColumns
         /\ s = Do("dropSize") =>
               /\ Result(s, d).configs = {[c EXCEPT !.size = 0] : c \in d.configs}
               /\ Result(s, d).configColumns = d.configColumns \ {"content_size"}
<1>1. CASE s = Do("rename")
  BY <1>1 DEF Do, Result, IsFile
<1>2. CASE s = Do("createVersioned")
  BY <1>2 DEF Do, Result, IsFile
<1>3. CASE s = Do("copy")
  BY <1>3 DEF Do, Result, IsFile
<1>4. CASE s = Do("dropLegacy")
  BY <1>4 DEF Do, Result, IsFile
<1>5. CASE s = Add("config_content", "content_size")
  <2>1. Result(s, d) = AddColumn(d, "config_content", "content_size")
    BY <1>5 DEF Add, Result
  <2>2. Result(s, d) = [d EXCEPT !.contentColumns = @ \cup {"content_size"}]
    BY <2>1 DEF AddColumn
  <2> QED
    BY <1>5, <2>2 DEF IsFile, Add, Do
<1>6. CASE s = Do("backfillSize")
  BY <1>6 DEF Do, Add, Result, IsFile
<1>7. CASE s = Do("dropSize")
  BY <1>7 DEF Do, Add, Result, IsFile
<1> QED
  BY <1>1, <1>2, <1>3, <1>4, <1>5, <1>6, <1>7

\* What is ready is what it means.
LEMMA ReadyIsSound ==
  ASSUME NEW d, Shaped(d), {"config_id", "content_size"} \subseteq d.contentColumns,
         \A s \in Statements : Done(d, s)
  PROVE  M(d)!IInv <=> M(Upgraded(d))!IInv
<1>1. \A c \in d.configs : c.current # Null
  <2>1. Do("backfillCurrent") \in Statements /\ Do("backfillCurrent").do # "add"
    BY StatementFields DEF Statements
  <2> QED
    BY <2>1 DEF Done
<1>2. PICK x : x = Upgraded(d)
  OBVIOUS
<1>3. /\ x.inode = d.inode /\ x.dirs = d.dirs /\ x.dirAcl = d.dirAcl
      /\ x.configAcl = d.configAcl /\ Configs(x) = Configs(d) /\ Versions(x) = Versions(d)
  BY <1>1, <1>2, UpgradedFacts, UpgradedIsSame
<1>4. M(d)!IInv <=> M(x)!IInv
  BY <1>3, SameRows
<1> QED
  BY <1>2, <1>4

-----------------------------------------------------------------------------
(* The stages *)

LEMMA OpenUpgrades ==
  ASSUME UpgradeInv, Open
  PROVE  UpgradeInv'
<1>1. UNCHANGED db /\ stage' = "schema" /\ todo' = schema
  BY DEF Open, Goto
<1>2. Len(schema) = 6 /\ schema[2] = Create("config")
  BY DEF schema
<1>3. ConfigMade'
  BY <1>1, <1>2 DEF ConfigMade
<1> QED
  BY <1>1, <1>3 DEF UpgradeInv, Flattened

LEMMA CloseUpgrades ==
  ASSUME UpgradeInv, Close
  PROVE  UpgradeInv'
BY DEF Close, Goto, UpgradeInv, ConfigMade, Flattened

LEMMA SchemaUpgrades ==
  ASSUME MigrationInv, MigrationInv', UpgradeInv, ExecSchema
  PROVE  UpgradeInv' /\ Means(db)' = Means(db)
<1>1. todo \in Seq(Creates) /\ stage = "schema" /\ Holds(db) /\ Holds(db)'
  BY DEF ExecSchema, MigrationInv
<1>2. CASE todo = <<>>
  <2>1. stage' = "flat" /\ todo' = migrations /\ UNCHANGED db
    BY <1>2 DEF ExecSchema, Goto
  <2>2. /\ migrations \in Seq(Statements)
        /\ \A s \in Statements : \E i \in 1 .. Len(migrations) : migrations[i] = s
    <3>1. /\ Len(migrations) = 6
          /\ migrations[1] = Add("config", "created_at")
          /\ migrations[2] = Add("config", "updated_at")
          /\ migrations[3] = Add("config_content", "created_at")
          /\ migrations[4] = Add("config_content", "updated_at")
          /\ migrations[5] = Add("config", "current_content_id")
          /\ migrations[6] = Do("backfillCurrent")
      BY DEF migrations
    <3>2. migrations \in Seq(Statements)
      BY DEF migrations, Statements
    <3> QED
      BY <3>1, <3>2 DEF Statements
  <2>3. ConfigMade'
    BY <1>1, <1>2, <2>1 DEF UpgradeInv, ConfigMade
  <2> QED
    BY <2>1, <2>2, <2>3 DEF UpgradeInv, Flattened
<1>3. CASE todo # <<>>
  <2>1. stage' = "schema" /\ todo' = Tail(todo) /\ db' = Result(Head(todo), db)
    BY <1>3 DEF ExecSchema, Goto
  <2>2. Head(todo) \in Creates /\ Head(todo) = todo[1]
        /\ Len(Tail(todo)) = Len(todo) - 1 /\ Len(todo) \in Nat
        /\ \A i \in 1 .. Len(Tail(todo)) : Tail(todo)[i] = todo[i + 1]
    BY <1>1, <1>3, HeadTailProperties, EmptySeq
  <2>3. PICK t : Head(todo) = Create(t)
    BY <2>2 DEF Creates
  <2>4. db' = CreateTable(db, t)
    BY <2>1, <2>3, CreateFacts
  <2>5. IsUpgradable(db)' /\ M(Upgraded(db))!IInv' /\ Means(db)' = Means(db)
    BY <1>1, <2>4, CreateMeans DEF UpgradeInv
  <2>6. db'.tables = db.tables \cup {t}
    BY <2>4 DEF CreateTable, Holds, IsDatabase, IsFile, MigrationInv
  <2>7. ConfigMade'
    <3>1. CASE "config" \in db.tables
      BY <2>6, <3>1 DEF ConfigMade
    <3>2. CASE "config" \notin db.tables
      <4>1. PICK i \in 1 .. Len(todo) : todo[i] = Create("config")
        BY <1>1, <3>2 DEF UpgradeInv, ConfigMade
      <4>2. CASE i = 1
        BY <2>2, <2>3, <2>6, <4>1, <4>2, CreateFacts DEF ConfigMade
      <4>3. CASE i # 1
        <5>1. i - 1 \in 1 .. Len(Tail(todo)) /\ Tail(todo)[i - 1] = todo[i]
          BY <1>1, <2>2, <4>1, <4>3
        <5> QED
          BY <2>1, <4>1, <5>1 DEF ConfigMade
      <4> QED
        BY <4>2, <4>3
    <3> QED
      BY <3>1, <3>2
  <2> QED
    BY <2>1, <2>5, <2>7 DEF UpgradeInv, Flattened
<1> QED
  BY <1>2, <1>3

LEMMA FlatUpgrades ==
  ASSUME MigrationInv, MigrationInv', UpgradeInv, ExecFlat
  PROVE  UpgradeInv' /\ Means(db)' = Means(db)
<1>1. /\ todo \in Seq(Statements) /\ stage = "flat" /\ Holds(db) /\ Holds(db)'
      /\ {"config", "config_content"} \subseteq db.tables
      /\ IsUpgradable(db) /\ M(Upgraded(db))!IInv
      /\ \A s \in Statements : Done(db, s) \/ \E i \in 1 .. Len(todo) : todo[i] = s
  BY DEF ExecFlat, MigrationInv, UpgradeInv, TableMade, ConfigMade
<1>2. CASE todo = <<>>
  <2>1. stage' = "inspectVersions" /\ UNCHANGED db
    BY <1>2 DEF ExecFlat, Goto
  <2>2. \A s \in Statements : Done(db, s)
    BY <1>1, <1>2, EmptySeq
  <2> QED
    BY <1>1, <2>1, <2>2 DEF UpgradeInv, ConfigMade
<1>3. CASE todo # <<>>
  <2>1. PICK s : s = Head(todo)
    OBVIOUS
  <2>2. s \in Statements /\ s = todo[1] /\ Tail(todo) \in Seq(Statements)
        /\ Len(Tail(todo)) = Len(todo) - 1 /\ Len(todo) \in Nat
        /\ \A i \in 1 .. Len(Tail(todo)) : Tail(todo)[i] = todo[i + 1]
    BY <1>1, <1>3, <2>1, HeadTailProperties, EmptySeq
  <2>3. /\ stage' = "flat" /\ todo' = Tail(todo)
        /\ db' = IF Duplicate(s, db) THEN db ELSE Result(s, db)
    BY <1>3, <2>1 DEF ExecFlat, Goto
  <2>4. /\ IsUpgradable(db)' /\ M(Upgraded(db))!IInv' /\ Means(db)' = Means(db)
        /\ db'.tables = db.tables
        /\ Done(db', s)
        /\ \A r \in Statements : Done(db, r) => Done(db', r)
    <3>1. CASE Duplicate(s, db)
      <4>1. Done(db, s)
        BY <3>1 DEF Duplicate, Done
      <4> QED
        BY <1>1, <2>3, <3>1, <4>1
    <3>2. CASE ~ Duplicate(s, db)
      <4>1. ~ Broken(s, db)
        BY <1>1, <1>3, <2>1, <3>2 DEF ExecFlat, Stuck, Tolerated
      <4> QED
        BY <1>1, <2>2, <2>3, <4>1, FlatMeans
    <3> QED
      BY <3>1, <3>2
  <2>5. ASSUME NEW r \in Statements
        PROVE  Done(db', r) \/ \E i \in 1 .. Len(Tail(todo)) : Tail(todo)[i] = r
    <3>1. CASE Done(db, r) \/ r = s
      BY <2>4, <3>1
    <3>2. CASE ~ Done(db, r) /\ r # s
      <4>1. PICK i \in 1 .. Len(todo) : todo[i] = r
        BY <1>1, <3>2
      <4>2. i # 1
        BY <2>2, <3>2, <4>1
      <4>3. i - 1 \in 1 .. Len(Tail(todo)) /\ Tail(todo)[i - 1] = todo[i]
        BY <2>2, <4>1, <4>2
      <4> QED
        BY <4>1, <4>3
    <3> QED
      BY <3>1, <3>2
  <2>6. ConfigMade'
    BY <1>1, <2>4 DEF ConfigMade
  <2> QED
    BY <2>2, <2>3, <2>4, <2>5, <2>6 DEF UpgradeInv, Flattened
<1> QED
  BY <1>2, <1>3

LEMMA InspectUpgrades ==
  ASSUME UpgradeInv, Inspect
  PROVE  UpgradeInv'
<1>1. /\ UNCHANGED db /\ work' = db /\ stage \in Flattened /\ stage' \in Flattened
      /\ stage' = "size" => todo' = sizeStatements
      /\ stage' # "flat" /\ stage # "closed" /\ stage # "schema"
  BY DEF Inspect, Goto, Flattened
<1>2. sizeStatements # <<>>
  BY DEF sizeStatements
<1>3. RowsKept' /\ SizesKept'
  BY <1>1 DEF RowsKept, SizesKept
<1> QED
  BY <1>1, <1>2, <1>3 DEF UpgradeInv, ConfigMade

LEMMA IndexUpgrades ==
  ASSUME UpgradeInv, CreateIndex
  PROVE  UpgradeInv'
BY DEF CreateIndex, Goto, UpgradeInv, ConfigMade, Flattened

LEMMA InTxUpgrades ==
  ASSUME MigrationInv, UpgradeInv, ExecInTx
  PROVE  UpgradeInv'
<1>1. /\ IsFile(work) /\ RowsKept /\ SizesKept
      /\ UNCHANGED <<db, stage>> /\ todo # <<>> /\ stage \in {"versions", "size"}
      /\ work' = Result(Head(todo), work) /\ todo' = Tail(todo)
  BY DEF MigrationInv, UpgradeInv, ExecInTx
<1>2. RowsKept' /\ IF stage = "size" /\ todo' = <<>> THEN SizesDropped' ELSE SizesKept'
  <2>1. CASE stage = "versions"
    <3>1. \/ todo = versionStatements
          \/ todo = <<Do("createVersioned"), Do("copy"), Do("dropLegacy")>>
          \/ todo = <<Do("copy"), Do("dropLegacy")>>
          \/ todo = <<Do("dropLegacy")>>
      BY <1>1, <2>1 DEF MigrationInv, Rebuilding
    <3>2. PICK s \in {Do("rename"), Do("createVersioned"), Do("copy"), Do("dropLegacy")} :
             s = Head(todo)
      BY <3>1 DEF versionStatements
    <3>3. s # Do("dropSize")
      BY <3>2, StatementFields
    <3> QED
      BY <1>1, <2>1, <3>2, <3>3, TxRows DEF RowsKept, SizesKept
  <2>2. CASE stage = "size"
    <3>1. \/ todo = <<Add("config_content", "content_size"), Do("backfillSize"), Do("dropSize")>>
          \/ todo = <<Do("backfillSize"), Do("dropSize")>>
          \/ todo = <<Do("dropSize")>>
      BY <1>1, <2>2 DEF MigrationInv, Resizing, sizeStatements
    <3>2. \/ Head(todo) = Add("config_content", "content_size") /\ Tail(todo) # <<>>
          \/ Head(todo) = Do("backfillSize") /\ Tail(todo) # <<>>
          \/ Head(todo) = Do("dropSize") /\ Tail(todo) = <<>>
      <4>1. CASE todo = <<Add("config_content", "content_size"), Do("backfillSize"), Do("dropSize")>>
        BY <4>1
      <4>2. CASE todo = <<Do("backfillSize"), Do("dropSize")>>
        BY <4>2
      <4>3. CASE todo = <<Do("dropSize")>>
        BY <4>3
      <4> QED
        BY <3>1, <4>1, <4>2, <4>3
    <3>3. PICK s : s = Head(todo)
      OBVIOUS
    <3>4. CASE s \in {Add("config_content", "content_size"), Do("backfillSize")}
      <4>1. s # Do("dropSize")
        BY <3>4, StatementFields
      <4> QED
        BY <1>1, <2>2, <3>2, <3>3, <3>4, <4>1, <3>2, TxRows DEF RowsKept, SizesKept
    <3>5. CASE s = Do("dropSize")
      <4>1. s # Do("backfillSize") /\ s # Add("config_content", "content_size")
        BY <3>5, StatementFields
      <4> QED
        BY <1>1, <2>2, <3>2, <3>3, <3>5, <4>1, TxRows DEF RowsKept, SizesKept, SizesDropped
    <3> QED
      BY <3>2, <3>3, <3>4, <3>5
  <2> QED
    BY <1>1, <2>1, <2>2
<1> QED
  BY <1>1, <1>2 DEF UpgradeInv, ConfigMade, Flattened

\* The two transactions write the meaning of the contents out.
LEMMA CommitUpgrades ==
  ASSUME MigrationInv, MigrationInv', UpgradeInv, CommitTx
  PROVE  UpgradeInv' /\ Means(db)' = Means(db)
<1>1. /\ db' = work /\ todo = <<>> /\ stage \in {"versions", "size"}
      /\ stage' = IF stage = "versions" THEN "inspectSize" ELSE "index"
      /\ Holds(db) /\ Holds(db)' /\ RowsKept /\ work.tables = db.tables
      /\ {"config", "config_content"} \subseteq db.tables
      /\ IsUpgradable(db) /\ M(Upgraded(db))!IInv
      /\ \A s \in Statements : Done(db, s)
  BY DEF CommitTx, Goto, MigrationInv, UpgradeInv, TableMade, ConfigMade, Flattened
<1>2. CASE stage = "versions"
  <2> DEFINE copied(v) == [v EXCEPT !.config = v.id]
  <2>1. /\ work.contents = {copied(v) : v \in db.contents}
        /\ work.contentColumns = ContentColumns \ {"content_size"}
        /\ work.configs = db.configs /\ work.configColumns = db.configColumns
        /\ "config_id" \notin db.contentColumns
    BY <1>1, <1>2 DEF MigrationInv, UpgradeInv, SizesKept, Rebuilding, versionStatements,
       ColumnsMade
  <2>2. \A v \in db.contents :
           /\ copied(v).id = v.id /\ copied(v).config = v.id
           /\ copied(v).data = v.data /\ copied(v).created = v.created
    BY <1>1 DEF Holds, IsDatabase, IsRow
  <2> HIDE DEF copied
  <2>3. IsUpgradable(work)
    BY <1>1, <2>1 DEF IsUpgradable, ContentColumns
  <2>4. ConfigsOf(db) = ConfigsOf(work)
    BY <2>1 DEF ConfigsOf
  <2>5. VersionsOf(db) = VersionsOf(work)
    <3>1. "config_id" \in work.contentColumns
      BY <2>1 DEF ContentColumns
    <3> QED
      BY <2>1, <2>2, <3>1 DEF VersionsOf
  <2>6. \A s \in Statements : Done(work, s)
    <3>1. {"created_at", "updated_at"} \subseteq work.contentColumns
      BY <2>1 DEF ContentColumns
    <3> QED
      BY <1>1, <2>1, <3>1, StatementFields DEF Done, ColumnsOf, Statements
  <2>7. M(Upgraded(work))!IInv /\ Means(work) = Means(db)
    <3>1. Shaped(db) /\ Shaped(work)
      BY <1>1, <2>3 DEF Shaped, Holds
    <3> QED
      BY <1>1, <2>4, <2>5, <3>1, SameMeaning DEF RowsKept
  <2>8. M(Upgraded(db))!IInv' /\ Means(db)' = Means(db)
    BY <1>1, <2>7
  <2> QED
    BY <1>1, <1>2, <2>3, <2>6, <2>8 DEF UpgradeInv, ConfigMade, Flattened
<1>3. CASE stage = "size"
  <2> DEFINE sized(v) == [v EXCEPT !.size = Len(v.data)]
             freed(c) == [c EXCEPT !.size = 0]
  <2>1. /\ work.contents = {sized(v) : v \in db.contents}
        /\ work.contentColumns = db.contentColumns \cup {"content_size"}
        /\ work.configs = {freed(c) : c \in db.configs}
        /\ work.configColumns = db.configColumns \ {"content_size"}
    BY <1>1, <1>3 DEF MigrationInv, UpgradeInv, SizesDropped, Resizing, sizeStatements
  <2>2. \A c \in db.configs :
           /\ IsConfig(freed(c)) /\ freed(c).id = c.id
           /\ freed(c).path = c.path /\ freed(c).name = c.name
           /\ freed(c).current = c.current
           /\ freed(c).created = c.created /\ freed(c).updated = c.updated
    BY <1>1 DEF IsUpgradable, IsConfig
  <2>3. \A v \in db.contents :
           /\ sized(v).id = v.id /\ sized(v).config = v.config
           /\ sized(v).data = v.data /\ sized(v).created = v.created
    BY <1>1 DEF Holds, IsDatabase, IsRow
  <2> HIDE DEF sized, freed
  <2>4. IsUpgradable(work)
    BY <1>1, <2>1, <2>2 DEF IsUpgradable, ContentColumns
  <2>5. ConfigsOf(db) = ConfigsOf(work)
    BY <2>1, <2>2 DEF ConfigsOf
  <2>6. VersionsOf(db) = VersionsOf(work)
    <3>1. "config_id" \in work.contentColumns <=> "config_id" \in db.contentColumns
      BY <2>1
    <3> QED
      BY <2>1, <2>3, <3>1 DEF VersionsOf
  <2>7. \A s \in Statements : Done(work, s)
    <3>1. \A s \in Statements : s.do = "add" => s.column # "content_size"
      BY StatementFields DEF Statements
    <3>2. ASSUME NEW s \in Statements, s.do = "add" PROVE Done(work, s)
      BY <1>1, <2>1, <3>1, <3>2 DEF Done, ColumnsOf
    <3>3. ASSUME NEW s \in Statements, s.do # "add" PROVE Done(work, s)
      BY <1>1, <2>1, <2>2, <3>3 DEF Done
    <3> QED
      BY <3>2, <3>3
  <2>8. M(Upgraded(work))!IInv /\ Means(work) = Means(db)
    <3>1. Shaped(db) /\ Shaped(work)
      BY <1>1, <2>4 DEF Shaped, Holds
    <3> QED
      BY <1>1, <2>5, <2>6, <3>1, SameMeaning DEF RowsKept
  <2>9. M(Upgraded(db))!IInv' /\ Means(db)' = Means(db)
    BY <1>1, <2>8
  <2> QED
    BY <1>1, <1>3, <2>4, <2>7, <2>9 DEF UpgradeInv, ConfigMade, Flattened
<1> QED
  BY <1>1, <1>2, <1>3

LEMMA WriteUpgrades ==
  ASSUME MigrationInv, MigrationInv', ProcInv, UpgradeInv,
         NEW net, NEW config \in db.configs, NEW data \in Data, NEW now \in Clock,
         Write(net, config, data, now)
  PROVE  UpgradeInv'
<1>1. /\ stage = "ready" /\ stage' = "ready" /\ db.inode < MaxInode
      /\ Holds(db) /\ Holds(db)' /\ IsUpgradable(db) /\ Shaped(db) /\ M(Upgraded(db))!IInv
      /\ {"config", "config_content"} \subseteq db.tables
      /\ {"config_id", "content_size"} \subseteq db.contentColumns
      /\ \A s \in Statements : Done(db, s)
  BY DEF Write, ProcInv, MigrationInv, UpgradeInv, TableMade, ConfigMade, ColumnsMade,
         Flattened, Shaped, Holds
<1>2. M(db)!IInv
  BY <1>1, ReadyIsSound
<1>3. PICK e, n, newConfig, newContent :
         /\ e = db' /\ n = db.inode + 1
         /\ newConfig = [config EXCEPT !.current = n, !.updated = now]
         /\ newContent = [id |-> n, config |-> config.id, data |-> data,
                          size |-> Len(data), created |-> now]
  OBVIOUS
<1>4. /\ e.inode = n /\ e.dirs = db.dirs /\ e.dirAcl = db.dirAcl
      /\ e.configAcl = db.configAcl /\ e.tables = db.tables
      /\ e.configColumns = db.configColumns /\ e.contentColumns = db.contentColumns
      /\ e.configs = (db.configs \ {config}) \cup {newConfig}
      /\ e.contents = db.contents \cup {newContent}
  BY <1>1, <1>3 DEF Write, Holds, IsDatabase, IsFile
<1>5. /\ IsConfig(newConfig) /\ newConfig.id = config.id /\ newConfig.path = config.path
      /\ newConfig.name = config.name /\ newConfig.created = config.created
      /\ newConfig.current = n /\ newConfig.updated = now
  <2>1. IsConfig(config)
    BY <1>1 DEF IsUpgradable
  <2> QED
    BY <1>3, <2>1 DEF IsConfig
<1>6. IsUpgradable(e)
  <2>1. \A b, c \in e.configs : b.id = c.id => b = c
    BY <1>1, <1>4, <1>5 DEF IsUpgradable
  <2> QED
    BY <1>1, <1>4, <1>5, <2>1 DEF IsUpgradable
<1>7. n \in Nat /\ n # Null /\ n <= MaxInode
  BY <1>1, <1>2, <1>3, SizeAssumption DEF M!IInv, M!TypeOK, Null
<1>8. \A s \in Statements : Done(e, s)
  BY <1>1, <1>4, <1>5, <1>7 DEF Done, ColumnsOf
<1>9. PICK c, b, new :
         /\ c = [id |-> config.id, path |-> config.path, name |-> config.name,
                 current |-> config.current, created |-> config.created,
                 updated |-> config.updated]
         /\ b = [id |-> config.id, path |-> config.path, name |-> config.name,
                 current |-> n, created |-> config.created, updated |-> now]
         /\ new = [id |-> n, config |-> config.id, created |-> now,
                   blob |-> [data |-> data, size |-> Len(data)]]
  OBVIOUS
<1>10. c \in Configs(db) /\ Configs(e) = (Configs(db) \ {c}) \cup {b}
  <2>1. PICK g : g = [f \in db.configs \cup {newConfig} |->
                        [id |-> f.id, path |-> f.path, name |-> f.name,
                         current |-> f.current, created |-> f.created,
                         updated |-> f.updated]]
    OBVIOUS
  <2>2. /\ Configs(db) = {g[f] : f \in db.configs}
        /\ Configs(e) = {g[f] : f \in (db.configs \ {config}) \cup {newConfig}}
    BY <1>4, <2>1 DEF Configs
  <2>3. g[config] = c /\ g[newConfig] = b
    BY <1>5, <1>9, <2>1
  <2>4. \A f \in db.configs : g[f] = c => f = config
    <3>1. \A f \in db.configs : g[f].id = f.id
      BY <2>1
    <3>2. c.id = config.id
      BY <1>9
    <3> QED
      BY <1>1, <3>1, <3>2 DEF IsUpgradable
  <2> QED
    BY <2>2, <2>3, <2>4
<1>11. Versions(e) = Versions(db) \cup {new}
  <2>1. new = [id |-> newContent.id, config |-> newContent.config,
               created |-> newContent.created,
               blob |-> [data |-> newContent.data, size |-> newContent.size]]
    BY <1>3, <1>9
  <2> QED
    BY <1>4, <2>1 DEF Versions
<1>12. M(e)!IInv
  <2>1. c \in M(db)!ConfigRow
    BY <1>2, <1>10 DEF M!IInv, M!TypeOK
  <2>2. b \in M(db)!ConfigRow
    BY <1>7, <1>9, <2>1 DEF M!ConfigRow
  <2>3. new \in [id: Nat, config: Nat, created: Clock, blob: [data: Data, size: Size]]
    BY <1>7, <1>9, <2>1, SizeAssumption DEF M!ConfigRow
  <2>4. /\ new.id = n /\ new.config = c.id /\ b.current = n /\ b.id = c.id
        /\ b.path = c.path /\ b.name = c.name /\ b.created = c.created
    BY <1>9
  <2> QED
    BY <1>2, <1>3, <1>4, <1>7, <1>10, <1>11, <2>2, <2>3, <2>4, VersionAdded
<1>13. M(Upgraded(e))!IInv
  <2>1. Shaped(e)
    BY <1>1, <1>3, <1>6 DEF Shaped, Holds
  <2> QED
    BY <1>1, <1>4, <1>8, <1>12, <2>1, ReadyIsSound
<1>14. IsUpgradable(db)' /\ M(Upgraded(db))!IInv' /\ \A s \in Statements : Done(db', s)
  BY <1>3, <1>6, <1>8, <1>13
<1> QED
  BY <1>1, <1>3, <1>4, <1>14 DEF UpgradeInv, ConfigMade, Flattened

-----------------------------------------------------------------------------
(* The theorems *)

LEMMA UpgradeInvInit == ServerInit => UpgradeInv
BY GenerationAssumption
DEF ServerInit, MigrationInit, UpgradeInv, ConfigMade, Flattened

LEMMA UpgradeInvStep ==
  MigrationInv /\ MigrationInv' /\ ProcInv /\ UpgradeInv /\ [ServerNext]_serverVars
      => UpgradeInv'
<1> SUFFICES ASSUME MigrationInv, MigrationInv', ProcInv, UpgradeInv, [ServerNext]_serverVars
             PROVE  UpgradeInv'
  OBVIOUS
<1>1. ASSUME UNCHANGED migrationVars PROVE UpgradeInv'
  BY <1>1 DEF migrationVars, UpgradeInv, ConfigMade, RowsKept, SizesKept, SizesDropped
<1>2. CASE UNCHANGED serverVars
  BY <1>1, <1>2 DEF serverVars
<1>3. CASE Connect
  BY <1>3, OpenUpgrades DEF Connect
<1>4. CASE Boot
  BY <1>4, SchemaUpgrades, FlatUpgrades, InspectUpgrades, InTxUpgrades, CommitUpgrades,
     IndexUpgrades
  DEF Boot, NewStore
<1>5. CASE BootFails \/ JoinFirstFails \/ ListenFails \/ Exit \/ Crash
  BY <1>5, CloseUpgrades DEF BootFails, JoinFirstFails, ListenFails, Exit, Crash, Gone
<1>6. CASE JoinFirst \/ Listen \/ StopFirst \/ Stopped \/ Signal
  BY <1>1, <1>6 DEF JoinFirst, Listen, StopFirst, Stopped, Signal
<1>7. CASE SecondFails
  BY <1>1, <1>7 DEF SecondFails, Turn
<1>8. CASE \E n \in Tailnet : Goroutine(n) \/ ServeFails(n) \/ Intercept(n) \/ Return(n)
  BY <1>1, <1>8 DEF Goroutine, Serve, Drained, JoinSecond, ListenSecond, StopSecond,
                    SecondFails, Turn, ServeFails, Intercept, Return
<1>9. CASE \E n \in Tailnet, addr \in Addr, claimed \in Claims : Arrive(n, addr, claimed)
  BY <1>1, <1>9 DEF Arrive
<1>10. CASE \E n \in Tailnet, config \in db.configs, data \in Data, now \in Clock :
              Write(n, config, data, now)
  BY <1>10, WriteUpgrades
<1> QED
  BY <1>2, <1>3, <1>4, <1>5, <1>6, <1>7, <1>8, <1>9, <1>10, Zenon DEF ServerNext, Process

LEMMA UntilReady ==
  ASSUME MigrationInv, MigrationInv', ProcInv, UpgradeInv, [ServerNext]_serverVars,
         stage # "ready"
  PROVE  Means(db)' = Means(db)
<1>1. ASSUME UNCHANGED db PROVE Means(db)' = Means(db)
  BY <1>1
<1>2. CASE Boot
  BY <1>1, <1>2, SchemaUpgrades, FlatUpgrades, CommitUpgrades
  DEF Boot, NewStore, Inspect, ExecInTx, CreateIndex
<1>3. ASSUME NEW n, NEW config, NEW data, NEW now, Write(n, config, data, now) PROVE FALSE
  BY <1>3 DEF Write, ProcInv
<1>4. CASE UNCHANGED serverVars
  BY <1>1, <1>4 DEF serverVars, migrationVars
<1>5. CASE ServerNext /\ ~ Boot
  BY <1>1, <1>3, <1>5
  DEF ServerNext, Process, Goroutine, Connect, Open, BootFails, JoinFirstFails, ListenFails,
      Exit, Crash, Gone, Close, JoinFirst, Listen, StopFirst, Stopped, Signal, SecondFails,
      Serve, Drained, JoinSecond, ListenSecond, StopSecond, Turn, ServeFails, Intercept, Return,
      Arrive, migrationVars
<1> QED
  BY <1>2, <1>4, <1>5

\* From any generation of the database on, what the file means in the current schema
\* is a database Store could have written: no statement of the schema, the flat
\* migrations and the two transactions changes it, wherever the process ends, and a
\* write while serving adds a version to it.
THEOREM ServerUpgrade == ServerSpec => []UpgradeInv
BY ServerInvariant, ServerMigration, UpgradeInvInit, UpgradeInvStep, PTL DEF ServerSpec

\* No step before the store is ready changes what the file means, whatever it meets.
THEOREM ServerMeaningKept == ServerSpec => MeaningKept
<1>1. MigrationInv /\ MigrationInv' /\ ProcInv /\ UpgradeInv /\ [ServerNext]_serverVars
         => [stage # "ready" => Means(db)' = Means(db)]_serverVars
  BY UntilReady
<1> QED
  BY <1>1, ServerInvariant, ServerMigration, ServerUpgrade, PTL DEF ServerSpec, MeaningKept

\* A store that is ready has the current schema and is one Store could have written:
\* the meaning is written out.
THEOREM ServerServesSound == ServerSpec => []ServesSound
<1>1. MigrationInv /\ UpgradeInv => ServesSound
  <2> SUFFICES ASSUME MigrationInv, UpgradeInv, stage = "ready"
               PROVE  /\ db.configColumns = ConfigColumns
                      /\ db.contentColumns = ContentColumns
                      /\ M(db)!IInv
    BY DEF ServesSound
  <2>1. /\ Shaped(db) /\ IsUpgradable(db) /\ M(Upgraded(db))!IInv
        /\ {"config", "config_content"} \subseteq db.tables
        /\ {"config_id", "content_size"} \subseteq db.contentColumns
        /\ \A s \in Statements : Done(db, s)
    BY DEF MigrationInv, UpgradeInv, TableMade, ConfigMade, ColumnsMade, Flattened, Shaped,
       Holds
  <2>2. /\ {"created_at", "updated_at", "current_content_id"} \subseteq db.configColumns
        /\ {"created_at", "updated_at"} \subseteq db.contentColumns
    <3>1. ASSUME NEW t, NEW c, Add(t, c) \in Statements PROVE c \in ColumnsOf(db, t)
      BY <2>1, <3>1, StatementFields DEF Done
    <3>2. /\ \A c \in {"created_at", "updated_at", "current_content_id"} :
                Add("config", c) \in Statements
          /\ \A c \in {"created_at", "updated_at"} : Add("config_content", c) \in Statements
      BY DEF Statements
    <3> QED
      BY <3>1, <3>2 DEF ColumnsOf
  <2>3. db.configColumns = ConfigColumns /\ db.contentColumns = ContentColumns
    BY <2>1, <2>2 DEF IsUpgradable, ConfigColumns, ContentColumns
  <2> QED
    BY <2>1, <2>3, ReadyIsSound
<1> QED
  BY <1>1, ServerMigration, ServerUpgrade, PTL
=============================================================================
