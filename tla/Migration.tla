----------------------------- MODULE Migration -----------------------------
(***************************************************************************)
(* NewStore of internal/store/sqlite/store.go: the statements that bring a *)
(* database of any earlier shape up to the current schema.  The schema and *)
(* the flat migrations commit statement by statement; the rebuild of       *)
(* config_content and the move of content_size are one transaction each.   *)
(* The process may end between any two statements and start again on what  *)
(* it has left.                                                            *)
(*                                                                         *)
(* db is the file: the columns of the two tables the migrations change and *)
(* the rows of all that matter here.  A row has a value for every column;  *)
(* one its table lacks has the default the ALTER would give it.            *)
(***************************************************************************)
EXTENDS Access, Naturals, Sequences, FiniteSets

CONSTANTS Name, Path, EmptyPath, LikePath, FileName, EmptyName, Data, Size, NoContent,
          AclList, Clock, MaxInode,  \* as in Store
          Generation  \* the databases that may be found

VARIABLES db,     \* what is committed
          work,   \* db as the transaction in progress sees it
          stage,  \* how far NewStore is
          todo,   \* its statements left at this stage
          ever    \* for the properties: the versions ever stored

migrationVars == <<db, work, stage, todo, ever>>

\* What releases of this server leave behind: whole rows, rows only where there is a
\* table, and a size column that holds the length of the content.
IsRow(v) == v = [id |-> v.id, config |-> v.config, data |-> v.data, size |-> v.size,
                 created |-> v.created]
IsFile(d) == d = [inode |-> d.inode, dirs |-> d.dirs, dirAcl |-> d.dirAcl,
                  configs |-> d.configs, configAcl |-> d.configAcl,
                  contents |-> d.contents, legacy |-> d.legacy, tables |-> d.tables,
                  configColumns |-> d.configColumns,
                  contentColumns |-> d.contentColumns,
                  legacyColumns |-> d.legacyColumns]
IsDatabase(d) ==
    /\ IsFile(d)
    /\ \A v \in d.contents : IsRow(v)
    /\ d.contents # {} => "config_content" \in d.tables
    /\ "content_size" \in d.contentColumns => \A v \in d.contents : v.size = Len(v.data)

Null == 0

ConfigColumns == {"id", "current_content_id", "created_at", "updated_at"}
ContentColumns == {"id", "config_id", "content", "content_size", "created_at",
                   "updated_at"}

\* The columns of a table; none when there is no such table.
ColumnsOf(d, table) ==
    CASE table = "config" -> d.configColumns
      [] table = "config_content" -> d.contentColumns
      [] OTHER -> {}

\* Database d as the store sees it.
Configs(d) == {[id |-> c.id, path |-> c.path, name |-> c.name, current |-> c.current,
                created |-> c.created, updated |-> c.updated] : c \in d.configs}
Versions(d) == {[id |-> v.id, config |-> v.config, created |-> v.created,
                 blob |-> [data |-> v.data, size |-> v.size]] : v \in d.contents}
M(d) == INSTANCE Store WITH
    inode <- d.inode, dirs <- d.dirs, dirAcl <- d.dirAcl, configs <- Configs(d),
    configAcl <- d.configAcl, contents <- Versions(d)

\* What d means in the current schema: a content without versions is the only one of
\* the config that has its id, and a size is the length of the content.
Upgraded(d) ==
    [d EXCEPT !.configs = {[c EXCEPT !.current = IF @ = Null THEN c.id ELSE @,
                                     !.size = 0] : c \in @},
              !.contents = {[v EXCEPT !.config = IF "config_id" \in d.contentColumns
                                                 THEN @ ELSE v.id,
                                      !.size = Len(v.data)] : v \in @}]

\* Releases before had the columns of the current one but for the size, which was on
\* the config, and wrote what Store would have written.
IsConfig(c) == c = [id |-> c.id, path |-> c.path, name |-> c.name,
                    current |-> c.current, created |-> c.created,
                    updated |-> c.updated, size |-> c.size]
IsUpgradable(d) ==
    /\ \A c \in d.configs : IsConfig(c)
    /\ \A b, c \in d.configs : b.id = c.id => b = c
    /\ "config" \in d.tables => "id" \in d.configColumns
    /\ d.configColumns \subseteq ConfigColumns \cup {"content_size"}
    /\ "config_content" \in d.tables => {"id", "content"} \subseteq d.contentColumns
    /\ d.contentColumns \subseteq ContentColumns
    /\ "content_size" \in d.configColumns =>
          "config_content" \in d.tables /\ "content_size" \notin d.contentColumns

ASSUME GenerationAssumption == \A d \in Generation : IsDatabase(d) /\ IsUpgradable(d)
ASSUME SizeAssumption == MaxInode \in Nat /\ \A data \in Data : Len(data) \in Size

-----------------------------------------------------------------------------
(* Statements *)

Create(table) == [do |-> "create", table |-> table, column |-> ""]
Add(table, column) == [do |-> "add", table |-> table, column |-> column]
Do(what) == [do |-> what, table |-> "", column |-> ""]

schema == <<Create("inode"), Create("config"), Create("directory"),
            Create("config_content"), Create("config_acl"), Create("directory_acl")>>

migrations == <<Add("config", "created_at"), Add("config", "updated_at"),
                Add("config_content", "created_at"),
                Add("config_content", "updated_at"),
                Add("config", "current_content_id"), Do("backfillCurrent")>>

versionStatements == <<Do("rename"), Do("createVersioned"), Do("copy"), Do("dropLegacy")>>

sizeStatements == <<Add("config_content", "content_size"), Do("backfillSize"),
                    Do("dropSize")>>

\* "duplicate column name", and the errors of a statement whose table or column
\* is not there.
Duplicate(stmt, d) == stmt.do = "add" /\ stmt.column \in ColumnsOf(d, stmt.table)
Broken(stmt, d) ==
    \/ stmt.do = "add" /\ ColumnsOf(d, stmt.table) = {}
    \/ stmt.do = "backfillCurrent" /\ "current_content_id" \notin d.configColumns
    \/ stmt.do = "copy" /\ ~ {"created_at", "updated_at"} \subseteq d.legacyColumns
    \/ stmt.do = "dropSize" /\ "content_size" \notin d.configColumns

\* CREATE TABLE IF NOT EXISTS
CreateTable(d, table) ==
    IF table \in d.tables THEN d
    ELSE [d EXCEPT !.tables = @ \cup {table},
                   !.configColumns = IF table = "config" THEN ConfigColumns ELSE @,
                   !.contentColumns = IF table = "config_content"
                                      THEN ContentColumns ELSE @]

AddColumn(d, table, column) ==
    IF table = "config" THEN [d EXCEPT !.configColumns = @ \cup {column}]
                        ELSE [d EXCEPT !.contentColumns = @ \cup {column}]

\* Altered form: the UPDATE has lost its WHERE.
BackfillCurrent_All(d) ==
    [d EXCEPT !.configs = {[c EXCEPT !.current = c.id] : c \in @}]

\* UPDATE config SET current_content_id = id WHERE current_content_id IS NULL
BackfillCurrent(d) ==
    [d EXCEPT !.configs = {IF c.current = Null THEN [c EXCEPT !.current = c.id] ELSE c :
                              c \in @}]

\* The database after a statement that works.
Result(stmt, d) ==
    CASE stmt.do = "create" -> CreateTable(d, stmt.table)
      [] stmt.do = "add" -> AddColumn(d, stmt.table, stmt.column)
      [] stmt.do = "backfillCurrent" -> BackfillCurrent(d)
      [] stmt.do = "rename" ->
           [d EXCEPT !.legacyColumns = d.contentColumns, !.legacy = d.contents,
                     !.contentColumns = {}, !.contents = {}]
      [] stmt.do = "createVersioned" ->
           [d EXCEPT !.contentColumns = ContentColumns \ {"content_size"}]
      [] stmt.do = "copy" ->
           [d EXCEPT !.contents = {[v EXCEPT !.config = v.id] : v \in d.legacy}]
      [] stmt.do = "dropLegacy" -> [d EXCEPT !.legacyColumns = {}, !.legacy = {}]
      [] stmt.do = "backfillSize" ->
           [d EXCEPT !.contents = {[v EXCEPT !.size = Len(v.data)] : v \in @}]
      [] OTHER ->  \* drop size
           [d EXCEPT !.configColumns = @ \ {"content_size"},
                     !.configs = {[c EXCEPT !.size = 0] : c \in @}]

-----------------------------------------------------------------------------
(* NewStore *)

Goto(place, statements) == stage' = place /\ todo' = statements

\* MustExec(schema), one statement; none of them can fail.
ExecSchema ==
    /\ stage = "schema"
    /\ IF todo = <<>>
       THEN Goto("flat", migrations) /\ UNCHANGED db
       ELSE Goto("schema", Tail(todo)) /\ db' = Result(Head(todo), db)
    /\ UNCHANGED <<work, ever>>

\* Altered form: a column that is there already is an error like any other.
Tolerated_Never(stmt) == FALSE

\* A failed statement NewStore goes on after.
Tolerated(stmt) == Duplicate(stmt, db)

\* NewStore fails for a reason that is in the database.
Stuck ==
    \/ /\ stage = "flat"
       /\ todo # <<>>
       /\ Duplicate(Head(todo), db) \/ Broken(Head(todo), db)
       /\ ~ Tolerated(Head(todo))
    \/ /\ stage \in {"versions", "size"}
       /\ todo # <<>>
       /\ Duplicate(Head(todo), work) \/ Broken(Head(todo), work)
    \/ stage = "index" /\ "config_id" \notin db.contentColumns

\* The flat migrations, one statement.
ExecFlat ==
    /\ stage = "flat"
    /\ ~ Stuck
    /\ IF todo = <<>>
       THEN Goto("inspectVersions", <<>>) /\ UNCHANGED db
       ELSE /\ Goto("flat", Tail(todo))
            /\ db' = IF Duplicate(Head(todo), db) THEN db ELSE Result(Head(todo), db)
    /\ UNCHANGED <<work, ever>>

\* migrateContentVersions and migrateContentSize look at the columns of
\* config_content and begin their transaction, or have nothing to do.
Inspect ==
    /\ \/ /\ stage = "inspectVersions"
          /\ IF "config_id" \in db.contentColumns THEN Goto("inspectSize", <<>>)
             ELSE Goto("versions", versionStatements)
       \/ /\ stage = "inspectSize"
          /\ IF "content_size" \in db.contentColumns THEN Goto("index", <<>>)
             ELSE Goto("size", sizeStatements)
    /\ work' = db
    /\ UNCHANGED <<db, ever>>

\* Altered form: the statement runs on the pool and commits by itself.
ExecInTx_Pool ==
    /\ stage \in {"versions", "size"}
    /\ todo # <<>>
    /\ ~ Stuck
    /\ work' = Result(Head(todo), work)
    /\ db' = Result(Head(todo), work)
    /\ todo' = Tail(todo)
    /\ UNCHANGED <<stage, ever>>

\* A statement of their transaction.
ExecInTx ==
    /\ stage \in {"versions", "size"}
    /\ todo # <<>>
    /\ ~ Stuck
    /\ work' = Result(Head(todo), work)
    /\ todo' = Tail(todo)
    /\ UNCHANGED <<db, stage, ever>>

CommitTx ==
    /\ stage \in {"versions", "size"}
    /\ todo = <<>>
    /\ db' = work
    /\ Goto(IF stage = "versions" THEN "inspectSize" ELSE "index", <<>>)
    /\ UNCHANGED <<work, ever>>

\* CREATE INDEX on config_content.config_id; the store is there.
CreateIndex ==
    /\ stage = "index"
    /\ ~ Stuck
    /\ Goto("ready", <<>>)
    /\ UNCHANGED <<db, work, ever>>

NewStore == ExecSchema \/ ExecFlat \/ Inspect \/ ExecInTx \/ CommitTx \/ CreateIndex

\* The process starts, and ends: a transaction in progress is gone.
Open == Goto("schema", schema) /\ work' = db /\ UNCHANGED <<db, ever>>
Close == Goto("closed", <<>>) /\ work' = db /\ UNCHANGED <<db, ever>>

MigrationInit ==
    /\ db \in Generation
    /\ M(Upgraded(db))!IInv
    /\ work = db
    /\ stage = "closed"
    /\ todo = <<>>
    /\ ever = {[id |-> v.id, data |-> v.data,
                config |-> IF "config_id" \in db.contentColumns THEN v.config ELSE v.id] :
                  v \in db.contents}

=============================================================================
