--------------------------- MODULE StoreTxProofs ---------------------------
(***************************************************************************)
(* The proof that the transactions of StoreTx, taken apart into their      *)
(* statements, do to the committed database what Store says and nothing    *)
(* else, for every set of callers and requests and every database size.    *)
(*                                                                         *)
(* The connection belongs to one caller at a time, so the tables it works  *)
(* on are those on disk with the statements run that are no longer to do:  *)
(* Linked says this for every operation and every point of its program.    *)
(* At the end of the program this is a step of Store, and only a COMMIT    *)
(* there changes the disk.                                                 *)
(***************************************************************************)
EXTENDS StoreTx, StoreProofs

-----------------------------------------------------------------------------
(* The inductive invariant *)

\* A handler in its transaction, on the connection.
InTx(p) == /\ conn = p
           /\ \/ call[p].at = "tx"
              \/ call[p].at = "finish" /\ call[p].code = "OK"

Places == {"idle", "query", "begin", "tx", "finish"}
Codes == {"none", "OK", "Error"}
Statements == {"inode", "directory", "acls", "dropAcls", "dropDirectory", "config",
               "version", "touchConfig", "dropVersions", "dropConfig", "reload"}
Call == [req: Request \cup {NoRequest}, at: Places, todo: Seq(Statements), got: Seq(Nat),
         now: Nat, code: Codes]

\* What a handler is like at each place: it knows what it has come for, takes its
\* inodes in the transaction, and has a statement to run until it is done.
CallOK(c) ==
    /\ c \in Call
    /\ c.at # "idle" => c.req \in Request
    /\ c.at \in {"begin", "tx", "finish"} => c.req.op # "read"
    /\ c.at \in {"query", "begin"} => c.got = <<>>
    /\ c.at = "tx" => c.now \in Clock /\ c.todo # <<>>
    /\ c.at = "finish" /\ c.code = "OK" => c.now \in Clock /\ c.todo = <<>>
CallsOK == /\ call \in [Proc -> Call]
           /\ \A p \in Proc : CallOK(call[p])

\* A call that has changed the database has been answered, with OK, and none of its
\* statements failed; one that has had a failure is on its way to a rollback.
NotedOK ==
    /\ \A p \in changed : /\ p \in Proc /\ p \notin failed
                          /\ call[p].at = "idle" /\ call[p].code = "OK"
    /\ \A p \in failed : /\ p \in Proc
                         /\ \/ call[p].at = "idle"
                            \/ call[p].at = "finish" /\ call[p].code = "Error"

\* What a handler's step leaves in changed.
Notes(p) == changed' = IF disk' = disk THEN changed ELSE changed \cup {p}

\* Tables without a row, and without the versions of a config.
WithoutId(table, id) == {row \in table : row.id # id}
WithoutVersions(table, id) == {v \in table : v.config # id}

\* How far UpdateDirectory has come when todo is left: the tables it works on.
Updating(w, r, todo) ==
    /\ r.id \in Ids(dirs)
    /\ \/ todo = <<"dropAcls", "acls", "reload">> /\ w = disk
       \/ /\ todo = <<"acls", "reload">>
          /\ w = Tables(inode, dirs, Disown(dirAcl, r.id), configs, configAcl, contents)
       \/ /\ todo \in {<<"reload">>, <<>>}
          /\ w = Tables(inode, dirs, ReplaceAcls(dirAcl, r.id, r.acls), configs,
                           configAcl, contents)

Removing(w, r, todo) ==
    /\ \E d \in dirs : d.id = r.id /\ CanDeleteDirectory(d)
    /\ \/ todo = <<"dropAcls", "dropDirectory">> /\ w = disk
       \/ /\ todo = <<"dropDirectory">>
          /\ w = Tables(inode, dirs, Disown(dirAcl, r.id), configs, configAcl, contents)
       \/ /\ todo = <<>>
          /\ w = Tables(inode, WithoutId(dirs, r.id), Disown(dirAcl, r.id),
                           configs, configAcl, contents)

Deleting(w, r, todo) ==
    \/ todo = <<"dropAcls", "dropVersions", "dropConfig">> /\ w = disk
    \/ /\ todo = <<"dropVersions", "dropConfig">>
       /\ w = Tables(inode, dirs, dirAcl, configs, Disown(configAcl, r.id), contents)
    \/ /\ todo = <<"dropConfig">>
       /\ w = Tables(inode, dirs, dirAcl, configs, Disown(configAcl, r.id),
                        WithoutVersions(contents, r.id))
    \/ /\ todo = <<>>
       /\ w = Tables(inode, dirs, dirAcl, WithoutId(configs, r.id),
                        Disown(configAcl, r.id), WithoutVersions(contents, r.id))

\* The rows Upsert makes of a request: config, version.
NewConfig(r, now) == [id |-> inode + 1, path |-> r.path, name |-> r.name,
                      current |-> inode + 2, created |-> now, updated |-> now]
FirstVersion(r, now) == [id |-> inode + 2, config |-> inode + 1, blob |-> r.content,
                         created |-> now]

Inserting(w, r, todo, got, now) ==
    /\ DirectoryExists(r.path)
    /\ ~ \E c \in configs : c.path = r.path /\ c.name = r.name
    /\ \/ /\ todo = <<"inode", "inode", "config", "version", "acls", "reload">>
          /\ w = disk /\ got = <<>>
       \/ /\ todo = <<"inode", "config", "version", "acls", "reload">>
          /\ got = <<inode + 1>>
          /\ w = Tables(inode + 1, dirs, dirAcl, configs, configAcl, contents)
       \/ /\ got = <<inode + 1, inode + 2>>
          /\ inode + 2 <= MaxInode
          /\ \/ /\ todo = <<"config", "version", "acls", "reload">>
                /\ w = Tables(inode + 2, dirs, dirAcl, configs, configAcl, contents)
             \/ /\ todo = <<"version", "acls", "reload">>
                /\ w = Tables(inode + 2, dirs, dirAcl, configs \cup {NewConfig(r, now)},
                                 configAcl, contents)
             \/ /\ todo = <<"acls", "reload">>
                /\ r.content # NoContent
                /\ w = Tables(inode + 2, dirs, dirAcl, configs \cup {NewConfig(r, now)},
                                 configAcl, contents \cup {FirstVersion(r, now)})
             \/ /\ todo \in {<<"reload">>, <<>>}
                /\ r.content # NoContent
                /\ w = Tables(inode + 2, dirs, dirAcl, configs \cup {NewConfig(r, now)},
                                 configAcl \cup AclRows(inode + 1, r.acls),
                                 contents \cup {FirstVersion(r, now)})

\* What update has written of the version and of the config.
NextInode(r) == IF r.content = NoContent THEN inode ELSE inode + 1
NextContents(r, now) ==
    IF r.content = NoContent THEN contents
    ELSE contents \cup {[id |-> inode + 1, config |-> r.id, blob |-> r.content,
                         created |-> now]}
Touched(r, c, now) ==
    IF r.content = NoContent THEN [c EXCEPT !.updated = now]
    ELSE [c EXCEPT !.current = inode + 1, !.updated = now]

Changing(w, r, todo, got, now) ==
    \E c \in configs :
        /\ c.id = r.id /\ CanUpdate(c, r.path, r.name)
        /\ NextInode(r) <= MaxInode \/ w = disk
        /\ \/ /\ todo = <<"inode", "version", "touchConfig", "dropAcls", "acls", "reload">>
              /\ r.content # NoContent
              /\ w = disk /\ got = <<>>
           \/ /\ todo = <<"version", "touchConfig", "dropAcls", "acls", "reload">>
              /\ r.content # NoContent
              /\ got = <<inode + 1>>
              /\ w = Tables(inode + 1, dirs, dirAcl, configs, configAcl, contents)
           \/ /\ todo = <<"touchConfig", "dropAcls", "acls", "reload">>
              /\ r.content # NoContent => got = <<inode + 1>>
              /\ w = Tables(NextInode(r), dirs, dirAcl, configs, configAcl,
                               NextContents(r, now))
           \/ /\ todo = <<"dropAcls", "acls", "reload">>
              /\ w = Tables(NextInode(r), dirs, dirAcl,
                               (configs \ {c}) \cup {Touched(r, c, now)}, configAcl,
                               NextContents(r, now))
           \/ /\ todo = <<"acls", "reload">>
              /\ w = Tables(NextInode(r), dirs, dirAcl,
                               (configs \ {c}) \cup {Touched(r, c, now)},
                               Disown(configAcl, r.id), NextContents(r, now))
           \/ /\ todo \in {<<"reload">>, <<>>}
              /\ w = Tables(NextInode(r), dirs, dirAcl,
                               (configs \ {c}) \cup {Touched(r, c, now)},
                               ReplaceAcls(configAcl, r.id, r.acls), NextContents(r, now))

\* The rows and ACL rows of the levels of D, numbered by f.
LevelRows(D, f) == {[id |-> f[q], full |-> q, parent |-> ParentId(q, f)] : q \in D}
LevelAcls(D, f, acls) == UNION {AclRows(f[q], acls) : q \in D}

\* The levels of D are made, from the top down, with the ids that follow.
Made(full, D, f) ==
    /\ D \subseteq Missing(full)
    /\ f \in [D -> inode + 1 .. inode + Cardinality(D)]
    /\ \A q \in D, m \in Missing(full) : Len(m) < Len(q) => m \in D
    /\ \A q, m \in D : Len(q) < Len(m) => f[q] < f[m]
    /\ inode + Cardinality(D) <= MaxInode

\* How far CreateDirectory has come when it has made the levels of D.
BuiltTo(w, r, todo, got, D, f) ==
    /\ Made(r.full, D, f)
    /\ LET n == inode + Cardinality(D)
           rows == dirs \cup LevelRows(D, f)
           acls == dirAcl \cup LevelAcls(D, f, r.acls)
       IN  \/ /\ todo = <<"inode", "directory", "acls">>
              /\ D # Missing(r.full)
              /\ w = Tables(n, rows, acls, configs, configAcl, contents)
           \/ /\ todo = <<"directory", "acls">>
              /\ D # Missing(r.full)
              /\ n + 1 <= MaxInode
              /\ got # <<>> /\ got[Len(got)] = n + 1
              /\ w = Tables(n + 1, rows, acls, configs, configAcl, contents)
           \/ /\ todo = <<"acls">>
              /\ got # <<>> /\ got[Len(got)] = n
              /\ \E m \in D :
                    /\ f[m] = n
                    /\ w = Tables(n, rows, dirAcl \cup LevelAcls(D \ {m}, f, r.acls),
                                  configs, configAcl, contents)
           \/ /\ todo \in {<<"reload">>, <<>>}
              /\ D = Missing(r.full)
              /\ w = Tables(n, rows, acls, configs, configAcl, contents)

Building(w, r, todo, got) ==
    /\ r.full \notin DirPaths
    /\ \E D \in SUBSET Missing(r.full) :
       \E f \in [D -> inode + 1 .. inode + Cardinality(D)] :
          BuiltTo(w, r, todo, got, D, f)

\* The tables a transaction works on are the committed ones with the statements
\* run that are no longer to do, and what was checked still holds.
Linked(w, c) ==
    CASE c.req.op = "CreateDirectory" -> Building(w, c.req, c.todo, c.got)
      [] c.req.op = "UpdateDirectory" -> Updating(w, c.req, c.todo)
      [] c.req.op = "DeleteDirectory" -> Removing(w, c.req, c.todo)
      [] c.req.op = "CreateConfig" -> Inserting(w, c.req, c.todo, c.got, c.now)
      [] c.req.op = "UpdateConfig" -> Changing(w, c.req, c.todo, c.got, c.now)
      [] OTHER -> Deleting(w, c.req, c.todo)

TxInv == /\ IInv
         /\ CallsOK
         /\ NotedOK
         /\ Isolated
         /\ \A p \in Proc : InTx(p) => Linked(work, call[p])

-----------------------------------------------------------------------------
(* Statements *)

\* Programs of one to six statements: the next one, and the rest.
LEMMA Program1 ==
    \A s : /\ Head(<<s>>) = s /\ Tail(<<s>>) = <<>>
           /\ <<s>> # <<>> /\ (s # "acls" => <<s>> # <<"acls">>)
OBVIOUS

LEMMA Program2 ==
    \A s, t : /\ Head(<<s, t>>) = s /\ Tail(<<s, t>>) = <<t>>
              /\ <<s, t>> # <<>> /\ <<s, t>> # <<"acls">>
OBVIOUS

LEMMA Program3 ==
    \A s, t, u : /\ Head(<<s, t, u>>) = s /\ Tail(<<s, t, u>>) = <<t, u>>
                 /\ <<s, t, u>> # <<>> /\ <<s, t, u>> # <<"acls">>
OBVIOUS

LEMMA Program4 ==
    \A s, t, u, v : /\ Head(<<s, t, u, v>>) = s /\ Tail(<<s, t, u, v>>) = <<t, u, v>>
                    /\ <<s, t, u, v>> # <<>> /\ <<s, t, u, v>> # <<"acls">>
OBVIOUS

LEMMA Program5 ==
    \A s, t, u, v, x : /\ Head(<<s, t, u, v, x>>) = s /\ Tail(<<s, t, u, v, x>>) = <<t, u, v, x>>
                       /\ <<s, t, u, v, x>> # <<>> /\ <<s, t, u, v, x>> # <<"acls">>
OBVIOUS

LEMMA Program6 ==
    \A s, t, u, v, x, y : /\ Head(<<s, t, u, v, x, y>>) = s /\ Tail(<<s, t, u, v, x, y>>) = <<t, u, v, x, y>>
                          /\ <<s, t, u, v, x, y>> # <<>> /\ <<s, t, u, v, x, y>> # <<"acls">>
OBVIOUS

\* Every operation has something to do.
LEMMA ProgramType ==
    ASSUME NEW r
    PROVE  Program(r) \in Seq(Statements) /\ Program(r) # <<>>
<1>1. /\ <<"reload">> \in Seq(Statements)
      /\ <<"inode", "directory", "acls">> \in Seq(Statements)
      /\ <<"dropAcls", "acls", "reload">> \in Seq(Statements)
      /\ <<"dropAcls", "dropDirectory">> \in Seq(Statements)
      /\ <<"inode", "inode", "config", "version", "acls", "reload">> \in Seq(Statements)
      /\ <<"touchConfig", "dropAcls", "acls", "reload">> \in Seq(Statements)
      /\ <<"inode", "version", "touchConfig", "dropAcls", "acls", "reload">> \in Seq(Statements)
      /\ <<"dropAcls", "dropVersions", "dropConfig">> \in Seq(Statements)
  BY DEF Statements
<1>2. Program(r) # <<>>
  BY Program1, Program2, Program3, Program4, Program6 DEF Program
<1>3. Program(r) \in Seq(Statements)
  BY <1>1 DEF Program
<1> QED BY <1>2, <1>3

\* Each statement changes one table.
LEMMA WorkTables ==
    ASSUME NEW c, NEW n, NEW ds, NEW da, NEW cs, NEW ca, NEW ct,
           work = Tables(n, ds, da, cs, ca, ct)
    PROVE  /\ work.inode = n /\ work.dirs = ds /\ work.dirAcl = da
           /\ work.configs = cs /\ work.configAcl = ca /\ work.contents = ct
BY DEF Tables

LEMMA EffectInode ==
    ASSUME NEW c, NEW n, NEW ds, NEW da, NEW cs, NEW ca, NEW ct,
           work = Tables(n, ds, da, cs, ca, ct),
           Head(c.todo) = "inode"
    PROVE  Effect(c) = Tables(n + 1, ds, da, cs, ca, ct)
BY DEF Effect, Tables

LEMMA EffectReload ==
    ASSUME NEW c, NEW n, NEW ds, NEW da, NEW cs, NEW ca, NEW ct,
           work = Tables(n, ds, da, cs, ca, ct),
           Head(c.todo) = "reload"
    PROVE  Effect(c) = work
BY DEF Effect

LEMMA WithDirAcls ==
    ASSUME NEW c, NEW n, NEW ds, NEW da, NEW cs, NEW ca, NEW ct,
           work = Tables(n, ds, da, cs, ca, ct),
           NEW rows, OnDirectory(c.req)
    PROVE  /\ WithAcls(c.req, rows) = Tables(n, ds, rows, cs, ca, ct)
           /\ AclTable(c.req) = da
BY DEF WithAcls, AclTable, Tables

LEMMA WithConfigAcls ==
    ASSUME NEW c, NEW n, NEW ds, NEW da, NEW cs, NEW ca, NEW ct,
           work = Tables(n, ds, da, cs, ca, ct),
           NEW rows, ~ OnDirectory(c.req)
    PROVE  /\ WithAcls(c.req, rows) = Tables(n, ds, da, cs, rows, ct)
           /\ AclTable(c.req) = ca
BY DEF WithAcls, AclTable, Tables

LEMMA EffectDirAcls ==
    ASSUME NEW c, NEW n, NEW ds, NEW da, NEW cs, NEW ca, NEW ct,
           work = Tables(n, ds, da, cs, ca, ct),
           Head(c.todo) = "acls", OnDirectory(c.req)
    PROVE  Effect(c) = Tables(n, ds, da \cup AclRows(Owner(c), c.req.acls), cs, ca, ct)
<1>1. Effect(c) = WithAcls(c.req, AclTable(c.req) \cup AclRows(Owner(c), c.req.acls))
  BY DEF Effect
<1>2. AclTable(c.req) = da
  BY WithDirAcls
<1> QED BY <1>1, <1>2, WithDirAcls

LEMMA EffectConfigAcls ==
    ASSUME NEW c, NEW n, NEW ds, NEW da, NEW cs, NEW ca, NEW ct,
           work = Tables(n, ds, da, cs, ca, ct),
           Head(c.todo) = "acls", ~ OnDirectory(c.req)
    PROVE  Effect(c) = Tables(n, ds, da, cs, ca \cup AclRows(Owner(c), c.req.acls), ct)
<1>1. Effect(c) = WithAcls(c.req, AclTable(c.req) \cup AclRows(Owner(c), c.req.acls))
  BY DEF Effect
<1>2. AclTable(c.req) = ca
  BY WithConfigAcls
<1> QED BY <1>1, <1>2, WithConfigAcls

LEMMA EffectDirDrop ==
    ASSUME NEW c, NEW n, NEW ds, NEW da, NEW cs, NEW ca, NEW ct,
           work = Tables(n, ds, da, cs, ca, ct),
           Head(c.todo) = "dropAcls", OnDirectory(c.req)
    PROVE  Effect(c) = Tables(n, ds, Disown(da, Owner(c)), cs, ca, ct)
<1>1. Effect(c) = WithAcls(c.req, Disown(AclTable(c.req), Owner(c)))
  BY DEF Effect
<1>2. AclTable(c.req) = da
  BY WithDirAcls
<1>3. ASSUME NEW rows
      PROVE  WithAcls(c.req, rows) = Tables(n, ds, rows, cs, ca, ct)
  BY WithDirAcls
<1> QED BY <1>1, <1>2, <1>3

LEMMA EffectConfigDrop ==
    ASSUME NEW c, NEW n, NEW ds, NEW da, NEW cs, NEW ca, NEW ct,
           work = Tables(n, ds, da, cs, ca, ct),
           Head(c.todo) = "dropAcls", ~ OnDirectory(c.req)
    PROVE  Effect(c) = Tables(n, ds, da, cs, Disown(ca, Owner(c)), ct)
<1>1. Effect(c) = WithAcls(c.req, Disown(AclTable(c.req), Owner(c)))
  BY DEF Effect
<1>2. AclTable(c.req) = ca
  BY WithConfigAcls
<1>3. ASSUME NEW rows
      PROVE  WithAcls(c.req, rows) = Tables(n, ds, da, cs, rows, ct)
  BY WithConfigAcls
<1> QED BY <1>1, <1>2, <1>3

\* The row of the level CreateDirectory comes to, and of what CreateConfig and
\* UpdateConfig write.
LevelRow(c) == [id |-> c.got[Len(c.got)], full |-> Level1(c.req.full),
                parent |-> RowOf(Level1(c.req.full))]
ConfigRowOf(c) == [id |-> c.got[1], path |-> c.req.path, name |-> c.req.name,
                   current |-> c.got[2], created |-> c.now, updated |-> c.now]
VersionRowOf(c) == [id |-> c.got[Len(c.got)], config |-> Owner(c),
                    blob |-> c.req.content, created |-> c.now]
TouchedRow(c, row) ==
    [row EXCEPT !.updated = c.now,
                !.current = IF c.req.content = NoContent THEN @ ELSE c.got[Len(c.got)]]

LEMMA EffectDirectory ==
    ASSUME NEW c, NEW n, NEW ds, NEW da, NEW cs, NEW ca, NEW ct,
           work = Tables(n, ds, da, cs, ca, ct),
           Head(c.todo) = "directory"
    PROVE  Effect(c) = Tables(n, ds \cup {LevelRow(c)}, da, cs, ca, ct)
<1>1. Effect(c) = [work EXCEPT !.dirs = @ \cup {LevelRow(c)}]
  BY DEF Effect, LevelRow
<1>2. ASSUME NEW rows
      PROVE  [work EXCEPT !.dirs = @ \cup rows] = Tables(n, ds \cup rows, da, cs, ca, ct)
  BY DEF Tables
<1> QED BY <1>1, <1>2

LEMMA EffectConfig ==
    ASSUME NEW c, NEW n, NEW ds, NEW da, NEW cs, NEW ca, NEW ct,
           work = Tables(n, ds, da, cs, ca, ct),
           Head(c.todo) = "config"
    PROVE  Effect(c) = Tables(n, ds, da, cs \cup {ConfigRowOf(c)}, ca, ct)
<1>1. Effect(c) = [work EXCEPT !.configs = @ \cup {ConfigRowOf(c)}]
  BY DEF Effect, ConfigRowOf
<1>2. ASSUME NEW rows
      PROVE  [work EXCEPT !.configs = @ \cup rows] = Tables(n, ds, da, cs \cup rows, ca, ct)
  BY DEF Tables
<1> QED BY <1>1, <1>2

LEMMA EffectVersion ==
    ASSUME NEW c, NEW n, NEW ds, NEW da, NEW cs, NEW ca, NEW ct,
           work = Tables(n, ds, da, cs, ca, ct),
           Head(c.todo) = "version"
    PROVE  Effect(c) = Tables(n, ds, da, cs, ca, ct \cup {VersionRowOf(c)})
<1>1. Effect(c) = [work EXCEPT !.contents = @ \cup {VersionRowOf(c)}]
  BY DEF Effect, VersionRowOf
<1>2. ASSUME NEW rows
      PROVE  [work EXCEPT !.contents = @ \cup rows] = Tables(n, ds, da, cs, ca, ct \cup rows)
  BY DEF Tables
<1> QED BY <1>1, <1>2

LEMMA EffectTouch ==
    ASSUME NEW c, NEW n, NEW ds, NEW da, NEW cs, NEW ca, NEW ct,
           work = Tables(n, ds, da, cs, ca, ct),
           Head(c.todo) = "touchConfig"
    PROVE  Effect(c) =
             Tables(n, ds, da,
                    {IF row.id = c.req.id THEN TouchedRow(c, row) ELSE row : row \in cs},
                    ca, ct)
<1>1. ASSUME NEW s
      PROVE  [work EXCEPT !.configs = s] = Tables(n, ds, da, s, ca, ct)
  BY DEF Tables
<1> DEFINE rows == {IF row.id = c.req.id THEN TouchedRow(c, row) ELSE row :
                       row \in work.configs}
<1>2. Effect(c) = [work EXCEPT !.configs = rows]
  BY DEF Effect, TouchedRow
<1>3. work.configs = cs
  BY WorkTables
<1> QED BY <1>1, <1>2, <1>3

LEMMA EffectDropDirectory ==
    ASSUME NEW c, NEW n, NEW ds, NEW da, NEW cs, NEW ca, NEW ct,
           work = Tables(n, ds, da, cs, ca, ct),
           Head(c.todo) = "dropDirectory"
    PROVE  Effect(c) = Tables(n, WithoutId(ds, c.req.id), da, cs, ca, ct)
BY DEF Effect, Tables, WithoutId

LEMMA EffectDropVersions ==
    ASSUME NEW c, NEW n, NEW ds, NEW da, NEW cs, NEW ca, NEW ct,
           work = Tables(n, ds, da, cs, ca, ct),
           Head(c.todo) = "dropVersions"
    PROVE  Effect(c) = Tables(n, ds, da, cs, ca, WithoutVersions(ct, c.req.id))
BY DEF Effect, Tables, WithoutVersions

LEMMA EffectDropConfig ==
    ASSUME NEW c, NEW n, NEW ds, NEW da, NEW cs, NEW ca, NEW ct,
           work = Tables(n, ds, da, cs, ca, ct),
           Head(c.todo) = "dropConfig"
    PROVE  Effect(c) = Tables(n, ds, da, WithoutId(cs, c.req.id), ca, ct)
BY DEF Effect, Tables, WithoutId

-----------------------------------------------------------------------------
(* A statement brings the operation one step further *)

LEMMA UpdatingStep ==
    ASSUME NEW c, c.req.op = "UpdateDirectory",
           Updating(work, c.req, c.todo), c.todo # <<>>
    PROVE  Updating(Effect(c), c.req, Rest(c))
<1> DEFINE r == c.req
<1>1. OnDirectory(r) /\ Owner(c) = r.id
  BY DEF OnDirectory, Owner
<1>2. CASE c.todo = <<"dropAcls", "acls", "reload">> /\ work = disk
  <2>1. Head(c.todo) = "dropAcls" /\ Rest(c) = <<"acls", "reload">>
    BY <1>2, Program3 DEF Rest
  <2>2. Effect(c) = Tables(inode, dirs, Disown(dirAcl, r.id), configs, configAcl, contents)
    BY <1>1, <1>2, <2>1, EffectDirDrop DEF disk
  <2> QED BY <2>1, <2>2 DEF Updating
<1>3. CASE /\ c.todo = <<"acls", "reload">>
           /\ work = Tables(inode, dirs, Disown(dirAcl, r.id), configs, configAcl, contents)
  <2>1. Head(c.todo) = "acls" /\ Rest(c) = <<"reload">>
    BY <1>3, Program2 DEF Rest
  <2>2. Effect(c) = Tables(inode, dirs, ReplaceAcls(dirAcl, r.id, r.acls), configs,
                           configAcl, contents)
    BY <1>1, <1>3, <2>1, EffectDirAcls DEF ReplaceAcls
  <2> QED BY <2>1, <2>2 DEF Updating
<1>4. CASE /\ c.todo = <<"reload">>
           /\ work = Tables(inode, dirs, ReplaceAcls(dirAcl, r.id, r.acls), configs,
                            configAcl, contents)
  <2>1. Head(c.todo) = "reload" /\ Rest(c) = <<>>
    BY <1>4, Program1 DEF Rest
  <2>2. Effect(c) = work
    BY <1>4, <2>1, EffectReload
  <2> QED BY <1>4, <2>1, <2>2 DEF Updating
<1> QED BY <1>2, <1>3, <1>4 DEF Updating

LEMMA RemovingStep ==
    ASSUME NEW c, c.req.op = "DeleteDirectory",
           Removing(work, c.req, c.todo), c.todo # <<>>
    PROVE  Removing(Effect(c), c.req, Rest(c))
<1> DEFINE r == c.req
<1>1. OnDirectory(r) /\ Owner(c) = r.id
  BY DEF OnDirectory, Owner
<1>2. CASE c.todo = <<"dropAcls", "dropDirectory">> /\ work = disk
  <2>1. Head(c.todo) = "dropAcls" /\ Rest(c) = <<"dropDirectory">>
    BY <1>2, Program2 DEF Rest
  <2>2. Effect(c) = Tables(inode, dirs, Disown(dirAcl, r.id), configs, configAcl, contents)
    BY <1>1, <1>2, <2>1, EffectDirDrop DEF disk
  <2> QED BY <2>1, <2>2 DEF Removing
<1>3. CASE /\ c.todo = <<"dropDirectory">>
           /\ work = Tables(inode, dirs, Disown(dirAcl, r.id), configs, configAcl, contents)
  <2>1. Head(c.todo) = "dropDirectory" /\ Rest(c) = <<>>
    BY <1>3, Program1 DEF Rest
  <2>2. Effect(c) = Tables(inode, WithoutId(dirs, r.id), Disown(dirAcl, r.id),
                           configs, configAcl, contents)
    BY <1>3, <2>1, EffectDropDirectory
  <2> QED BY <2>1, <2>2 DEF Removing
<1> QED BY <1>2, <1>3 DEF Removing

LEMMA DeletingStep ==
    ASSUME NEW c, c.req.op = "DeleteConfig",
           Deleting(work, c.req, c.todo), c.todo # <<>>
    PROVE  Deleting(Effect(c), c.req, Rest(c))
<1> DEFINE r == c.req
<1>1. ~ OnDirectory(r) /\ Owner(c) = r.id
  BY DEF OnDirectory, Owner
<1>2. CASE c.todo = <<"dropAcls", "dropVersions", "dropConfig">> /\ work = disk
  <2>1. Head(c.todo) = "dropAcls" /\ Rest(c) = <<"dropVersions", "dropConfig">>
    BY <1>2, Program3 DEF Rest
  <2>2. Effect(c) = Tables(inode, dirs, dirAcl, configs, Disown(configAcl, r.id), contents)
    BY <1>1, <1>2, <2>1, EffectConfigDrop DEF disk
  <2> QED BY <2>1, <2>2 DEF Deleting
<1>3. CASE /\ c.todo = <<"dropVersions", "dropConfig">>
           /\ work = Tables(inode, dirs, dirAcl, configs, Disown(configAcl, r.id), contents)
  <2>1. Head(c.todo) = "dropVersions" /\ Rest(c) = <<"dropConfig">>
    BY <1>3, Program2 DEF Rest
  <2>2. Effect(c) = Tables(inode, dirs, dirAcl, configs, Disown(configAcl, r.id),
                           WithoutVersions(contents, r.id))
    BY <1>3, <2>1, EffectDropVersions
  <2> QED BY <2>1, <2>2 DEF Deleting
<1>4. CASE /\ c.todo = <<"dropConfig">>
           /\ work = Tables(inode, dirs, dirAcl, configs, Disown(configAcl, r.id),
                            WithoutVersions(contents, r.id))
  <2>1. Head(c.todo) = "dropConfig" /\ Rest(c) = <<>>
    BY <1>4, Program1 DEF Rest
  <2>2. Effect(c) = Tables(inode, dirs, dirAcl, WithoutId(configs, r.id),
                           Disown(configAcl, r.id), WithoutVersions(contents, r.id))
    BY <1>4, <2>1, EffectDropConfig
  <2> QED BY <2>1, <2>2 DEF Deleting
<1> QED BY <1>2, <1>3, <1>4 DEF Deleting

\* The inode a statement takes is the next one.
Taken(c) == IF Head(c.todo) = "inode" THEN Append(c.got, work.inode + 1) ELSE c.got

\* Sequences of one and two inodes.
LEMMA Inodes ==
    ASSUME NEW n \in Nat, NEW m \in Nat
    PROVE  /\ Append(<<>>, n) = <<n>> /\ Append(<<n>>, m) = <<n, m>>
           /\ <<n>>[1] = n /\ Len(<<n>>) = 1
           /\ <<n, m>>[1] = n /\ <<n, m>>[2] = m /\ Len(<<n, m>>) = 2
<1>1. Append(<<>>, n) = <<n>>
  OBVIOUS
<1>2. /\ <<n>>[1] = n /\ Len(<<n>>) = 1
      /\ <<n, m>>[1] = n /\ <<n, m>>[2] = m /\ Len(<<n, m>>) = 2
      /\ <<n>> \in Seq(Nat) /\ <<n, m>> \in Seq(Nat)
  OBVIOUS
<1>3. /\ Append(<<n>>, m) \in Seq(Nat)
      /\ Len(Append(<<n>>, m)) = 2
      /\ Append(<<n>>, m)[1] = n
      /\ Append(<<n>>, m)[2] = m
  BY <1>2, AppendProperties
<1>4. \A i \in 1 .. 2 : i = 1 \/ i = 2
  OBVIOUS
<1>5. Append(<<n>>, m) = <<n, m>>
  BY <1>2, <1>3, <1>4, SeqEqual
<1> QED BY <1>1, <1>2, <1>5

LEMMA InsertingStep ==
    ASSUME NEW c, c.req.op = "CreateConfig", inode \in Nat, MaxInode \in Nat,
           Inserting(work, c.req, c.todo, c.got, c.now), c.todo # <<>>, ~ Refused(c)
    PROVE  Inserting(Effect(c), c.req, Rest(c), Taken(c), c.now) /\ work.inode \in Nat
<1> DEFINE r == c.req
           now == c.now
<1> USE DEF Taken
<1>1. ~ OnDirectory(r) /\ Owner(c) = c.got[1]
  BY DEF OnDirectory, Owner
<1>2. CASE /\ c.todo = <<"inode", "inode", "config", "version", "acls", "reload">>
           /\ work = disk /\ c.got = <<>>
  <2>1. /\ Head(c.todo) = "inode"
        /\ Rest(c) = <<"inode", "config", "version", "acls", "reload">>
    BY <1>2, Program6 DEF Rest
  <2>2. /\ Effect(c) = Tables(inode + 1, dirs, dirAcl, configs, configAcl, contents)
        /\ work.inode = inode
    BY <1>2, <2>1, EffectInode, WorkTables DEF disk
  <2>3. Taken(c) = <<inode + 1>>
    BY <1>2, <2>1, <2>2, Inodes
  <2> QED BY <2>1, <2>2, <2>3 DEF Inserting
<1>3. CASE /\ c.todo = <<"inode", "config", "version", "acls", "reload">>
           /\ c.got = <<inode + 1>>
           /\ work = Tables(inode + 1, dirs, dirAcl, configs, configAcl, contents)
  <2>1. /\ Head(c.todo) = "inode"
        /\ Rest(c) = <<"config", "version", "acls", "reload">>
    BY <1>3, Program5 DEF Rest
  <2>2. /\ Effect(c) = Tables(inode + 1 + 1, dirs, dirAcl, configs, configAcl, contents)
        /\ work.inode = inode + 1
    BY <1>3, <2>1, EffectInode, WorkTables
  <2>3. inode + 1 + 1 = inode + 2 /\ inode + 1 \in Nat /\ inode + 2 \in Nat
    OBVIOUS
  <2>4. Taken(c) = <<inode + 1, inode + 2>>
    BY <1>3, <2>1, <2>2, <2>3, Inodes
  <2>5. inode + 2 <= MaxInode
    BY <2>1, <2>2 DEF Refused
  <2> QED BY <2>1, <2>2, <2>3, <2>4, <2>5 DEF Inserting
<1>4. CASE c.got = <<inode + 1, inode + 2>> /\ inode + 2 <= MaxInode
  <2> DEFINE cs == configs \cup {NewConfig(r, now)}
             ct == contents \cup {FirstVersion(r, now)}
  <2>0. /\ c.got[1] = inode + 1 /\ c.got[2] = inode + 2 /\ c.got[Len(c.got)] = inode + 2
        /\ inode + 2 \in Nat /\ Owner(c) = inode + 1
    BY <1>1, <1>4, Inodes
  <2>1. CASE /\ c.todo = <<"config", "version", "acls", "reload">>
             /\ work = Tables(inode + 2, dirs, dirAcl, configs, configAcl, contents)
    <3>1. Head(c.todo) = "config" /\ Rest(c) = <<"version", "acls", "reload">>
      BY <2>1, Program4 DEF Rest
    <3>2. Effect(c) = Tables(inode + 2, dirs, dirAcl, cs, configAcl, contents)
      BY <2>0, <2>1, <3>1, EffectConfig DEF NewConfig, ConfigRowOf
    <3>3. work.inode = inode + 2
      BY <2>1, WorkTables
    <3> QED BY <1>4, <2>0, <3>1, <3>2, <3>3 DEF Inserting
  <2>2. CASE /\ c.todo = <<"version", "acls", "reload">>
             /\ work = Tables(inode + 2, dirs, dirAcl, cs, configAcl, contents)
    <3>1. Head(c.todo) = "version" /\ Rest(c) = <<"acls", "reload">>
      BY <2>2, Program3 DEF Rest
    <3>2. Effect(c) = Tables(inode + 2, dirs, dirAcl, cs, configAcl, ct)
      BY <2>0, <2>2, <3>1, EffectVersion DEF FirstVersion, VersionRowOf
    <3>3. work.inode = inode + 2
      BY <2>2, WorkTables
    <3>4. r.content # NoContent
      BY <3>1 DEF Refused
    <3> QED BY <1>4, <2>0, <3>1, <3>2, <3>3, <3>4 DEF Inserting
  <2>3. CASE /\ c.todo = <<"acls", "reload">> /\ r.content # NoContent
             /\ work = Tables(inode + 2, dirs, dirAcl, cs, configAcl, ct)
    <3>1. Head(c.todo) = "acls" /\ Rest(c) = <<"reload">>
      BY <2>3, Program2 DEF Rest
    <3>2. Effect(c) = Tables(inode + 2, dirs, dirAcl, cs,
                             configAcl \cup AclRows(inode + 1, r.acls), ct)
      BY <1>1, <2>0, <2>3, <3>1, EffectConfigAcls
    <3>3. work.inode = inode + 2
      BY <2>3, WorkTables
    <3> QED BY <1>4, <2>0, <2>3, <3>1, <3>2, <3>3 DEF Inserting
  <2>4. CASE /\ c.todo = <<"reload">> /\ r.content # NoContent
             /\ work = Tables(inode + 2, dirs, dirAcl, cs,
                              configAcl \cup AclRows(inode + 1, r.acls), ct)
    <3>1. Head(c.todo) = "reload" /\ Rest(c) = <<>>
      BY <2>4, Program1 DEF Rest
    <3>2. Effect(c) = work /\ work.inode = inode + 2
      BY <2>4, <3>1, EffectReload, WorkTables
    <3> QED BY <1>4, <2>0, <2>4, <3>1, <3>2 DEF Inserting
  <2> QED BY <1>2, <1>3, <2>1, <2>2, <2>3, <2>4 DEF Inserting
<1> QED BY <1>2, <1>3, <1>4 DEF Inserting

\* "UPDATE ... WHERE id" touches the one row with the id.
LEMMA TouchOne ==
    ASSUME NEW c, NEW row \in configs, row.id = c.req.id,
           UniqueIds(configs), configs \subseteq ConfigRow,
           c.req.content # NoContent => c.got[Len(c.got)] = inode + 1
    PROVE  {IF s.id = c.req.id THEN TouchedRow(c, s) ELSE s : s \in configs}
              = (configs \ {row}) \cup {Touched(c.req, row, c.now)}
<1>1. \A s \in configs : s.id = c.req.id <=> s = row
  BY DEF UniqueIds
<1>2. row \in ConfigRow
  OBVIOUS
<1>3. TouchedRow(c, row) = Touched(c.req, row, c.now)
  <2>1. CASE c.req.content = NoContent
    BY <1>2, <2>1 DEF TouchedRow, Touched, ConfigRow
  <2>2. CASE c.req.content # NoContent
    BY <1>2, <2>2 DEF TouchedRow, Touched, ConfigRow
  <2> QED BY <2>1, <2>2
<1> QED BY <1>1, <1>3

LEMMA ChangingStep ==
    ASSUME NEW c, c.req.op = "UpdateConfig", inode \in Nat, inode <= MaxInode,
           MaxInode \in Nat, UniqueIds(configs), configs \subseteq ConfigRow,
           Changing(work, c.req, c.todo, c.got, c.now), c.todo # <<>>, ~ Refused(c)
    PROVE  Changing(Effect(c), c.req, Rest(c), Taken(c), c.now) /\ work.inode \in Nat
<1> DEFINE r == c.req
           now == c.now
           n == NextInode(r)
           ct == NextContents(r, now)
<1> USE DEF Taken
<1>1. ~ OnDirectory(r) /\ Owner(c) = r.id /\ n \in Nat
  BY DEF OnDirectory, Owner, NextInode
<1>2. PICK row \in configs :
         /\ row.id = r.id /\ CanUpdate(row, r.path, r.name)
         /\ NextInode(r) <= MaxInode \/ work = disk
         /\ \/ /\ c.todo = <<"inode", "version", "touchConfig", "dropAcls", "acls", "reload">>
               /\ r.content # NoContent
               /\ work = disk /\ c.got = <<>>
            \/ /\ c.todo = <<"version", "touchConfig", "dropAcls", "acls", "reload">>
               /\ r.content # NoContent
               /\ c.got = <<inode + 1>>
               /\ work = Tables(inode + 1, dirs, dirAcl, configs, configAcl, contents)
            \/ /\ c.todo = <<"touchConfig", "dropAcls", "acls", "reload">>
               /\ r.content # NoContent => c.got = <<inode + 1>>
               /\ work = Tables(n, dirs, dirAcl, configs, configAcl, ct)
            \/ /\ c.todo = <<"dropAcls", "acls", "reload">>
               /\ work = Tables(n, dirs, dirAcl,
                                (configs \ {row}) \cup {Touched(r, row, now)}, configAcl, ct)
            \/ /\ c.todo = <<"acls", "reload">>
               /\ work = Tables(n, dirs, dirAcl,
                                (configs \ {row}) \cup {Touched(r, row, now)},
                                Disown(configAcl, r.id), ct)
            \/ /\ c.todo = <<"reload">>
               /\ work = Tables(n, dirs, dirAcl,
                                (configs \ {row}) \cup {Touched(r, row, now)},
                                ReplaceAcls(configAcl, r.id, r.acls), ct)
  BY DEF Changing
<1> DEFINE cs == (configs \ {row}) \cup {Touched(r, row, now)}
<1>3. CASE /\ c.todo = <<"inode", "version", "touchConfig", "dropAcls", "acls", "reload">>
           /\ r.content # NoContent
           /\ work = disk /\ c.got = <<>>
  <2>1. /\ Head(c.todo) = "inode"
        /\ Rest(c) = <<"version", "touchConfig", "dropAcls", "acls", "reload">>
    BY <1>3, Program6 DEF Rest
  <2>2. /\ Effect(c) = Tables(inode + 1, dirs, dirAcl, configs, configAcl, contents)
        /\ work.inode = inode
    BY <1>3, <2>1, EffectInode, WorkTables DEF disk
  <2>3. Taken(c) = <<inode + 1>>
    BY <1>3, <2>1, <2>2, Inodes
  <2>4. NextInode(r) <= MaxInode
    BY <1>3, <2>1, <2>2 DEF Refused, NextInode
  <2> QED BY <1>2, <1>3, <2>1, <2>2, <2>3, <2>4 DEF Changing
<1>4. CASE /\ c.todo = <<"version", "touchConfig", "dropAcls", "acls", "reload">>
           /\ r.content # NoContent
           /\ c.got = <<inode + 1>>
           /\ work = Tables(inode + 1, dirs, dirAcl, configs, configAcl, contents)
  <2>1. /\ Head(c.todo) = "version"
        /\ Rest(c) = <<"touchConfig", "dropAcls", "acls", "reload">>
    BY <1>4, Program5 DEF Rest
  <2>2. c.got[Len(c.got)] = inode + 1 /\ work.inode = inode + 1
    BY <1>4, Inodes, WorkTables
  <2>3. contents \cup {VersionRowOf(c)} = ct /\ n = inode + 1
    BY <1>1, <1>4, <2>2 DEF VersionRowOf, NextContents, NextInode
  <2>4. Effect(c) = Tables(inode + 1, dirs, dirAcl, configs, configAcl,
                           contents \cup {VersionRowOf(c)})
    BY <1>4, <2>1, EffectVersion
  <2>5. NextInode(r) <= MaxInode
    <3>1. work # disk
      BY <2>2, WorkTables DEF disk, Tables
    <3> QED BY <1>2, <3>1
  <2>6. Effect(c) = Tables(n, dirs, dirAcl, configs, configAcl, ct)
    BY <2>3, <2>4
  <2>7. Taken(c) = <<inode + 1>>
    BY <1>4, <2>1
  <2> QED BY <1>2, <2>1, <2>2, <2>5, <2>6, <2>7 DEF Changing
<1>5. n <= MaxInode \/ c.todo = <<"inode", "version", "touchConfig", "dropAcls", "acls", "reload">>
  <2>1. SUFFICES ASSUME n > MaxInode, work = disk
                 PROVE  c.todo = <<"inode", "version", "touchConfig", "dropAcls", "acls", "reload">>
    BY <1>1, <1>2
  <2>2. n = inode + 1 /\ n # inode
    BY <2>1 DEF NextInode
  <2>3. work.inode = inode
    BY <2>1, WorkTables DEF disk
  <2> QED BY <1>2, <2>2, <2>3, WorkTables
<1>6. CASE /\ c.todo = <<"touchConfig", "dropAcls", "acls", "reload">>
           /\ r.content # NoContent => c.got = <<inode + 1>>
           /\ work = Tables(n, dirs, dirAcl, configs, configAcl, ct)
  <2>1. /\ Head(c.todo) = "touchConfig" /\ Rest(c) = <<"dropAcls", "acls", "reload">>
    BY <1>6, Program4 DEF Rest
  <2>2. r.content # NoContent => c.got[Len(c.got)] = inode + 1
    <3>1. inode + 1 \in Nat
      OBVIOUS
    <3> QED BY <1>6, <3>1, Inodes
  <2>3. Effect(c) = Tables(n, dirs, dirAcl, cs, configAcl, ct) /\ work.inode = n
    BY <1>2, <1>6, <2>1, <2>2, TouchOne, EffectTouch, WorkTables
  <2>4. n <= MaxInode
    BY <1>5, <1>6
  <2> QED BY <1>1, <1>2, <2>1, <2>3, <2>4 DEF Changing
<1>7. CASE /\ c.todo = <<"dropAcls", "acls", "reload">>
           /\ work = Tables(n, dirs, dirAcl, cs, configAcl, ct)
  <2>1. /\ Head(c.todo) = "dropAcls" /\ Rest(c) = <<"acls", "reload">>
    BY <1>7, Program3 DEF Rest
  <2>2. /\ Effect(c) = Tables(n, dirs, dirAcl, cs, Disown(configAcl, r.id), ct)
        /\ work.inode = n
    BY <1>1, <1>7, <2>1, EffectConfigDrop, WorkTables
  <2>3. n <= MaxInode
    BY <1>5, <1>7
  <2> QED BY <1>1, <1>2, <2>1, <2>2, <2>3 DEF Changing
<1>8. CASE /\ c.todo = <<"acls", "reload">>
           /\ work = Tables(n, dirs, dirAcl, cs, Disown(configAcl, r.id), ct)
  <2>1. /\ Head(c.todo) = "acls" /\ Rest(c) = <<"reload">>
    BY <1>8, Program2 DEF Rest
  <2>2. /\ Effect(c) = Tables(n, dirs, dirAcl, cs, ReplaceAcls(configAcl, r.id, r.acls), ct)
        /\ work.inode = n
    <3>1. work.inode = n
      BY <1>8, WorkTables
    <3>2. Effect(c) = Tables(n, dirs, dirAcl, cs,
                             Disown(configAcl, r.id) \cup AclRows(r.id, r.acls), ct)
      BY <1>1, <1>8, <2>1, EffectConfigAcls
    <3> QED BY <3>1, <3>2 DEF ReplaceAcls
  <2>3. n <= MaxInode
    BY <1>5, <1>8
  <2> QED BY <1>1, <1>2, <2>1, <2>2, <2>3 DEF Changing
<1>9. CASE /\ c.todo = <<"reload">>
           /\ work = Tables(n, dirs, dirAcl, cs, ReplaceAcls(configAcl, r.id, r.acls), ct)
  <2>1. /\ Head(c.todo) = "reload" /\ Rest(c) = <<>>
    BY <1>9, Program1 DEF Rest
  <2>2. Effect(c) = work /\ work.inode = n
    BY <1>9, <2>1, EffectReload, WorkTables
  <2>3. n <= MaxInode
    BY <1>5, <1>9
  <2> QED BY <1>1, <1>2, <1>9, <2>1, <2>2, <2>3 DEF Changing
<1> QED BY <1>2, <1>3, <1>4, <1>6, <1>7, <1>8, <1>9

-----------------------------------------------------------------------------
(* CreateDirectory makes the missing levels from the top down *)

\* The levels the transaction still misses are those it has not made.
LEMMA StillMissing ==
    ASSUME NEW full \in Path, NEW D \in SUBSET Missing(full), NEW f,
           work.dirs = dirs \cup LevelRows(D, f)
    PROVE  W!Missing(full) = Missing(full) \ D
<1>1. {row.full : row \in LevelRows(D, f)} = D
  <2>1. ASSUME NEW q \in D
        PROVE  \E row \in LevelRows(D, f) : row.full = q
    <3> DEFINE row == [id |-> f[q], full |-> q, parent |-> ParentId(q, f)]
    <3>1. row \in LevelRows(D, f) /\ row.full = q
      BY DEF LevelRows
    <3> QED BY <3>1
  <2>2. ASSUME NEW row \in LevelRows(D, f)
        PROVE  row.full \in D
    BY DEF LevelRows
  <2> QED BY <2>1, <2>2
<1>2. {row.full : row \in work.dirs} = DirPaths \cup D
  BY <1>1 DEF DirPaths
<1> QED BY <1>2 DEF W!Missing, W!DirPaths, W!Components, Missing, Components

\* The next level is a shallowest one.
LEMMA NextLevel ==
    ASSUME NEW full \in Path, W!Missing(full) # {}, W!Missing(full) \subseteq Components(full)
    PROVE  /\ Level1(full) \in W!Missing(full)
           /\ \A m \in W!Missing(full) : Len(Level1(full)) <= Len(m)
<1> DEFINE M == W!Missing(full)
           T == {Len(q) : q \in M}
<1>1. \A q \in M : Len(q) \in Nat
  BY ComponentFacts
<1>2. T \in SUBSET Nat /\ T # {}
  BY <1>1
<1>3. PICK n \in T : \A m \in T : ~ (m < n)
  <2> HIDE DEF T
  <2> QED BY <1>2, NatMin
<1>4. PICK q \in M : Len(q) = n
  OBVIOUS
<1>5. \A m \in M : Len(q) <= Len(m)
  BY <1>1, <1>3, <1>4
<1> QED BY <1>4, <1>5 DEF Level1

\* q is a shallowest path of S; g numbers the levels of D like f, and q next, for
\* which there is an inode.
Shallowest(q, S) == q \in S /\ \A m \in S : Len(q) <= Len(m)
Continues(g, f, D, q) == /\ g \in [D \cup {q} -> Nat]
                         /\ g[q] = inode + Cardinality(D) + 1
                         /\ g[q] <= MaxInode
                         /\ \A x \in D : g[x] = f[x]

\* One more level made: the numbering of the levels made before goes on, and so
\* do their rows.
LEMMA OneMoreLevel ==
    ASSUME NEW full \in Path, NEW D, NEW f, Made(full, D, f), NEW q, Shallowest(q, Missing(full) \ D),
           inode \in Nat, MaxInode \in Nat,
           NEW g, Continues(g, f, D, q)
    PROVE  /\ Made(full, D \cup {q}, g)
           /\ LevelRows(D, g) = LevelRows(D, f)
<1> USE DEF Shallowest, Continues
<1>a. /\ D \in SUBSET Missing(full)
      /\ f \in [D -> inode + 1 .. inode + Cardinality(D)]
  BY DEF Made
<1> DEFINE E == D \cup {q}
           n == inode + Cardinality(D)
<1>1. IsFiniteSet(D) /\ Cardinality(D) \in Nat
  <2>1. IsFiniteSet(Missing(full))
    BY MissingFinite
  <2> QED BY <1>a, <2>1, FS_Subset, FS_CardinalityType
<1>2. Cardinality(E) = Cardinality(D) + 1
  BY <1>1, <1>a, FS_AddElement
<1>3. g[q] = n + 1 /\ DOMAIN g = E /\ \A x \in D : g[x] = f[x]
  OBVIOUS
<1>4. \A x \in Missing(full) : /\ x \in Components(full)
                               /\ Len(x) \in Nat
  BY ComponentFacts DEF Missing
<1>5. n \in Nat /\ \A x \in D : f[x] \in inode + 1 .. n
  BY <1>1, <1>a
<1>6. g \in [E -> inode + 1 .. inode + Cardinality(E)]
  <2>1. \A x \in E : g[x] \in inode + 1 .. inode + Cardinality(E)
    BY <1>1, <1>2, <1>3, <1>5
  <2> QED BY <2>1
<1>7. ASSUME NEW x \in E, NEW m \in Missing(full), Len(m) < Len(x)
      PROVE  m \in E
  <2>1. CASE x \in D
    BY <1>7, <2>1 DEF Made
  <2>2. CASE x = q
    BY <1>4, <1>7, <2>2
  <2> QED BY <2>1, <2>2
<1>8. ASSUME NEW x \in E, NEW m \in E, Len(x) < Len(m)
      PROVE  g[x] < g[m]
  <2>1. m \in D => x \in D
    BY <1>8 DEF Made
  <2>2. CASE m \in D
    BY <1>3, <1>8, <2>1, <2>2 DEF Made
  <2>3. CASE m = q
    <3>1. x \in D
      BY <1>4, <1>8, <2>3
    <3> QED BY <1>3, <1>5, <2>3, <3>1
  <2> QED BY <2>2, <2>3
<1>9. Made(full, E, g)
  <2>1. inode + Cardinality(E) <= MaxInode
    BY <1>1, <1>2
  <2> QED BY <1>6, <1>7, <1>8, <2>1 DEF Made
<1>10. ASSUME NEW x \in D
       PROVE  ParentId(x, g) = ParentId(x, f)
  <2>1. CASE Len(x) = 1
    BY <2>1 DEF ParentId
  <2>2. CASE Len(x) # 1
    <3>1. Parent(x) \in Components(full) /\ Len(Parent(x)) < Len(x)
      BY <1>4, <1>a, <2>2, ParentFacts, ComponentFacts
    <3>2. Parent(x) \in Missing(full) => Parent(x) \in D
      BY <3>1 DEF Made
    <3>3. Parent(x) \in D <=> Parent(x) \in E
      BY <3>2
    <3> QED BY <1>3, <1>a, <2>2, <3>3 DEF ParentId
  <2> QED BY <2>1, <2>2
<1>11. LevelRows(D, g) = LevelRows(D, f)
  BY <1>3, <1>10 DEF LevelRows
<1> QED BY <1>9, <1>11

\* The row its parent_id comes from is the one there is: on disk, or made just
\* before.
LEMMA RowOfLevel ==
    ASSUME NEW full \in Path, NEW D \in SUBSET Missing(full),
           NEW f \in [D -> inode + 1 .. inode + Cardinality(D)], PathsUnique,
           NEW q, Shallowest(q, Missing(full) \ D),
           work.dirs = dirs \cup LevelRows(D, f),
           NEW g, Continues(g, f, D, q)
    PROVE  RowOf(q) = ParentId(q, g)
<1>a. /\ q \in Missing(full) \ D
      /\ \A m \in Missing(full) \ D : Len(q) <= Len(m)
      /\ DOMAIN g = D \cup {q} /\ \A x \in D : g[x] = f[x]
  BY DEF Shallowest, Continues
<1>1. CASE Len(q) = 1
  BY <1>1 DEF RowOf, ParentId
<1>2. CASE Len(q) # 1
  <2> DEFINE e == Parent(q)
  <2>1. q \in Components(full) /\ Len(q) \in Nat
    BY <1>a, ComponentFacts DEF Missing
  <2>2. e \in Components(full) /\ Len(e) < Len(q) /\ Len(e) \in Nat
    BY <1>2, <2>1, ParentFacts, ComponentFacts
  <2>3. e # q /\ (e \in Missing(full) => e \in D)
    BY <1>a, <2>1, <2>2
  <2>4. RowOf(q) = (CHOOSE d \in work.dirs : d.full = e).id
    BY <1>2 DEF RowOf
  <2>5. \A row \in LevelRows(D, f) : row.full \in D /\ row.id = f[row.full]
    BY DEF LevelRows
  <2> HIDE DEF e
  <2>6. CASE e \in D
    <3>1. ParentId(q, g) = f[e]
      BY <1>2, <1>a, <2>6 DEF ParentId, e
    <3>2. \E row \in LevelRows(D, f) : row.full = e
      <4> DEFINE row == [id |-> f[e], full |-> e, parent |-> ParentId(e, f)]
      <4>1. row \in LevelRows(D, f) /\ row.full = e
        BY <2>6 DEF LevelRows
      <4> QED BY <4>1
    <3>3. \A d \in dirs : d.full # e
      BY <2>6 DEF Missing, DirPaths
    <3>4. \E d \in work.dirs : d.full = e
      BY <3>2
    <3>5. \A d \in work.dirs : d.full = e => d.id = f[e]
      BY <2>5, <3>3
    <3> DEFINE d == CHOOSE x \in work.dirs : x.full = e
    <3>6. d \in work.dirs /\ d.full = e
      BY <3>4
    <3> HIDE DEF d
    <3>7. d.id = f[e]
      BY <3>5, <3>6
    <3> QED BY <2>4, <3>1, <3>7 DEF d
  <2>7. CASE e \notin D
    <3>1. PICK x \in dirs : x.full = e
      BY <2>2, <2>3, <2>7 DEF Missing, DirPaths
    <3>2. ParentId(q, g) = (CHOOSE d \in dirs : d.full = e).id
      BY <1>2, <1>a, <2>3, <2>7 DEF ParentId, e
    <3>3. \A d \in dirs : d.full = e => d = x
      BY <3>1 DEF PathsUnique
    <3>4. \A d \in work.dirs : d.full = e => d = x
      BY <2>5, <2>7, <3>3
    <3>5. (CHOOSE d \in dirs : d.full = e) = x
      BY <3>1, <3>3
    <3>6. (CHOOSE d \in work.dirs : d.full = e) = x
      BY <3>1, <3>4
    <3> QED BY <2>4, <3>2, <3>5, <3>6
  <2> QED BY <2>6, <2>7
<1> QED BY <1>1, <1>2

LEMMA AppendLast ==
    ASSUME NEW s \in Seq(Nat), NEW n \in Nat
    PROVE  Append(s, n) # <<>> /\ Append(s, n)[Len(Append(s, n))] = n
OBVIOUS

LEMMA BuildingStep ==
    ASSUME NEW c, c.req.op = "CreateDirectory", c.req.full \in Path,
           c.got \in Seq(Nat), inode \in Nat, MaxInode \in Nat, PathsUnique,
           Building(work, c.req, c.todo, c.got), c.todo # <<>>, ~ Refused(c)
    PROVE  Building(Effect(c), c.req, Rest(c), Taken(c)) /\ work.inode \in Nat
<1> DEFINE r == c.req
           M == Missing(r.full)
           last == c.got[Len(c.got)]
<1> USE DEF Taken
<1>1. OnDirectory(r) /\ Owner(c) = last
  BY DEF OnDirectory, Owner
<1>2. PICK D \in SUBSET M :
         \E f \in [D -> inode + 1 .. inode + Cardinality(D)] :
            BuiltTo(work, r, c.todo, c.got, D, f)
  BY DEF Building
<1> PICK f \in [D -> inode + 1 .. inode + Cardinality(D)] :
       BuiltTo(work, r, c.todo, c.got, D, f)
  BY <1>2
<1>b. Made(r.full, D, f)
  BY DEF BuiltTo
<1>3. r.full \notin DirPaths
  BY DEF Building
<1> DEFINE n == inode + Cardinality(D)
           rows == dirs \cup LevelRows(D, f)
           acls == dirAcl \cup LevelAcls(D, f, r.acls)
<1>4. Cardinality(D) \in Nat /\ n \in Nat
  BY MissingFinite, FS_Subset, FS_CardinalityType
<1>5. CASE /\ c.todo = <<"inode", "directory", "acls">>
           /\ D # M
           /\ work = Tables(n, rows, acls, configs, configAcl, contents)
  <2>1. Head(c.todo) = "inode" /\ Rest(c) = <<"directory", "acls">>
    BY <1>5, Program3 DEF Rest
  <2>2. work.inode = n
    BY <1>5, WorkTables
  <2>3. Effect(c) = Tables(n + 1, rows, acls, configs, configAcl, contents)
    BY <1>5, <2>1, EffectInode
  <2>4. n + 1 <= MaxInode
    BY <1>4, <2>1, <2>2 DEF Refused
  <2>5. /\ Taken(c) = Append(c.got, n + 1)
        /\ Taken(c) # <<>> /\ Taken(c)[Len(Taken(c))] = n + 1
    <3>1. n + 1 \in Nat /\ Taken(c) = Append(c.got, n + 1)
      BY <1>4, <2>1, <2>2
    <3> QED BY <3>1, AppendLast
  <2>6. Building(Effect(c), r, Rest(c), Taken(c))
    BY <1>b, <1>3, <1>5, <2>1, <2>3, <2>4, <2>5 DEF Building, BuiltTo
  <2> QED BY <1>4, <2>2, <2>6
<1>6. CASE /\ c.todo = <<"directory", "acls">>
           /\ D # M
           /\ n + 1 <= MaxInode
           /\ c.got # <<>> /\ last = n + 1
           /\ work = Tables(n + 1, rows, acls, configs, configAcl, contents)
  <2> DEFINE q == Level1(r.full)
             E == D \cup {q}
             g == [x \in E |-> IF x = q THEN n + 1 ELSE f[x]]
  <2>1. /\ Head(c.todo) = "directory" /\ Rest(c) = <<"acls">> /\ Taken(c) = c.got
    BY <1>6, Program2 DEF Rest
  <2>2. work.inode = n + 1 /\ work.dirs = rows
    BY <1>6, WorkTables
  <2>3. W!Missing(r.full) = M \ D
    BY <2>2, StillMissing
  <2>4. q \in M \ D /\ \A m \in M \ D : Len(q) <= Len(m)
    <3>1. W!Missing(r.full) # {} /\ W!Missing(r.full) \subseteq Components(r.full)
      BY <1>6, <2>3 DEF Missing
    <3> QED BY <2>3, <3>1, NextLevel
  <2>5. Effect(c) = Tables(n + 1, rows \cup {LevelRow(c)}, acls, configs, configAcl, contents)
    BY <1>6, <2>1, EffectDirectory
  <2>6. LevelRow(c) = [id |-> n + 1, full |-> q, parent |-> RowOf(q)]
    BY <1>6 DEF LevelRow
  <2> HIDE DEF q
  <2>7. g \in [E -> Nat] /\ g[q] = inode + Cardinality(D) + 1 /\ \A x \in D : g[x] = f[x]
    BY <1>4, <2>4
  <2> HIDE DEF g
  <2>a. Shallowest(q, M \ D) /\ Continues(g, f, D, q)
    BY <1>4, <1>6, <2>4, <2>7 DEF Shallowest, Continues
  <2>b. Cardinality(E) = Cardinality(D) + 1
    <3>1. IsFiniteSet(D)
      BY MissingFinite, FS_Subset
    <3> QED BY <2>4, <3>1, FS_AddElement
  <2>8. /\ Made(r.full, E, g)
        /\ LevelRows(D, g) = LevelRows(D, f)
    <3> DEFINE full == r.full
    <3>1. full \in Path /\ Shallowest(q, Missing(full) \ D) /\ Made(full, D, f)
      BY <1>b, <2>a
    <3> HIDE DEF full
    <3>2. Made(full, D \cup {q}, g) /\ LevelRows(D, g) = LevelRows(D, f)
      BY <3>1, <2>a, OneMoreLevel
    <3> QED BY <3>2 DEF full
  <2>9. RowOf(q) = ParentId(q, g)
    BY <2>2, <2>a, RowOfLevel
  <2>10. LevelRows(E, g) = LevelRows(D, f) \cup {LevelRow(c)}
    <3>1. LevelRow(c) = [id |-> g[q], full |-> q, parent |-> ParentId(q, g)]
      BY <2>6, <2>7, <2>9
    <3>2. LevelRows(E, g) = LevelRows(D, g) \cup {LevelRow(c)}
      BY <3>1 DEF LevelRows
    <3> QED BY <2>8, <3>2
  <2>11. LevelAcls(E \ {q}, g, r.acls) = LevelAcls(D, f, r.acls)
    <3>1. E \ {q} = D
      BY <2>4
    <3> QED BY <2>7, <3>1 DEF LevelAcls
  <2>12. inode + Cardinality(E) = n + 1 /\ E \in SUBSET M
    <3>1. E \in SUBSET M
      BY <2>4
    <3>2. inode + Cardinality(E) = n + 1
      BY <1>4, <2>b
    <3> QED BY <3>1, <3>2
  <2>13. Effect(c) = Tables(inode + Cardinality(E), dirs \cup LevelRows(E, g),
                            dirAcl \cup LevelAcls(E \ {q}, g, r.acls),
                            configs, configAcl, contents)
    <3>1. rows \cup {LevelRow(c)} = dirs \cup LevelRows(E, g)
      BY <2>10
    <3> QED BY <2>5, <2>11, <2>12, <3>1
  <2>14. Building(Effect(c), r, <<"acls">>, c.got)
    <3>1. q \in E /\ g[q] = inode + Cardinality(E) /\ last = inode + Cardinality(E)
      BY <1>6, <2>7, <2>12
    <3>2. g \in [E -> inode + 1 .. inode + Cardinality(E)]
      BY <2>8 DEF Made
    <3> HIDE DEF E
    <3> QED BY <1>3, <1>6, <2>8, <2>12, <2>13, <3>1, <3>2 DEF Building, BuiltTo
  <2> QED BY <1>4, <2>1, <2>2, <2>14
<1>7. CASE /\ c.todo = <<"acls">>
           /\ c.got # <<>> /\ last = n
           /\ \E m \in D :
                 /\ f[m] = n
                 /\ work = Tables(n, rows, dirAcl \cup LevelAcls(D \ {m}, f, r.acls),
                                  configs, configAcl, contents)
  <2>1. PICK m \in D :
          /\ f[m] = n
          /\ work = Tables(n, rows, dirAcl \cup LevelAcls(D \ {m}, f, r.acls),
                           configs, configAcl, contents)
    BY <1>7
  <2>2. Head(c.todo) = "acls" /\ Rest(c) = Program(r)
    BY <1>7, Program1 DEF Rest
  <2>3. work.inode = n /\ work.dirs = rows
    BY <2>1, WorkTables
  <2>4. Effect(c) = Tables(n, rows, (dirAcl \cup LevelAcls(D \ {m}, f, r.acls))
                                      \cup AclRows(n, r.acls),
                           configs, configAcl, contents)
    BY <1>1, <1>7, <2>1, <2>2, EffectDirAcls
  <2>5. LevelAcls(D, f, r.acls) = LevelAcls(D \ {m}, f, r.acls) \cup AclRows(f[m], r.acls)
    BY DEF LevelAcls
  <2>6. (dirAcl \cup LevelAcls(D \ {m}, f, r.acls)) \cup AclRows(n, r.acls) = acls
    BY <2>1, <2>5
  <2>7. Effect(c) = Tables(n, rows, acls, configs, configAcl, contents)
    BY <2>4, <2>6
  <2>8. Program(r) = IF M \ D = {} THEN <<"reload">> ELSE <<"inode", "directory", "acls">>
    <3>1. Program(r) = IF W!Missing(r.full) = {} THEN <<"reload">>
                       ELSE <<"inode", "directory", "acls">>
      BY DEF Program
    <3> QED BY <2>3, <3>1, StillMissing
  <2>9. Taken(c) = c.got
    BY <2>2
  <2>10. CASE M \ D = {}
    <3>1. D = M /\ Rest(c) = <<"reload">>
      BY <2>2, <2>8, <2>10
    <3> QED BY <1>b, <1>3, <1>4, <2>3, <2>7, <2>9, <3>1 DEF Building, BuiltTo
  <2>11. CASE M \ D # {}
    <3>1. D # M /\ Rest(c) = <<"inode", "directory", "acls">>
      BY <2>2, <2>8, <2>11
    <3> QED BY <1>b, <1>3, <1>4, <2>3, <2>7, <2>9, <3>1 DEF Building, BuiltTo
  <2> QED BY <2>10, <2>11
<1>8. CASE /\ c.todo = <<"reload">>
           /\ D = M
           /\ work = Tables(n, rows, acls, configs, configAcl, contents)
  <2>1. Head(c.todo) = "reload" /\ Rest(c) = <<>> /\ Taken(c) = c.got
    BY <1>8, Program1 DEF Rest
  <2>2. work.inode = n /\ Effect(c) = work
    BY <1>8, <2>1, WorkTables, EffectReload
  <2> QED BY <1>b, <1>3, <1>4, <1>8, <2>1, <2>2 DEF Building, BuiltTo
<1> QED BY <1>5, <1>6, <1>7, <1>8 DEF BuiltTo

-----------------------------------------------------------------------------
(* The committed tables stay as long as nobody commits *)

LEMMA LinkedFrame ==
    ASSUME NEW w, NEW c, UNCHANGED vars, Linked(w, c)
    PROVE  Linked(w, c)'
<1>1. /\ inode' = inode /\ dirs' = dirs /\ dirAcl' = dirAcl
      /\ configs' = configs /\ configAcl' = configAcl /\ contents' = contents
  BY DEF vars
<1>2. disk' = disk /\ DirPaths' = DirPaths
  BY <1>1 DEF disk, DirPaths
<1>3. CASE c.req.op = "UpdateDirectory"
  BY <1>1, <1>2, <1>3 DEF Linked, Updating
<1>4. CASE c.req.op = "DeleteDirectory"
  BY <1>1, <1>2, <1>4 DEF Linked, Removing, CanDeleteDirectory, ChildDirs, ChildConfigs
<1>5. CASE c.req.op = "CreateConfig"
  BY <1>1, <1>2, <1>5 DEF Linked, Inserting, DirectoryExists, NewConfig, FirstVersion
<1>6. CASE c.req.op = "UpdateConfig"
  BY <1>1, <1>2, <1>6 DEF Linked, Changing, CanUpdate, DirectoryExists, NextInode,
                          NextContents, Touched
<1>7. CASE c.req.op = "CreateDirectory"
  <2> DEFINE r == c.req
  <2>1. Missing(r.full)' = Missing(r.full)
    BY <1>2 DEF Missing
  <2>2. PICK D \in SUBSET Missing(r.full) :
           \E f \in [D -> inode + 1 .. inode + Cardinality(D)] :
              BuiltTo(w, r, c.todo, c.got, D, f)
    BY <1>7 DEF Linked, Building
  <2> PICK f \in [D -> inode + 1 .. inode + Cardinality(D)] :
         BuiltTo(w, r, c.todo, c.got, D, f)
    BY <2>2
  <2>3. ASSUME NEW q
        PROVE  ParentId(q, f)' = ParentId(q, f)
    BY <1>1 DEF ParentId
  <2>4. LevelRows(D, f)' = LevelRows(D, f)
    BY <2>3 DEF LevelRows
  <2>5. Made(r.full, D, f)'
    BY <1>1, <2>1 DEF BuiltTo, Made
  <2>6. BuiltTo(w, r, c.todo, c.got, D, f)'
    BY <1>1, <2>1, <2>4, <2>5 DEF BuiltTo, LevelAcls
  <2>7. r.full \notin DirPaths'
    BY <1>2, <1>7 DEF Linked, Building
  <2> QED BY <1>1, <1>7, <2>1, <2>6, <2>7 DEF Linked, Building
<1>8. CASE c.req.op \notin {"UpdateDirectory", "DeleteDirectory", "CreateConfig",
                            "UpdateConfig", "CreateDirectory"}
  BY <1>1, <1>2, <1>8 DEF Linked, Deleting
<1> QED BY <1>3, <1>4, <1>5, <1>6, <1>7, <1>8

-----------------------------------------------------------------------------
(* Where a transaction begins, where it ends *)

\* What the SELECTs let pass is what Linked asks for, before any statement.
LEMMA StartLinked ==
    ASSUME IInv, work = disk, NEW c, c.req \in Request, c.req.op # "read",
           Passes(c.req), c.todo = Program(c.req), c.got = <<>>
    PROVE  Linked(work, c)
<1> DEFINE r == c.req
<1>1. /\ work = Tables(inode, dirs, dirAcl, configs, configAcl, contents)
      /\ work.inode = inode /\ work.dirs = dirs /\ work.dirAcl = dirAcl
      /\ work.configs = configs /\ work.configAcl = configAcl /\ work.contents = contents
  BY WorkTables DEF disk
<1>2. inode \in Nat /\ inode <= MaxInode /\ MaxInode \in Nat
  BY DataAssumption DEF IInv, TypeOK
<1>3. r.op \in {"CreateDirectory", "UpdateDirectory", "DeleteDirectory",
                "CreateConfig", "UpdateConfig", "DeleteConfig"}
  BY TxRequestAssumption
<1>4. W!DirPaths = DirPaths
  BY <1>1 DEF W!DirPaths, DirPaths
<1>5. ASSUME NEW path
      PROVE  W!DirectoryExists(path) <=> DirectoryExists(path)
  BY <1>4 DEF W!DirectoryExists, DirectoryExists, W!Root, Root
<1>6. CASE r.op = "UpdateDirectory"
  <2>1. r.id \in Ids(dirs)
    BY <1>1, <1>6 DEF Passes, W!CanUpdateDirectory, Ids
  <2>2. Program(r) = <<"dropAcls", "acls", "reload">>
    BY <1>6 DEF Program
  <2> QED BY <1>6, <2>1, <2>2 DEF Linked, Updating
<1>7. CASE r.op = "DeleteDirectory"
  <2>1. PICK d \in work.dirs : d.id = r.id /\ W!CanDeleteDirectory(d)
    BY <1>7 DEF Passes
  <2>2. d \in dirs /\ CanDeleteDirectory(d)
    BY <1>1, <2>1 DEF CanDeleteDirectory, ChildDirs, ChildConfigs,
                      W!CanDeleteDirectory, W!ChildDirs, W!ChildConfigs
  <2>3. Program(r) = <<"dropAcls", "dropDirectory">>
    BY <1>7 DEF Program
  <2> QED BY <1>7, <2>1, <2>2, <2>3 DEF Linked, Removing
<1>8. CASE r.op = "CreateConfig"
  <2>1. /\ DirectoryExists(r.path)
        /\ ~ \E row \in configs : row.path = r.path /\ row.name = r.name
    BY <1>1, <1>5, <1>8 DEF Passes
  <2>2. Program(r) = <<"inode", "inode", "config", "version", "acls", "reload">>
    BY <1>8 DEF Program
  <2> QED BY <1>8, <2>1, <2>2 DEF Linked, Inserting
<1>9. CASE r.op = "UpdateConfig"
  <2>1. PICK row \in work.configs : row.id = r.id /\ W!CanUpdate(row, r.path, r.name)
    BY <1>9 DEF Passes
  <2>2. row \in configs /\ row.id = r.id /\ CanUpdate(row, r.path, r.name)
    BY <1>1, <1>5, <2>1 DEF W!CanUpdate, CanUpdate
  <2>3. CASE r.content = NoContent
    <3>1. c.todo = <<"touchConfig", "dropAcls", "acls", "reload">>
      BY <1>9, <2>3 DEF Program
    <3>2. work = Tables(NextInode(r), dirs, dirAcl, configs, configAcl,
                        NextContents(r, c.now))
      BY <1>1, <2>3 DEF NextInode, NextContents
    <3> QED BY <1>9, <2>2, <2>3, <3>1, <3>2 DEF Linked, Changing
  <2>4. CASE r.content # NoContent
    <3>1. c.todo = <<"inode", "version", "touchConfig", "dropAcls", "acls", "reload">>
      BY <1>9, <2>4 DEF Program
    <3> QED BY <1>9, <2>2, <2>4, <3>1 DEF Linked, Changing
  <2> QED BY <2>3, <2>4
<1>10. CASE r.op = "CreateDirectory"
  <2>1. r.full \in Path /\ r.full \notin DirPaths
    BY <1>4, <1>10, TxRequestAssumption DEF Passes
  <2>2. W!Missing(r.full) = Missing(r.full)
    BY <1>4 DEF W!Missing, W!Components, Missing, Components
  <2>3. r.full \in Missing(r.full)
    BY <2>1, ComponentFacts DEF Missing
  <2>4. Program(r) = <<"inode", "directory", "acls">>
    <3>1. Program(r) = IF W!Missing(r.full) = {} THEN <<"reload">>
                       ELSE <<"inode", "directory", "acls">>
      BY <1>10 DEF Program
    <3> QED BY <2>2, <2>3, <3>1
  <2> DEFINE f == [q \in {} |-> inode]
  <2>5. Cardinality({}) = 0 /\ inode + Cardinality({}) = inode
    BY <1>2, FS_EmptySet
  <2>6. f \in [{} -> inode + 1 .. inode + Cardinality({})]
    OBVIOUS
  <2>7. Made(r.full, {}, f)
    BY <1>2, <2>5, <2>6 DEF Made
  <2>8. LevelRows({}, f) = {} /\ LevelAcls({}, f, r.acls) = {}
    BY DEF LevelRows, LevelAcls
  <2>9. work = Tables(inode + Cardinality({}), dirs \cup LevelRows({}, f),
                      dirAcl \cup LevelAcls({}, f, r.acls), configs, configAcl, contents)
    BY <1>1, <2>5, <2>8
  <2>10. BuiltTo(work, r, c.todo, c.got, {}, f)
    BY <2>3, <2>4, <2>7, <2>9 DEF BuiltTo
  <2> HIDE DEF f
  <2> QED BY <1>10, <2>1, <2>6, <2>10 DEF Linked, Building
<1>11. CASE r.op = "DeleteConfig"
  <2>1. Program(r) = <<"dropAcls", "dropVersions", "dropConfig">>
    BY <1>11 DEF Program
  <2> QED BY <1>11, <2>1 DEF Linked, Deleting
<1> QED BY <1>3, <1>6, <1>7, <1>8, <1>9, <1>10, <1>11

\* At the end of its program a transaction is one of Store, or has changed
\* nothing: DELETE of a config that is not there.
LEMMA EndIsNext ==
    ASSUME IInv, NEW c, c.req \in Request, c.req.op # "read", c.now \in Clock,
           c.todo = <<>>, Linked(work, c), Persist(work)
    PROVE  Next \/ UNCHANGED vars
<1> DEFINE r == c.req
<1>1. r.op \in {"CreateDirectory", "UpdateDirectory", "DeleteDirectory",
                "CreateConfig", "UpdateConfig", "DeleteConfig"}
  BY TxRequestAssumption
<1>2. ASSUME NEW n, NEW ds, NEW da, NEW cs, NEW ca, NEW ct,
             work = Tables(n, ds, da, cs, ca, ct)
      PROVE  /\ inode' = n /\ dirs' = ds /\ dirAcl' = da
             /\ configs' = cs /\ configAcl' = ca /\ contents' = ct
  BY <1>2, WorkTables DEF Persist
<1>3. CASE r.op = "UpdateDirectory"
  <2>1. /\ r.id \in Ids(dirs)
        /\ work = Tables(inode, dirs, ReplaceAcls(dirAcl, r.id, r.acls), configs,
                         configAcl, contents)
    BY <1>3, Program1, Program2, Program3 DEF Linked, Updating
  <2>2. UpdateDirectory(r.id, r.acls)
    BY <1>2, <2>1 DEF UpdateDirectory
  <2>3. r.acls \in AclList
    BY <1>3, TxRequestAssumption
  <2> QED BY <2>1, <2>2, <2>3 DEF Next
<1>4. CASE r.op = "DeleteDirectory"
  <2>1. /\ \E d \in dirs : d.id = r.id /\ CanDeleteDirectory(d)
        /\ work = Tables(inode, WithoutId(dirs, r.id), Disown(dirAcl, r.id),
                         configs, configAcl, contents)
    BY <1>4, Program1, Program2 DEF Linked, Removing
  <2>2. PICK d \in dirs : d.id = r.id /\ CanDeleteDirectory(d)
    BY <2>1
  <2>3. WithoutId(dirs, r.id) = dirs \ {d}
    BY <2>2 DEF WithoutId, IInv, InodesDistinct, UniqueIds
  <2>4. DeleteDirectory(r.id)
    BY <1>2, <2>1, <2>2, <2>3 DEF DeleteDirectory
  <2>5. r.id \in Ids(dirs)
    BY <2>2 DEF Ids
  <2> QED BY <2>4, <2>5 DEF Next
<1>5. CASE r.op = "CreateConfig"
  <2>1. /\ DirectoryExists(r.path)
        /\ ~ \E row \in configs : row.path = r.path /\ row.name = r.name
        /\ inode + 2 <= MaxInode
        /\ r.content # NoContent
        /\ work = Tables(inode + 2, dirs, dirAcl, configs \cup {NewConfig(r, c.now)},
                         configAcl \cup AclRows(inode + 1, r.acls),
                         contents \cup {FirstVersion(r, c.now)})
    BY <1>5, Program2, Program3, Program4, Program5, Program6 DEF Linked, Inserting
  <2>2. Insert(r.path, r.name, r.content, r.acls, c.now)
    BY <1>2, <2>1 DEF Insert, CanInsert, NewConfig, FirstVersion
  <2>3. /\ r.path \in ConfigPath /\ r.name \in FileName
        /\ r.content \in Blob /\ r.acls \in AclList
    BY <1>5, <2>1, TxRequestAssumption
  <2> QED BY <2>2, <2>3 DEF Next
<1>6. CASE r.op = "UpdateConfig"
  <2>1. PICK row \in configs :
           /\ row.id = r.id /\ CanUpdate(row, r.path, r.name)
           /\ NextInode(r) <= MaxInode \/ work = disk
           /\ work = Tables(NextInode(r), dirs, dirAcl,
                            (configs \ {row}) \cup {Touched(r, row, c.now)},
                            ReplaceAcls(configAcl, r.id, r.acls), NextContents(r, c.now))
    BY <1>6, Program2, Program3, Program4, Program5, Program6 DEF Linked, Changing
  <2>2. NextInode(r) <= MaxInode
    <3>1. work.inode = NextInode(r)
      BY <2>1, WorkTables
    <3>2. CASE work = disk
      <4>1. work.inode = inode
        BY <3>2, WorkTables DEF disk
      <4> QED BY <3>1, <4>1 DEF IInv, TypeOK
    <3> QED BY <2>1, <3>2
  <2>3. /\ inode' = NextInode(r) /\ dirs' = dirs /\ dirAcl' = dirAcl
        /\ configs' = (configs \ {row}) \cup {Touched(r, row, c.now)}
        /\ configAcl' = ReplaceAcls(configAcl, r.id, r.acls)
        /\ contents' = NextContents(r, c.now)
    BY <1>2, <2>1
  <2>4. /\ r.content = NoContent => SameVersion(row, c.now)
        /\ r.content # NoContent => NewVersion(row, r.content, c.now)
    BY <2>1, <2>2, <2>3 DEF SameVersion, NewVersion, NextInode, NextContents, Touched
  <2>5. row.path = r.path /\ row.name = r.name
    BY <2>1 DEF CanUpdate
  <2>6. Update(row.id, row.path, row.name, r.content, r.acls, c.now)
    BY <2>1, <2>3, <2>4, <2>5 DEF Update
  <2>7. r.content \in Blob \cup {NoContent} /\ r.acls \in AclList
    BY <1>6, TxRequestAssumption
  <2> QED BY <2>6, <2>7 DEF Next
<1>7. CASE r.op = "CreateDirectory"
  <2> DEFINE M == Missing(r.full)
  <2>1. PICK D \in SUBSET M :
           \E f \in [D -> inode + 1 .. inode + Cardinality(D)] :
              BuiltTo(work, r, c.todo, c.got, D, f)
    BY <1>7 DEF Linked, Building
  <2> PICK f \in [D -> inode + 1 .. inode + Cardinality(D)] :
         BuiltTo(work, r, c.todo, c.got, D, f)
    BY <2>1
  <2>2. /\ Made(r.full, D, f) /\ D = M
        /\ work = Tables(inode + Cardinality(D), dirs \cup LevelRows(D, f),
                         dirAcl \cup LevelAcls(D, f, r.acls), configs, configAcl, contents)
    BY Program1, Program2, Program3 DEF BuiltTo
  <2>3. CanCreateDirectory(r.full)
    BY <1>7, <2>2 DEF CanCreateDirectory, Linked, Building, Made
  <2>4. f \in Numberings(M)
    BY <2>2 DEF Numberings, Made
  <2>5. /\ inode' = inode + Cardinality(M)
        /\ dirs' = dirs \cup LevelRows(M, f)
        /\ dirAcl' = dirAcl \cup LevelAcls(M, f, r.acls)
        /\ UNCHANGED <<configs, configAcl, contents>>
    BY <1>2, <2>2
  <2>6. CreateDirectory(r.full, r.acls)
    BY <2>3, <2>4, <2>5 DEF CreateDirectory, LevelRows, LevelAcls
  <2>7. r.full \in Path /\ r.acls \in AclList
    BY <1>7, TxRequestAssumption
  <2> QED BY <2>6, <2>7 DEF Next
<1>8. CASE r.op = "DeleteConfig"
  <2>1. work = Tables(inode, dirs, dirAcl, WithoutId(configs, r.id),
                      Disown(configAcl, r.id), WithoutVersions(contents, r.id))
    BY <1>8, Program1, Program2, Program3 DEF Linked, Deleting
  <2>2. Delete(r.id)
    BY <1>2, <2>1 DEF Delete, WithoutId, WithoutVersions
  <2>3. CASE r.id \in Ids(configs)
    BY <2>2, <2>3 DEF Next
  <2>4. CASE r.id \notin Ids(configs)
    <3>1. /\ \A row \in configs : row.id # r.id
          /\ \A row \in configAcl : row.owner # r.id
          /\ \A v \in contents : v.config # r.id
      BY <2>4 DEF IInv, NoOrphans, Ids
    <3>2. configs' = configs /\ configAcl' = configAcl /\ contents' = contents
      BY <2>2, <3>1 DEF Delete, Disown
    <3> QED BY <2>2, <3>2 DEF Delete, vars
  <2> QED BY <2>3, <2>4
<1> QED BY <1>1, <1>3, <1>4, <1>5, <1>6, <1>7, <1>8

\* The tables of a transaction are tables, and count inodes.
LEMMA LinkedTables ==
    ASSUME IInv, NEW w, NEW c, c.req.op = "CreateDirectory" => c.req.full \in Path,
           Linked(w, c)
    PROVE  /\ w = Tables(w.inode, w.dirs, w.dirAcl, w.configs, w.configAcl, w.contents)
           /\ w.inode \in Nat
<1> DEFINE r == c.req
<1>1. inode \in Nat
  BY DEF IInv, TypeOK
<1>2. ASSUME NEW n \in Nat, NEW ds, NEW da, NEW cs, NEW ca, NEW ct,
             w = Tables(n, ds, da, cs, ca, ct)
      PROVE  /\ w = Tables(w.inode, w.dirs, w.dirAcl, w.configs, w.configAcl, w.contents)
             /\ w.inode \in Nat
  BY <1>2 DEF Tables
<1>3. disk = Tables(inode, dirs, dirAcl, configs, configAcl, contents)
  BY DEF disk
<1>4. CASE c.req.op = "UpdateDirectory"
  BY <1>1, <1>2, <1>3, <1>4 DEF Linked, Updating
<1>5. CASE c.req.op = "DeleteDirectory"
  BY <1>1, <1>2, <1>3, <1>5 DEF Linked, Removing
<1>6. inode + 1 \in Nat /\ inode + 2 \in Nat
  BY <1>1
<1>7. CASE c.req.op = "CreateConfig"
  BY <1>1, <1>2, <1>3, <1>6, <1>7 DEF Linked, Inserting
<1>8. CASE c.req.op = "UpdateConfig"
  <2>1. NextInode(r) \in Nat
    BY <1>1, <1>6 DEF NextInode
  <2> QED BY <1>1, <1>2, <1>3, <1>6, <1>8, <2>1 DEF Linked, Changing
<1>9. CASE c.req.op = "CreateDirectory"
  <2> DEFINE M == Missing(r.full)
  <2>1. PICK D \in SUBSET M :
           \E f \in [D -> inode + 1 .. inode + Cardinality(D)] :
              BuiltTo(w, r, c.todo, c.got, D, f)
    BY <1>9 DEF Linked, Building
  <2> PICK f \in [D -> inode + 1 .. inode + Cardinality(D)] :
         BuiltTo(w, r, c.todo, c.got, D, f)
    BY <2>1
  <2>2. Cardinality(D) \in Nat
    BY <1>9, MissingFinite, FS_Subset, FS_CardinalityType
  <2>3. inode + Cardinality(D) \in Nat /\ inode + Cardinality(D) + 1 \in Nat
    BY <1>1, <2>2
  <2>4. \E n \in Nat : \E ds, da :
           w = Tables(n, ds, da, configs, configAcl, contents)
    BY <2>3 DEF BuiltTo
  <2> QED BY <1>2, <2>4
<1>10. CASE c.req.op \notin {"UpdateDirectory", "DeleteDirectory", "CreateConfig",
                             "UpdateConfig", "CreateDirectory"}
  BY <1>1, <1>2, <1>3, <1>10 DEF Linked, Deleting
<1> QED BY <1>4, <1>5, <1>7, <1>8, <1>9, <1>10

\* A statement of the transaction in progress.
LEMMA StatementLinked ==
    ASSUME IInv, NEW c, NEW d, c.req \in Request, c.req.op # "read", c.got \in Seq(Nat),
           Linked(work, c), c.todo # <<>>, ~ Refused(c),
           d.req = c.req, d.todo = Rest(c), d.got = Taken(c), d.now = c.now
    PROVE  Linked(Effect(c), d)
<1>1. inode \in Nat /\ inode <= MaxInode /\ MaxInode \in Nat
  BY DataAssumption DEF IInv, TypeOK
<1>2. c.req.op \in {"CreateDirectory", "UpdateDirectory", "DeleteDirectory",
                    "CreateConfig", "UpdateConfig", "DeleteConfig"}
  BY TxRequestAssumption
<1>3. CASE c.req.op = "UpdateDirectory"
  BY <1>3, UpdatingStep DEF Linked
<1>4. CASE c.req.op = "DeleteDirectory"
  BY <1>4, RemovingStep DEF Linked
<1>5. CASE c.req.op = "CreateConfig"
  BY <1>1, <1>5, InsertingStep DEF Linked
<1>6. CASE c.req.op = "UpdateConfig"
  <2>1. UniqueIds(configs) /\ configs \subseteq ConfigRow
    BY DEF IInv, InodesDistinct, TypeOK
  <2> QED BY <1>1, <1>6, <2>1, ChangingStep DEF Linked
<1>7. CASE c.req.op = "CreateDirectory"
  <2>1. c.req.full \in Path /\ PathsUnique
    BY <1>7, TxRequestAssumption DEF IInv, DirInv
  <2> QED BY <1>1, <1>7, <2>1, BuildingStep DEF Linked
<1>8. CASE c.req.op = "DeleteConfig"
  BY <1>8, DeletingStep DEF Linked
<1> QED BY <1>2, <1>3, <1>4, <1>5, <1>6, <1>7, <1>8

-----------------------------------------------------------------------------
(* Every step keeps the invariant *)

\* What a handler becomes where it goes.
LEMMA CallFacts ==
    /\ \A code \in Codes : CallOK(Idle(code)) /\ Idle(code).at = "idle"
                                              /\ Idle(code).code = code
    /\ \A r \in Request : CallOK(Fresh(r)) /\ Fresh(r).at = "query"
<1> USE DEF Idle, Fresh, CallOK, Call, Places, Codes
<1>1. <<>> \in Seq(Statements) /\ <<>> \in Seq(Nat)
  OBVIOUS
<1>2. ASSUME NEW r \in Request \cup {NoRequest}
      PROVE  /\ Fresh(r) \in Call /\ Fresh(r).req = r /\ Fresh(r).at = "query"
             /\ Fresh(r).got = <<>> /\ Fresh(r).code = "none"
  BY <1>1
<1>3. ASSUME NEW code \in Codes
      PROVE  Idle(code) \in Call /\ Idle(code).at = "idle" /\ Idle(code).code = code
  BY <1>1
<1>4. ASSUME NEW r \in Request
      PROVE  CallOK(Fresh(r)) /\ Fresh(r).at = "query"
  <2>1. Fresh(r) \in Call /\ Fresh(r).req = r /\ Fresh(r).at = "query" /\ Fresh(r).got = <<>>
    BY <1>2
  <2> QED BY <2>1 DEF CallOK
<1>5. ASSUME NEW code \in Codes
      PROVE  CallOK(Idle(code)) /\ Idle(code).at = "idle" /\ Idle(code).code = code
  <2>1. Idle(code) \in Call /\ Idle(code).at = "idle" /\ Idle(code).code = code
    BY <1>3
  <2> QED BY <2>1 DEF CallOK
<1> QED BY <1>4, <1>5

LEMMA BecomeFacts ==
    ASSUME CallsOK, NEW p \in Proc, NEW c, CallOK(c), Become(p, c)
    PROVE  /\ CallsOK'
           /\ call'[p] = c
           /\ \A q \in Proc : q # p => call'[q] = call[q]
<1>1. c \in Call
  BY DEF CallOK
<1>2. /\ call' \in [Proc -> Call] /\ call'[p] = c
      /\ \A q \in Proc : q # p => call'[q] = call[q]
  BY <1>1 DEF CallsOK, Become
<1>3. \A q \in Proc : CallOK(call'[q])
  BY <1>2 DEF CallsOK
<1>4. (\A q \in Proc : CallOK(call[q]))'
  BY <1>3 DEF CallOK, Call
<1> QED BY <1>2, <1>4 DEF CallsOK, Call

\* A handler in a transaction that does not move, while the tables stay.
LEMMA StillLinked ==
    ASSUME TxInv, NEW p \in Proc, InTx(p), UNCHANGED <<vars, work>>, call'[p] = call[p]
    PROVE  Linked(work, call[p])'
<1>1. PICK w : w = work
  OBVIOUS
<1>2. PICK c : c = call[p]
  OBVIOUS
<1>3. Linked(w, c)
  BY <1>1, <1>2 DEF TxInv
<1>4. Linked(w, c)'
  BY <1>3, LinkedFrame
<1> QED BY <1>1, <1>2, <1>4

\* The invariant of the committed tables.
LEMMA StillIInv ==
    ASSUME IInv, UNCHANGED vars
    PROVE  IInv' /\ disk' = disk
BY NextIInv DEF vars, disk

\* A step that leaves the tables alone adds nothing to changed.
LEMMA NotesNothing ==
    ASSUME UNCHANGED vars, NEW p, Notes(p)
    PROVE  changed' = changed
BY DEF vars, disk, Notes

LEMMA StartTx ==
    ASSUME TxInv, NEW p \in Proc, NEW r \in Request, Start(p, r)
    PROVE  TxInv'
<1> USE DEF TxInv
<1>1. CallOK(Fresh(r)) /\ Fresh(r).at = "query" /\ call[p].at = "idle"
  BY CallFacts DEF Start
<1>2. /\ CallsOK' /\ call'[p] = Fresh(r)
      /\ \A q \in Proc : q # p => call'[q] = call[q]
  BY <1>1, BecomeFacts DEF Start
<1>3. UNCHANGED vars /\ work' = work /\ conn' = conn
      /\ changed' = changed \ {p} /\ failed' = failed \ {p}
  BY DEF Start
<1>4. IInv' /\ disk' = disk
  BY <1>3, StillIInv
<1>5. NotedOK'
  BY <1>2, <1>3 DEF NotedOK
<1>6. Isolated'
  BY <1>1, <1>2, <1>3, <1>4 DEF Isolated
<1>7. ASSUME NEW q \in Proc, InTx(q)'
      PROVE  Linked(work, call[q])'
  <2>1. q # p /\ InTx(q)
    BY <1>1, <1>2, <1>3, <1>7 DEF InTx
  <2> QED BY <1>2, <1>3, <2>1, StillLinked
<1> QED BY <1>2, <1>4, <1>5, <1>6, <1>7

LEMMA WaitTx ==
    ASSUME TxInv, NEW p \in Proc, Cancel(p) \/ Acquire(p)
    PROVE  TxInv'
<1> USE DEF TxInv
<1>1. UNCHANGED vars /\ work' = work /\ call' = call
      /\ changed' = changed /\ failed' = failed
  BY DEF Cancel, Acquire
<1>2. conn' = conn \/ (conn = NoProc /\ conn' = p /\ call[p].at \in {"query", "begin"})
  BY DEF Cancel, Acquire
<1>3. IInv' /\ disk' = disk
  BY <1>1, StillIInv
<1>4. CallsOK' /\ NotedOK'
  BY <1>1 DEF CallsOK, NotedOK
<1>5. Isolated'
  BY <1>1, <1>2, <1>3, ProcAssumption DEF Isolated
<1>6. ASSUME NEW q \in Proc, InTx(q)'
      PROVE  Linked(work, call[q])'
  <2>1. InTx(q)
    BY <1>1, <1>2, <1>6 DEF InTx
  <2> QED BY <1>1, <2>1, StillLinked
<1> QED BY <1>3, <1>4, <1>5, <1>6

\* The connection comes back clean and the handlers stay where they are or end.
LEMMA ReturnTx ==
    ASSUME TxInv, UNCHANGED vars, work' = disk, conn' = NoProc, CallsOK', NotedOK'
    PROVE  TxInv'
<1>1. IInv' /\ disk' = disk
  BY StillIInv DEF TxInv
<1>2. Isolated'
  BY <1>1 DEF Isolated
<1>3. \A q \in Proc : ~ InTx(q)'
  BY ProcAssumption DEF InTx
<1> QED BY <1>1, <1>2, <1>3 DEF TxInv

\* A handler ends without a COMMIT.
LEMMA EndTx ==
    ASSUME TxInv, NEW p \in Proc, call[p].at # "idle", UNCHANGED vars, failed' = failed,
           Notes(p), NEW code \in Codes, Become(p, Idle(code)),
           conn = p => conn' = NoProc /\ work' = disk,
           conn # p => conn' = conn /\ work' = work
    PROVE  TxInv'
<1> USE DEF TxInv
<1>1. CallOK(Idle(code)) /\ Idle(code).at = "idle"
  BY CallFacts
<1>2. /\ CallsOK' /\ call'[p] = Idle(code)
      /\ \A q \in Proc : q # p => call'[q] = call[q]
  BY <1>1, BecomeFacts
<1>3. NotedOK'
  <2>1. changed' = changed
    BY NotesNothing
  <2> QED BY <1>1, <1>2, <2>1 DEF NotedOK
<1>4. CASE conn = p
  BY <1>2, <1>3, <1>4, ReturnTx
<1>5. CASE conn # p
  <2>1. IInv' /\ disk' = disk
    BY StillIInv
  <2>2. Isolated'
    BY <1>2, <1>5, <2>1 DEF Isolated
  <2>3. ASSUME NEW q \in Proc, InTx(q)'
        PROVE  Linked(work, call[q])'
    <3>1. q # p /\ InTx(q)
      BY <1>2, <1>5, <2>3 DEF InTx
    <3> QED BY <1>2, <1>5, <3>1, StillLinked
  <2> QED BY <1>2, <1>3, <2>1, <2>2, <2>3
<1> QED BY <1>4, <1>5

LEMMA AnswerTx ==
    ASSUME TxInv, NEW p \in Proc, GiveUp(p) \/ CommitFails(p) \/ Rollback(p), Notes(p)
    PROVE  TxInv'
<1>1. CASE GiveUp(p)
  <2>1. conn = p => work = disk
    BY <1>1 DEF GiveUp, TxInv, Isolated
  <2>2. "Error" \in Codes
    BY DEF Codes
  <2>3. /\ UNCHANGED vars /\ failed' = failed /\ call[p].at # "idle"
        /\ Become(p, Idle("Error")) /\ work' = work
        /\ conn' = IF conn = p THEN NoProc ELSE conn
    BY <1>1 DEF GiveUp
  <2> QED BY <2>1, <2>2, <2>3, EndTx
<1>2. CASE CommitFails(p) \/ Rollback(p)
  <2>1. /\ UNCHANGED vars /\ failed' = failed /\ call[p].at # "idle"
        /\ call[p].code \in {"OK", "Error"} /\ Finish(p, disk)
    BY <1>2 DEF CommitFails, Rollback
  <2>2. PICK code \in Codes : code = call[p].code
    BY <2>1 DEF Codes
  <2>3. /\ Become(p, Idle(code))
        /\ conn' = IF conn = p THEN NoProc ELSE conn
        /\ work' = IF conn = p THEN disk ELSE work
    BY <2>1, <2>2 DEF Finish
  <2> QED BY <2>1, <2>3, EndTx
<1> QED BY <1>1, <1>2

LEMMA QueryTx ==
    ASSUME TxInv, NEW p \in Proc, Query(p), Notes(p)
    PROVE  TxInv'
<1> USE DEF TxInv
<1>1. /\ UNCHANGED vars /\ failed' = failed /\ work' = work /\ conn' = NoProc
      /\ call[p].at = "query" /\ conn = p
  BY DEF Query
<1>2. work = disk
  BY <1>1 DEF Isolated
<1>3. CASE call[p].req.op = "read"
  <2>1. "OK" \in Codes /\ Become(p, Idle("OK"))
    BY <1>3 DEF Query, Codes
  <2> QED BY <1>1, <1>2, <2>1, EndTx
<1>4. CASE call[p].req.op # "read"
  <2> DEFINE c == [call[p] EXCEPT !.at = "begin"]
  <2>1. Become(p, c)
    BY <1>4 DEF Query
  <2>2. CallOK(call[p])
    BY DEF CallsOK
  <2>3. CallOK(c) /\ c.at = "begin"
    BY <1>1, <1>4, <2>2 DEF CallOK, Call, Places
  <2> HIDE DEF c
  <2>4. /\ CallsOK' /\ call'[p] = c
        /\ \A q \in Proc : q # p => call'[q] = call[q]
    BY <2>1, <2>3, BecomeFacts
  <2>5. NotedOK'
    BY <1>1, <2>4, NotesNothing DEF NotedOK
  <2> QED BY <1>1, <1>2, <2>4, <2>5, ReturnTx
<1> QED BY <1>3, <1>4

LEMMA AwaitDoneTx ==
    ASSUME TxInv, Reap \/ \E p \in Proc : AwaitDone(p)
    PROVE  TxInv'
<1>1. /\ UNCHANGED vars /\ work' = disk /\ conn' = NoProc /\ call' = call
      /\ changed' = changed /\ failed' = failed
  BY DEF AwaitDone, Reap
<1>2. CallsOK' /\ NotedOK'
  BY <1>1 DEF TxInv, CallsOK, NotedOK
<1> QED BY <1>1, <1>2, ReturnTx

\* A panic: the connection stays with the transaction, which has done nothing yet.
LEMMA PanicTx ==
    ASSUME TxInv, NEW p \in Proc, Panic(p), Notes(p)
    PROVE  TxInv'
<1> USE DEF TxInv
<1>1. /\ UNCHANGED vars /\ failed' = failed /\ work' = work /\ conn' = Abandoned
      /\ call[p].at = "begin" /\ conn = p /\ Become(p, Idle("Error"))
  BY DEF Panic
<1>2. work = disk
  BY <1>1 DEF Isolated
<1>3. CallOK(Idle("Error")) /\ Idle("Error").at = "idle"
  BY CallFacts DEF Codes
<1>4. /\ CallsOK' /\ call'[p] = Idle("Error")
      /\ \A q \in Proc : q # p => call'[q] = call[q]
  BY <1>1, <1>3, BecomeFacts
<1>5. NotedOK'
  BY <1>1, <1>3, <1>4, NotesNothing DEF NotedOK
<1>6. IInv' /\ disk' = disk
  BY <1>1, StillIInv
<1>7. Isolated'
  BY <1>1, <1>2, <1>6 DEF Isolated
<1>8. \A q \in Proc : ~ InTx(q)'
  BY <1>1, ProcAssumption DEF InTx
<1> QED BY <1>4, <1>5, <1>6, <1>7, <1>8

LEMMA RestartTx ==
    ASSUME TxInv, Restart
    PROVE  TxInv'
<1>1. /\ UNCHANGED vars /\ work' = disk /\ conn' = NoProc
      /\ changed' = {} /\ failed' = {}
      /\ call' = [p \in Proc |-> Idle("none")]
  BY DEF Restart
<1>2. CallOK(Idle("none")) /\ Idle("none") \in Call
  BY CallFacts DEF Codes, CallOK
<1>3. CallsOK' /\ NotedOK'
  <2>1. \A p \in Proc : CallOK(call'[p])
    BY <1>1, <1>2
  <2>2. (\A p \in Proc : CallOK(call[p]))'
    BY <2>1 DEF CallOK, Call
  <2>3. call' \in [Proc -> Call]
    BY <1>1, <1>2
  <2> QED BY <1>1, <2>2, <2>3 DEF CallsOK, NotedOK, Call
<1> QED BY <1>1, <1>3, ReturnTx

\* BEGIN: the connection is clean, so what the SELECTs see is committed.
LEMMA CheckTx ==
    ASSUME TxInv, NEW p \in Proc, Check(p), Notes(p)
    PROVE  TxInv'
<1> USE DEF TxInv
<1>1. /\ UNCHANGED vars /\ failed' = failed /\ work' = work /\ conn' = p
      /\ call[p].at = "begin" /\ conn = p /\ changed' = changed
  BY NotesNothing DEF Check
<1>2. work = disk
  BY <1>1 DEF Isolated
<1>3. PICK now \in Clock :
         Become(p, IF Passes(call[p].req)
                   THEN [call[p] EXCEPT !.at = "tx", !.now = now, !.todo = Program(call[p].req)]
                   ELSE [call[p] EXCEPT !.at = "finish", !.code = "Error"])
  BY DEF Check
<1>4. /\ CallOK(call[p]) /\ call[p] \in Call /\ call[p].req \in Request
      /\ call[p].req.op # "read" /\ call[p].got = <<>> /\ now \in Nat
  BY <1>1, DataAssumption DEF CallsOK, CallOK
<1>5. IInv' /\ disk' = disk
  BY <1>1, StillIInv
<1>6. CASE Passes(call[p].req)
  <2> DEFINE c == [call[p] EXCEPT !.at = "tx", !.now = now, !.todo = Program(call[p].req)]
  <2>1. Program(call[p].req) \in Seq(Statements) /\ Program(call[p].req) # <<>>
    BY ProgramType
  <2>2. /\ CallOK(c) /\ c.at = "tx" /\ c.req = call[p].req /\ c.got = <<>>
        /\ c.todo = Program(c.req)
    BY <1>4, <2>1 DEF CallOK, Call, Places
  <2>3. Become(p, c)
    BY <1>3, <1>6
  <2> HIDE DEF c
  <2>4. /\ CallsOK' /\ call'[p] = c
        /\ \A q \in Proc : q # p => call'[q] = call[q]
    BY <2>2, <2>3, BecomeFacts
  <2>5. NotedOK'
    BY <1>1, <2>4 DEF NotedOK
  <2>6. Isolated'
    BY <1>1, <1>2, <1>5 DEF Isolated
  <2>7. Linked(work, c)
    BY <1>2, <1>4, <1>6, <2>2, StartLinked
  <2>8. Linked(work, call[p])'
    <3>1. PICK w : w = work
      OBVIOUS
    <3>2. PICK d : d = c
      OBVIOUS
    <3>3. Linked(w, d)'
      BY <1>1, <2>7, <3>1, <3>2, LinkedFrame
    <3> QED BY <1>1, <2>4, <3>1, <3>2, <3>3
  <2>9. \A q \in Proc : InTx(q)' => q = p
    BY <1>1 DEF InTx
  <2> QED BY <1>5, <2>4, <2>5, <2>6, <2>8, <2>9
<1>7. CASE ~ Passes(call[p].req)
  <2> DEFINE c == [call[p] EXCEPT !.at = "finish", !.code = "Error"]
  <2>1. CallOK(c) /\ c.at = "finish" /\ c.code = "Error"
    BY <1>4 DEF CallOK, Call, Places, Codes
  <2>2. Become(p, c)
    BY <1>3, <1>7
  <2> HIDE DEF c
  <2>3. /\ CallsOK' /\ call'[p] = c
        /\ \A q \in Proc : q # p => call'[q] = call[q]
    BY <2>1, <2>2, BecomeFacts
  <2>4. NotedOK'
    BY <1>1, <2>3 DEF NotedOK
  <2>5. Isolated'
    BY <1>1, <1>2, <1>5 DEF Isolated
  <2>6. \A q \in Proc : ~ InTx(q)'
    BY <1>1, <2>1, <2>3 DEF InTx
  <2> QED BY <1>5, <2>3, <2>4, <2>5, <2>6
<1> QED BY <1>6, <1>7

LEMMA StatementTx ==
    ASSUME TxInv, NEW p \in Proc, Statement(p), Notes(p)
    PROVE  TxInv'
<1> USE DEF TxInv
<1>0. PICK c : c = call[p]
  OBVIOUS
<1> DEFINE d == [c EXCEPT !.todo = Rest(c),
                          !.at = IF Rest(c) = <<>> THEN "finish" ELSE @,
                          !.code = IF Rest(c) = <<>> THEN "OK" ELSE @,
                          !.got = IF Head(c.todo) = "inode"
                                  THEN Append(@, work.inode + 1) ELSE @]
<1>1. /\ UNCHANGED vars /\ failed' = failed /\ work' = Effect(c) /\ conn' = p
      /\ c.at = "tx" /\ conn = p /\ ~ Refused(c)
      /\ Become(p, d) /\ changed' = changed
  BY <1>0, NotesNothing DEF Statement, OnConnection
<1>2. /\ CallOK(c) /\ c \in Call /\ c.req \in Request /\ c.req.op # "read"
      /\ c.got \in Seq(Nat) /\ c.todo \in Seq(Statements) /\ c.todo # <<>> /\ c.now \in Clock
  BY <1>0, <1>1 DEF CallsOK, CallOK, Call
<1>3. Linked(work, c)
  BY <1>0, <1>1 DEF InTx
<1>4. work.inode \in Nat
  BY <1>2, <1>3, LinkedTables, TxRequestAssumption
<1>5. Taken(c) \in Seq(Nat)
  BY <1>2, <1>4 DEF Taken
<1>6. Rest(c) \in Seq(Statements)
  <2>1. Tail(c.todo) \in Seq(Statements)
    BY <1>2, HeadTailProperties
  <2> QED BY <2>1, ProgramType DEF Rest
<1>7. /\ d \in Call /\ d.req = c.req /\ d.todo = Rest(c) /\ d.got = Taken(c)
      /\ d.now = c.now
      /\ d.at = IF Rest(c) = <<>> THEN "finish" ELSE "tx"
      /\ Rest(c) = <<>> => d.code = "OK"
  BY <1>1, <1>2, <1>5, <1>6 DEF Call, Places, Codes, Taken
<1> HIDE DEF d
<1>8. CallOK(d)
  BY <1>2, <1>7 DEF CallOK
<1>9. /\ CallsOK' /\ call'[p] = d
      /\ \A q \in Proc : q # p => call'[q] = call[q]
  BY <1>1, <1>8, BecomeFacts
<1>10. NotedOK'
  BY <1>0, <1>1, <1>9 DEF NotedOK
<1>11. IInv' /\ disk' = disk
  BY <1>1, StillIInv
<1>12. Isolated'
  BY <1>1, <1>7, <1>9, ProcAssumption DEF Isolated
<1>13. Linked(Effect(c), d)
  BY <1>1, <1>2, <1>3, <1>7, StatementLinked
<1>14. Linked(work, call[p])'
  <2>1. PICK w : w = Effect(c)
    OBVIOUS
  <2>2. PICK e : e = d
    OBVIOUS
  <2>3. Linked(w, e)'
    BY <1>1, <1>13, <2>1, <2>2, LinkedFrame
  <2> QED BY <1>1, <1>9, <2>1, <2>2, <2>3
<1>15. \A q \in Proc : InTx(q)' => q = p
  BY <1>1 DEF InTx
<1> QED BY <1>9, <1>10, <1>11, <1>12, <1>14, <1>15

LEMMA StatementFailsTx ==
    ASSUME TxInv, NEW p \in Proc, StatementFails(p), Notes(p)
    PROVE  TxInv'
<1> USE DEF TxInv
<1> DEFINE c == [call[p] EXCEPT !.at = "finish", !.code = "Error"]
<1>1. /\ UNCHANGED vars /\ failed' = failed \cup {p} /\ work' = work /\ conn' = conn
      /\ call[p].at = "tx" /\ Become(p, c) /\ changed' = changed
  BY NotesNothing DEF StatementFails
<1>2. CallOK(c) /\ c.at = "finish" /\ c.code = "Error"
  <2>1. CallOK(call[p])
    BY DEF CallsOK
  <2> QED BY <1>1, <2>1 DEF CallOK, Call, Places, Codes
<1> HIDE DEF c
<1>3. /\ CallsOK' /\ call'[p] = c
      /\ \A q \in Proc : q # p => call'[q] = call[q]
  BY <1>1, <1>2, BecomeFacts
<1>4. NotedOK'
  BY <1>1, <1>2, <1>3 DEF NotedOK
<1>5. IInv' /\ disk' = disk
  BY <1>1, StillIInv
<1>6. Isolated'
  BY <1>1, <1>2, <1>3, <1>5 DEF Isolated
<1>7. ASSUME NEW q \in Proc, InTx(q)'
      PROVE  Linked(work, call[q])'
  <2>1. q # p /\ InTx(q)
    BY <1>1, <1>2, <1>3, <1>7 DEF InTx
  <2> QED BY <1>1, <1>3, <2>1, StillLinked
<1> QED BY <1>3, <1>4, <1>5, <1>6, <1>7

\* COMMIT: the only step that changes the disk, and a step of Store.
LEMMA CommitTx ==
    ASSUME TxInv, NEW p \in Proc, Commit(p), Notes(p)
    PROVE  TxInv' /\ (Next \/ UNCHANGED vars)
<1> USE DEF TxInv
<1>0. PICK c : c = call[p]
  OBVIOUS
<1>1. /\ Persist(work) /\ failed' = failed /\ work' = work /\ conn' = NoProc
      /\ c.at = "finish" /\ c.code = "OK" /\ conn = p
      /\ Become(p, Idle("OK"))
  BY <1>0 DEF Commit, Finish
<1>2. /\ CallOK(c) /\ c.req \in Request /\ c.req.op # "read" /\ c.todo = <<>>
      /\ c.now \in Clock
  BY <1>0, <1>1 DEF CallsOK, CallOK
<1>3. Linked(work, c)
  BY <1>0, <1>1 DEF InTx
<1>4. Next \/ UNCHANGED vars
  BY <1>1, <1>2, <1>3, EndIsNext
<1>5. IInv'
  BY <1>4, NextIInv
<1>6. work = Tables(work.inode, work.dirs, work.dirAcl, work.configs, work.configAcl,
                    work.contents)
  BY <1>2, <1>3, LinkedTables, TxRequestAssumption
<1>7. work' = disk'
  BY <1>1, <1>6 DEF disk, Persist
<1>8. CallOK(Idle("OK")) /\ Idle("OK").at = "idle" /\ Idle("OK").code = "OK"
  BY CallFacts DEF Codes
<1>9. /\ CallsOK' /\ call'[p] = Idle("OK")
      /\ \A q \in Proc : q # p => call'[q] = call[q]
  BY <1>1, <1>8, BecomeFacts
<1>10. NotedOK'
  <2>1. p \notin failed /\ changed' \subseteq changed \cup {p}
    BY <1>0, <1>1 DEF NotedOK, Notes
  <2> QED BY <1>1, <1>8, <1>9, <2>1 DEF NotedOK
<1>11. Isolated'
  BY <1>1, <1>7 DEF Isolated
<1>12. \A q \in Proc : ~ InTx(q)'
  BY <1>1, ProcAssumption DEF InTx
<1> QED BY <1>4, <1>5, <1>9, <1>10, <1>11, <1>12

-----------------------------------------------------------------------------
(* The theorems *)

LEMMA InitTx == TxInit => TxInv
<1> SUFFICES ASSUME TxInit PROVE TxInv
  OBVIOUS
<1>1. IInv /\ work = disk /\ conn = NoProc /\ changed = {} /\ failed = {}
  BY InitIInv DEF TxInit
<1>2. CallOK(Idle("none")) /\ Idle("none") \in Call
  BY CallFacts DEF Codes, CallOK
<1>3. CallsOK
  <2>1. call = [p \in Proc |-> Idle("none")]
    BY DEF TxInit
  <2> QED BY <1>2, <2>1 DEF CallsOK
<1>4. NotedOK /\ Isolated
  BY <1>1 DEF NotedOK, Isolated
<1>5. \A p \in Proc : ~ InTx(p)
  BY <1>1, ProcAssumption DEF InTx
<1> QED BY <1>1, <1>3, <1>4, <1>5 DEF TxInv

LEMMA NextTx == TxInv /\ [TxNext]_txVars => TxInv' /\ [Next]_vars
<1> SUFFICES ASSUME TxInv, [TxNext]_txVars PROVE TxInv' /\ [Next]_vars
  OBVIOUS
<1>1. CASE UNCHANGED txVars
  <2>1. /\ UNCHANGED vars /\ work' = work /\ conn' = conn /\ call' = call
        /\ changed' = changed /\ failed' = failed
    BY <1>1 DEF txVars
  <2>2. IInv' /\ disk' = disk
    BY <2>1, StillIInv DEF TxInv
  <2>3. CallsOK' /\ NotedOK' /\ Isolated'
    BY <2>1, <2>2 DEF TxInv, CallsOK, NotedOK, Isolated
  <2>4. ASSUME NEW q \in Proc, InTx(q)'
        PROVE  Linked(work, call[q])'
    <3>1. InTx(q)
      BY <2>1, <2>4 DEF InTx
    <3> QED BY <2>1, <3>1, StillLinked
  <2> QED BY <2>1, <2>2, <2>3, <2>4 DEF TxInv
<1>2. ASSUME NEW p \in Proc, NEW r \in Request, Start(p, r)
      PROVE  TxInv' /\ UNCHANGED vars
  BY <1>2, StartTx DEF Start
<1>3. ASSUME NEW p \in Proc, Cancel(p) \/ Acquire(p)
      PROVE  TxInv' /\ UNCHANGED vars
  BY <1>3, WaitTx DEF Cancel, Acquire
<1>4. ASSUME Reap \/ \E p \in Proc : AwaitDone(p)
      PROVE  TxInv' /\ UNCHANGED vars
  BY <1>4, AwaitDoneTx DEF AwaitDone, Reap
<1>5. ASSUME NEW p \in Proc, GiveUp(p) \/ CommitFails(p) \/ Rollback(p), Notes(p)
      PROVE  TxInv' /\ UNCHANGED vars
  BY <1>5, AnswerTx DEF GiveUp, CommitFails, Rollback
<1>6. ASSUME NEW p \in Proc, Query(p), Notes(p)
      PROVE  TxInv' /\ UNCHANGED vars
  BY <1>6, QueryTx DEF Query
<1>7. ASSUME NEW p \in Proc, Check(p), Notes(p)
      PROVE  TxInv' /\ UNCHANGED vars
  BY <1>7, CheckTx DEF Check
<1>8. ASSUME NEW p \in Proc, Statement(p), Notes(p)
      PROVE  TxInv' /\ UNCHANGED vars
  BY <1>8, StatementTx DEF Statement
<1>9. ASSUME NEW p \in Proc, StatementFails(p), Notes(p)
      PROVE  TxInv' /\ UNCHANGED vars
  BY <1>9, StatementFailsTx DEF StatementFails
<1>10. ASSUME NEW p \in Proc, Commit(p), Notes(p)
       PROVE  TxInv' /\ (Next \/ UNCHANGED vars)
  BY <1>10, CommitTx
<1>11. CASE Restart
  BY <1>11, RestartTx DEF Restart
<1>12. ASSUME NEW p \in Proc, Panic(p), Notes(p)
       PROVE  TxInv' /\ UNCHANGED vars
  BY <1>12, PanicTx DEF Panic
<1>13. ASSUME NEW p \in Proc, Handler(p)
       PROVE  TxInv' /\ (Next \/ UNCHANGED vars)
  <2>1. Notes(p)
    BY <1>13 DEF Handler, Notes
  <2> QED BY <1>5, <1>6, <1>7, <1>8, <1>9, <1>10, <1>12, <1>13, <2>1 DEF Handler
<1> QED BY <1>1, <1>2, <1>3, <1>4, <1>11, <1>13 DEF TxNext

\* The inductive invariant of the connection and its transaction holds.
THEOREM TxInvariant == TxSpec => []TxInv
<1>1. TxInv /\ [TxNext]_txVars => TxInv'
  BY NextTx
<1> QED BY <1>1, InitTx, PTL DEF TxSpec

\* Whatever fails, hangs up or is killed between two statements, the committed
\* database changes by whole transactions of Store only: every behaviour of the
\* statements is one of Store.
THEOREM TxImplementsStore == TxSpec => Implements
<1>1. TxInit => Init
  BY DEF TxInit
<1>2. TxInv /\ [TxNext]_txVars => [Next]_vars
  BY NextTx
<1> QED BY <1>1, <1>2, TxInvariant, PTL DEF TxSpec, Implements, Spec

\* Nobody but the transaction in progress sees what is not committed: the
\* connection is handed on clean, whoever hands it on.
THEOREM TxIsolated == TxSpec => []Isolated
<1>1. TxInv => Isolated
  BY DEF TxInv
<1> QED BY <1>1, TxInvariant, PTL

\* A call that answers with an error, or one of whose statements failed, has not
\* changed the committed database by any of its steps.
THEOREM TxErrorMeansNothing == TxSpec => []ErrorMeansNothing
<1>1. TxInv => ErrorMeansNothing
  BY DEF TxInv, NotedOK, ErrorMeansNothing
<1> QED BY <1>1, TxInvariant, PTL

\* After a crash at any point the file the server is started on is one Store has
\* written, so everything proved of Store's tables holds of it.
THEOREM TxFileSound == TxSpec => []IInv
<1>1. TxInv => IInv
  BY DEF TxInv
<1> QED BY <1>1, TxInvariant, PTL

=============================================================================
