------------------------------- MODULE Store -------------------------------
(***************************************************************************)
(* The SQLite store of internal/store/sqlite/store.go, one action per      *)
(* transaction.  The pool holds one connection, so transactions run one    *)
(* after the other and each appears here as one step: the state after its  *)
(* commit.  A transaction that fails rolls back, inode counter included,   *)
(* and changes nothing; such calls, and the one that panics, are the       *)
(* stuttering steps of Spec.                                               *)
(*                                                                         *)
(* Tables are sets of rows.  A directory row keeps its path and name       *)
(* together as the full path, a sequence of names; the synthesised root is *)
(* <<>> and has no row.  A config row keeps the string the client gave as  *)
(* the path of its directory: a full path, Root ("/") or EmptyPath ("").   *)
(***************************************************************************)
EXTENDS Access, Naturals, Sequences, FiniteSets

CONSTANTS Name,       \* directory names
          Path,       \* full paths of directories, without the root
          EmptyPath,  \* the config path ""
          LikePath,   \* pairs <<p, q>> of paths: q LIKE p || '/%'
          FileName,   \* config names
          EmptyName,  \* the config name "", a FileName or not
          Data,       \* byte strings
          Size,       \* the content_size values clients send
          NoContent,  \* a request without content
          AclList,    \* ACL lists of requests
          Clock,      \* the readings of the wall clock, in no order
          MaxInode    \* bound: how many rowids the inode table gives out

Root == <<>>

\* The paths ensureDirectories materialises for p, shallowest first.
Components(p) == {SubSeq(p, 1, k) : k \in 1 .. Len(p)}

Parent(p) == SubSeq(p, 1, Len(p) - 1)

ASSUME PathAssumption ==
    /\ Path \subseteq Seq(Name) \ {Root}
    /\ \A p \in Path : Components(p) \subseteq Path
    /\ EmptyPath \notin Path \cup {Root}
ASSUME LikeAssumption ==
    /\ LikePath \subseteq Path \X Path
    /\ \A p, q \in Path : p # q /\ p \in Components(q) => <<p, q>> \in LikePath
ASSUME DataAssumption ==
    /\ Data \subseteq Seq(Nat)
    /\ Size \subseteq Nat
    /\ AclList \subseteq SUBSET Entry
    /\ Clock \subseteq Nat
    /\ MaxInode \in Nat
    /\ NoContent \notin [data: Data, size: Size]

VARIABLES inode,      \* the last rowid of the inode table
          dirs,       \* table directory
          dirAcl,     \* table directory_acl
          configs,    \* table config
          configAcl,  \* table config_acl
          contents    \* table config_content

vars == <<inode, dirs, dirAcl, configs, configAcl, contents>>

NoParent == 0
ConfigPath == Path \cup {Root, EmptyPath}
Blob == [data: Data, size: Size]

DirRow == [id: Nat, full: Path, parent: Nat]
ConfigRow == [id: Nat, path: ConfigPath, name: FileName, current: Nat,
              created: Clock, updated: Clock]
ContentRow == [id: Nat, config: Nat, blob: Blob, created: Clock]
AclRow == [owner: Nat, entry: Entry]

Ids(table) == {row.id : row \in table}
DirPaths == {row.full : row \in dirs}

-----------------------------------------------------------------------------
(* Reads *)

\* loadACLs for one owner; no rows is the empty list.
AclsOf(table, owner) == {row.entry : row \in {r \in table : r.owner = owner}}

\* requireDirectoryExists: the root needs no row, any other path is looked up
\* as it is written.
DirectoryExists(path) == path \in DirPaths \cup {Root, EmptyPath}

\* getDirectoriesByPathString for one target: the rows of its components.
DirectoryChain(path) ==
    IF path \in {Root, EmptyPath} THEN {}
                                  ELSE {d \in dirs : d.full \in Components(path)}

\* pathReadable of server.go: the whole chain grants READ.
pathReadable(path, tags) ==
    /\ DirectoryExists(path)
    /\ \A d \in DirectoryChain(path) :
          DirAllows(AclsOf(dirAcl, d.id), tags, "READ")

\* Altered form: a directory is readable on its own grant.
readableDirectories_NoParent(rows, acls, tags) ==
    {Root} \cup {d.full : d \in {e \in rows :
                      DirAllows(AclsOf(acls, e.id), tags, "READ")}}

\* readableDirectories over loaded rows and ACLs: shallowest first, a directory
\* is readable when its parent is and it grants READ itself; the root is seeded
\* readable.
readableDirectories(rows, acls, tags) ==
    LET paths == {Root} \cup {d.full : d \in rows}
        readable[p \in paths] ==
            \/ p = Root
            \/ /\ Parent(p) \in paths
               /\ readable[Parent(p)]
               /\ \E d \in rows : /\ d.full = p
                                  /\ DirAllows(AclsOf(acls, d.id), tags, "READ")
    IN  {p \in paths : readable[p]}

rootNormalised(path) == IF path = EmptyPath THEN Root ELSE path

\* The configs among cs a caller may read by their own ACLs.
AllowedConfigs(cs, acls, tags, level) ==
    {c \in cs : ConfigAllows(AclsOf(acls, c.id), tags, level)}

\* TreeForACLTags without a prefix, in one instant: the configs it hangs into
\* the tree.
TreeConfigs(tags) ==
    {c \in AllowedConfigs(configs, configAcl, tags, "READ") :
        rootNormalised(c.path) \in readableDirectories(dirs, dirAcl, tags)}

-----------------------------------------------------------------------------
(* Transactions.  The guard of each is a definition of its own: the call   *)
(* commits exactly when the guard holds.                                   *)

Init == /\ inode = 0
        /\ dirs = {}
        /\ dirAcl = {}
        /\ configs = {}
        /\ configAcl = {}
        /\ contents = {}

\* The rows insertACLs adds for an owner.
AclRows(owner, acls) == {[owner |-> owner, entry |-> e] : e \in Storable(acls)}

\* Altered form: the rows of the owner stay.
Disown_Keep(table, owner) == table

\* deleteACLs
Disown(table, owner) == {row \in table : row.owner # owner}

\* Altered form: the DELETE has lost its WHERE.
ReplaceAcls_All(table, owner, acls) == AclRows(owner, acls)

\* replaceACLs
ReplaceAcls(table, owner, acls) == Disown(table, owner) \cup AclRows(owner, acls)

\* Altered form: every level is created, existing or not.
Missing_All(full) == Components(full)

\* ensureDirectories: the components of full that have no row.
Missing(full) == Components(full) \ DirPaths

CanCreateDirectory(full) ==
    /\ full \notin DirPaths
    /\ inode + Cardinality(Missing(full)) <= MaxInode

\* The ids nextInode hands to the missing components, parents first.
Numberings(missing) ==
    {f \in [missing -> inode + 1 .. inode + Cardinality(missing)] :
        \A p, q \in missing : Len(p) < Len(q) => f[p] < f[q]}

\* The parent_id of a new row: the row of the parent, existing or just made;
\* NULL below the root.
ParentId(p, number) ==
    IF Len(p) = 1 THEN NoParent
    ELSE IF Parent(p) \in DOMAIN number THEN number[Parent(p)]
    ELSE (CHOOSE d \in dirs : d.full = Parent(p)).id

\* Altered form: one inode is taken for the whole chain.
CreateDirectory_OneInode(full, acls) ==
    /\ CanCreateDirectory(full)
    /\ \E number \in Numberings(Missing(full)) :
          /\ dirs' = dirs \cup
                {[id |-> number[p], full |-> p, parent |-> ParentId(p, number)] :
                    p \in Missing(full)}
          /\ dirAcl' = dirAcl \cup
                UNION {AclRows(number[p], acls) : p \in Missing(full)}
    /\ inode' = inode + 1
    /\ UNCHANGED <<configs, configAcl, contents>>

\* CreateDirectory gives every level it creates the same ACLs and leaves the
\* levels that exist alone.
CreateDirectory(full, acls) ==
    /\ CanCreateDirectory(full)
    /\ \E number \in Numberings(Missing(full)) :
          /\ dirs' = dirs \cup
                {[id |-> number[p], full |-> p, parent |-> ParentId(p, number)] :
                    p \in Missing(full)}
          /\ dirAcl' = dirAcl \cup
                UNION {AclRows(number[p], acls) : p \in Missing(full)}
    /\ inode' = inode + Cardinality(Missing(full))
    /\ UNCHANGED <<configs, configAcl, contents>>

\* Name and path are immutable: a request that carries them (EmptyPath if it does
\* not) has to carry the stored ones.
CanUpdateDirectory(id, full) ==
    \E d \in dirs : d.id = id /\ full \in {EmptyPath, d.full}

\* UpdateDirectory replaces the ACLs.
UpdateDirectory(id, acls) ==
    /\ id \in Ids(dirs)
    /\ dirAcl' = ReplaceAcls(dirAcl, id, acls)
    /\ UNCHANGED <<inode, dirs, configs, configAcl, contents>>

\* The two counts of DeleteDirectory: subdirectories by parent_id, configs by
\* path = full OR path LIKE full || '/%'.
ChildDirs(d) == {e \in dirs : e.parent = d.id}
ChildConfigs(d) == {c \in configs : c.path = d.full \/ <<d.full, c.path>> \in LikePath}

\* Altered forms: one of the two counts is left out.
CanDeleteDirectory_NoDirs(d) == ChildConfigs(d) = {}
CanDeleteDirectory_NoConfigs(d) == ChildDirs(d) = {}

CanDeleteDirectory(d) == ChildDirs(d) = {} /\ ChildConfigs(d) = {}

DeleteDirectory(id) ==
    /\ \E d \in dirs : /\ d.id = id
                       /\ CanDeleteDirectory(d)
                       /\ dirs' = dirs \ {d}
    /\ dirAcl' = Disown(dirAcl, id)
    /\ UNCHANGED <<inode, configs, configAcl, contents>>

\* Altered form: no search for the same path and name.
CanInsert_NoSearch(path, name) ==
    DirectoryExists(path) /\ inode + 2 <= MaxInode

CanInsert(path, name) ==
    /\ DirectoryExists(path)
    /\ ~ \E c \in configs : c.path = path /\ c.name = name
    /\ inode + 2 <= MaxInode

\* Upsert without an id, and insert: an inode for the config, one for its
\* first version, one clock reading for both.  Content is NOT NULL.
Insert(path, name, blob, acls, now) ==
    /\ CanInsert(path, name)
    /\ inode' = inode + 2
    /\ configs' = configs \cup
          {[id |-> inode + 1, path |-> path, name |-> name, current |-> inode + 2,
            created |-> now, updated |-> now]}
    /\ contents' = contents \cup
          {[id |-> inode + 2, config |-> inode + 1, blob |-> blob, created |-> now]}
    /\ configAcl' = configAcl \cup AclRows(inode + 1, acls)
    /\ UNCHANGED <<dirs, dirAcl>>

\* Altered form: the path is not compared.
CanUpdate_NoPath(c, path, name) == DirectoryExists(path) /\ c.name = name

CanUpdate(c, path, name) ==
    DirectoryExists(path) /\ c.path = path /\ c.name = name

\* Upsert does not ask whether the row is there.  GetConfigByID's nil has the name
\* and the path "", so a request that has neither compares equal to it, and the
\* assignment that follows dereferences it; any other is refused.
UpdatePanics(id, path, name) ==
    id \notin Ids(configs) /\ path = EmptyPath /\ name = EmptyName

\* Altered forms: the config is not repointed; the version is overwritten; the
\* versions before are deleted.
NewVersion_NotRepointed(c, blob, now) ==
    /\ inode + 1 <= MaxInode
    /\ inode' = inode + 1
    /\ contents' = contents \cup
          {[id |-> inode + 1, config |-> c.id, blob |-> blob, created |-> now]}
    /\ configs' = (configs \ {c}) \cup {[c EXCEPT !.updated = now]}
NewVersion_InPlace(c, blob, now) ==
    /\ contents' = {IF v.id = c.current THEN [v EXCEPT !.blob = blob, !.created = now] ELSE v :
                       v \in contents}
    /\ configs' = (configs \ {c}) \cup {[c EXCEPT !.updated = now]}
    /\ UNCHANGED inode
NewVersion_Pruned(c, blob, now) ==
    /\ inode + 1 <= MaxInode
    /\ inode' = inode + 1
    /\ contents' = {v \in contents : v.config # c.id} \cup
          {[id |-> inode + 1, config |-> c.id, blob |-> blob, created |-> now]}
    /\ configs' = (configs \ {c}) \cup
          {[c EXCEPT !.current = inode + 1, !.updated = now]}

\* update with content: a new version, and the config repointed at it.
NewVersion(c, blob, now) ==
    /\ inode + 1 <= MaxInode
    /\ inode' = inode + 1
    /\ contents' = contents \cup
          {[id |-> inode + 1, config |-> c.id, blob |-> blob, created |-> now]}
    /\ configs' = (configs \ {c}) \cup
          {[c EXCEPT !.current = inode + 1, !.updated = now]}

\* update without content: the versions stay as they are.
SameVersion(c, now) ==
    /\ configs' = (configs \ {c}) \cup {[c EXCEPT !.updated = now]}
    /\ UNCHANGED <<inode, contents>>

\* Altered form: update writes a version whether there is content or not.
Update_AlwaysVersion(id, path, name, content, acls, now) ==
    /\ \E c \in configs :
          /\ c.id = id
          /\ CanUpdate(c, path, name)
          /\ NewVersion(c, content, now)
    /\ configAcl' = ReplaceAcls(configAcl, id, acls)
    /\ UNCHANGED <<dirs, dirAcl>>

\* Upsert with an id, and update.  Name and path are immutable, the ACLs are
\* replaced in either case.
Update(id, path, name, content, acls, now) ==
    /\ \E c \in configs :
          /\ c.id = id
          /\ CanUpdate(c, path, name)
          /\ IF content = NoContent THEN SameVersion(c, now)
                                    ELSE NewVersion(c, content, now)
    /\ configAcl' = ReplaceAcls(configAcl, id, acls)
    /\ UNCHANGED <<dirs, dirAcl>>

\* Altered form: the inode of the config is handed out again.
Delete_FreeInode(id) ==
    /\ configAcl' = Disown(configAcl, id)
    /\ contents' = {v \in contents : v.config # id}
    /\ configs' = {c \in configs : c.id # id}
    /\ inode' = IF \A n \in Ids(dirs) \cup Ids(configs) : n <= id
                   THEN id - 1 ELSE inode
    /\ UNCHANGED <<dirs, dirAcl>>

\* Delete: ACL rows, every version, the config.  A missing id is no error.
Delete(id) ==
    /\ configAcl' = Disown(configAcl, id)
    /\ contents' = {v \in contents : v.config # id}
    /\ configs' = {c \in configs : c.id # id}
    /\ UNCHANGED <<inode, dirs, dirAcl>>

Next ==
    \/ \E full \in Path, acls \in AclList : CreateDirectory(full, acls)
    \/ \E id \in Ids(dirs), acls \in AclList : UpdateDirectory(id, acls)
    \/ \E id \in Ids(dirs) : DeleteDirectory(id)
    \/ \E path \in ConfigPath, name \in FileName, blob \in Blob,
          acls \in AclList, now \in Clock : Insert(path, name, blob, acls, now)
    \/ \E c \in configs, content \in Blob \cup {NoContent},
          acls \in AclList, now \in Clock :
          Update(c.id, c.path, c.name, content, acls, now)
    \/ \E id \in Ids(configs) : Delete(id)

Spec == Init /\ [][Next]_vars

-----------------------------------------------------------------------------
(* Invariants *)

\* Every table holds rows of its schema: among them, no version without content.
TypeOK ==
    /\ inode \in 0 .. MaxInode
    /\ dirs \subseteq DirRow
    /\ dirAcl \subseteq AclRow
    /\ configs \subseteq ConfigRow
    /\ configAcl \subseteq AclRow
    /\ contents \subseteq ContentRow

\* Ids are keys, and come from the one inode counter: the FUSE client numbers
\* its files and directories by them, so no two objects share one.  Only the
\* version a config had before there were versions has its config's id (see
\* Migration).
UniqueIds(table) == \A r, s \in table : r.id = s.id => r = s
InodesDistinct ==
    /\ UniqueIds(dirs) /\ UniqueIds(configs) /\ UniqueIds(contents)
    /\ \A n \in Ids(dirs) \cup Ids(configs) \cup Ids(contents) : n \in 1 .. inode
    /\ Ids(dirs) \cap Ids(configs) = {}
    /\ Ids(contents) \cap Ids(dirs) = {}
    /\ \A v \in contents : v.id \in Ids(configs) => v.id = v.config

\* The table has no unique index on (path, name): only the order of lookups and
\* inserts in CreateDirectory keeps a path from getting two rows.
PathsUnique == \A d, e \in dirs : d.full = e.full => d = e

\* Every directory hangs in the tree: the row of its parent path exists and is
\* the one parent_id names, so the walk over paths (readableDirectories,
\* DirectoryChain) and the count over parent_id (DeleteDirectory) agree.
TreeConnected ==
    \A d \in dirs :
        IF Len(d.full) = 1
        THEN d.parent = NoParent
        ELSE \E e \in dirs : e.full = Parent(d.full) /\ e.id = d.parent

\* No config is left in a directory that is gone: otherwise TreeForACLTags
\* fails for everyone ("missing directory").
ConfigsHoused == \A c \in configs : DirectoryExists(c.path)

\* A path and name designate one config (the search in Upsert; no unique index).
NamesUnique ==
    \A c, d \in configs : c.path = d.path /\ c.name = d.name => c = d

\* current_content_id carries no foreign key: it always names a version of the
\* same config, the last one written.
CurrentIsLatest ==
    \A c \in configs : \E v \in contents :
        /\ v.id = c.current
        /\ v.config = c.id
        /\ \A w \in contents : w.config = c.id => w.id <= v.id

\* A config is as old as its first version: insert reads the clock once, and
\* no update, delete or rollback takes the first version away from it.
FirstVersionStamp ==
    \A c \in configs : \E v \in contents :
        /\ v.config = c.id
        /\ v.created = c.created
        /\ \A w \in contents : w.config = c.id => v.id <= w.id

\* Deletes leave no rows behind and only grants are stored, whether or not the
\* connection enforces foreign keys.
NoOrphans ==
    /\ \A r \in dirAcl : r.owner \in Ids(dirs) /\ r.entry.acl # "UNKNOWN"
    /\ \A r \in configAcl : r.owner \in Ids(configs) /\ r.entry.acl # "UNKNOWN"
    /\ \A v \in contents : v.config \in Ids(configs)

\* List and GetConfig decide readability by different algorithms, a walk over
\* all directories and a lookup of the chain of one path: they agree.
ListAgreesWithGet ==
    \A tags \in SUBSET Tag, c \in configs :
        c \in TreeConfigs(tags) <=>
            /\ ConfigAllows(AclsOf(configAcl, c.id), tags, "READ")
            /\ pathReadable(c.path, tags)

\* A directory is refused as "not empty" only when something is in it.
RefusalMeansOccupied ==
    \A d \in dirs : ~ CanDeleteDirectory(d) =>
        \/ \E e \in dirs : e # d /\ d.full \in Components(e.full)
        \/ \E c \in configs : /\ c.path # EmptyPath
                              /\ d.full \in Components(c.path)

\* The tree shows "" and "/" as one directory: a name designates one config in
\* it as well.
TreeNamesUnique ==
    \A c, d \in configs :
        rootNormalised(c.path) = rootNormalised(d.path) /\ c.name = d.name => c = d

\* The invariants about directories; about configs and their versions.
DirInv == PathsUnique /\ TreeConnected
ConfigInv == /\ ConfigsHoused
             /\ NamesUnique
             /\ CurrentIsLatest
             /\ FirstVersionStamp

\* The inductive invariant: what a database that this code has written is like.
IInv == /\ TypeOK
        /\ InodesDistinct
        /\ DirInv
        /\ ConfigInv
        /\ NoOrphans

-----------------------------------------------------------------------------
(* Action properties *)

\* A version never changes and goes only with its config; a new one gets an id
\* above every id given out before, so an id never means two things.
VersionStep ==
    /\ \A v \in contents : v \in contents' \/ v.config \notin Ids(configs')
    /\ \A v \in contents' \ contents : v.id > inode
VersionsImmutable == [][VersionStep]_vars

\* An id is given out once: what is there under an id was there before, at the
\* same place with the same creation time, or the id is new.
IdStep ==
    /\ inode' >= inode
    /\ \A c \in configs' : \/ c.id > inode
                           \/ \E b \in configs :
                                 /\ b.id = c.id /\ b.created = c.created
                                 /\ b.path = c.path /\ b.name = c.name
    /\ \A d \in dirs' : d.id > inode \/ d \in dirs
IdsNeverReused == [][IdStep]_vars

\* What there is to say of an object: its row, its ACLs, its versions.
DirState(id) == <<{d \in dirs : d.id = id}, AclsOf(dirAcl, id)>>
ConfigState(id) == <<{c \in configs : c.id = id}, AclsOf(configAcl, id),
                     {v \in contents : v.config = id}>>

\* A call that makes an object touches none that was there: CreateDirectory leaves
\* the ACLs of the levels it finds alone, SetConfig without an id every other
\* config.  Any other call touches at most one: a replaced ACL list is one owner's,
\* a new or deleted version one config's.
TargetStep ==
    Cardinality({id \in Ids(dirs) : DirState(id)' # DirState(id)})
      + Cardinality({id \in Ids(configs) : ConfigState(id)' # ConfigState(id)})
      <= IF Ids(dirs)' \subseteq Ids(dirs) /\ Ids(configs)' \subseteq Ids(configs)
         THEN 1 ELSE 0
OneTarget == [][TargetStep]_vars

=============================================================================
