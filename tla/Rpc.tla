-------------------------------- MODULE Rpc --------------------------------
(***************************************************************************)
(* The server as its clients see it: every handler of                      *)
(* internal/api/server.go in one step, over the tables of Store.  Api has  *)
(* the same handlers statement by statement; what can go wrong between two *)
(* statements is its subject, what can go wrong between two calls of a     *)
(* client is the subject of the modules that extend this one.              *)
(*                                                                         *)
(* Both clients always send a content with a config, and are on the        *)
(* server's allow-list for creations.                                      *)
(***************************************************************************)
EXTENDS Store

CONSTANTS Me,  \* the identities the server sees behind the client
          now  \* the reading of the server's clock

ASSUME RpcAssumption == Me \subseteq Tag /\ now \in Clock /\ AclList = SUBSET Entry

\* containingDirectory, and its WRITE gate.
MayWriteInto(path) ==
    /\ DirectoryExists(path)
    /\ \A d \in dirs : d.full = path => DirAllows(AclsOf(dirAcl, d.id), Me, "WRITE")

MayWriteConfig(id) == ConfigAllows(AclsOf(configAcl, id), Me, "WRITE")

\* The answers of GetConfig: the config with its content, or nothing.
GetConfig(id) ==
    {[id |-> c.id, path |-> c.path, name |-> c.name, acls |-> AclsOf(configAcl, c.id),
      data |-> (CHOOSE v \in contents : v.id = c.current).blob.data] :
        c \in {d \in AllowedConfigs(configs, configAcl, Me, "READ") :
                  d.id = id /\ pathReadable(d.path, Me)}}

\* The answer of List: the tree, with sizes and without contents.
List ==
    LET readable == readableDirectories(dirs, dirAcl, Me)
    IN  [dirs |-> {[id |-> d.id, full |-> d.full, acls |-> AclsOf(dirAcl, d.id)] :
                      d \in {e \in dirs : e.full \in readable}},
         configs |-> {[id |-> c.id, path |-> c.path, name |-> c.name,
                       current |-> c.current, acls |-> AclsOf(configAcl, c.id),
                       size |-> (CHOOSE v \in contents : v.id = c.current).blob.size] :
                      c \in TreeConfigs(Me)}]

\* SetConfig without an id.
CanSetNew(path, name) == MayWriteInto(path) /\ CanInsert(path, name)
SetNew(path, name, blob, acls) ==
    CanSetNew(path, name) /\ Insert(path, name, blob, acls, now)

\* SetConfig with an id.
CanSet(id, path, name) ==
    /\ MayWriteInto(path)
    /\ MayWriteConfig(id)
    /\ \E c \in configs : c.id = id /\ CanUpdate(c, path, name)
    /\ inode + 1 <= MaxInode
Set(id, path, name, blob, acls) ==
    CanSet(id, path, name) /\ Update(id, path, name, blob, acls, now)

CanDeleteConfig(id) == id \in Ids(configs) /\ MayWriteConfig(id)
DeleteConfig(id) == CanDeleteConfig(id) /\ Delete(id)

\* CreateDirectory: WRITE on the deepest ancestor there is.
CanMakeDirectory(full) ==
    /\ \A d \in DirectoryChain(Parent(full)) :
          (\A e \in DirectoryChain(Parent(full)) : Len(e.full) <= Len(d.full)) =>
              DirAllows(AclsOf(dirAcl, d.id), Me, "WRITE")
    /\ CanCreateDirectory(full)
MakeDirectory(full, acls) == CanMakeDirectory(full) /\ CreateDirectory(full, acls)

directoryWritable(d) ==
    pathReadable(Parent(d.full), Me) /\ DirAllows(AclsOf(dirAcl, d.id), Me, "WRITE")

CanRemoveDirectory(id) ==
    \E d \in dirs : d.id = id /\ directoryWritable(d) /\ CanDeleteDirectory(d)
RemoveDirectory(id) == CanRemoveDirectory(id) /\ DeleteDirectory(id)

CanSetDirectory(id) == \E d \in dirs : d.id = id /\ directoryWritable(d)
SetDirectory(id, acls) == CanSetDirectory(id) /\ UpdateDirectory(id, acls)

=============================================================================
