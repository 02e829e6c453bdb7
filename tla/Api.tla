-------------------------------- MODULE Api --------------------------------
(***************************************************************************)
(* The gRPC handlers of internal/api/server.go, any number of them in      *)
(* flight at once over the store.                                          *)
(*                                                                         *)
(* A handler first reads, with one SELECT after the other, what it needs   *)
(* to decide, and then runs one transaction.  Each SELECT borrows the only *)
(* connection for itself, so between two of them, and between the last one *)
(* and the transaction, any other handler may run: one action per SELECT,  *)
(* one per transaction.  A request is a record of the fields its handler   *)
(* reads; tags are the identities TailscaleAuthenticationInterceptor (or   *)
(* StripACLTagsInterceptor, then none) has put into its metadata.          *)
(***************************************************************************)
EXTENDS Store

CONSTANTS Proc,           \* handler goroutines
          Request,        \* the requests clients send
          NoRequest,
          NoId,           \* an id or a version the request leaves out
          CreateAllowed,  \* the --create_allowed_tags list
          Seeds,          \* databases the server may find when it starts
          CommitMayFail   \* whether SQLite may fail a COMMIT

ASSUME ApiAssumption == /\ CreateAllowed \subseteq Tag
                        /\ CommitMayFail \in BOOLEAN
                        /\ NoId \notin Nat

ConfigOps == {"GetConfig", "UpdateConfig", "DeleteConfig"}
DirOps == {"GetDirectory", "UpdateDirectory", "DeleteDirectory"}
CreateOps == {"CreateConfig", "CreateDirectory"}
ReadOps == {"GetConfig", "GetDirectory"}

\* The fields of a request that end up in a table.
ASSUME RequestAssumption ==
    \A r \in Request :
        /\ r.op \in ConfigOps \cup DirOps \cup CreateOps \cup {"List"}
        /\ r.op \in {"CreateConfig", "UpdateConfig"} =>
              r.content \in Blob \cup {NoContent} /\ r.acls \in AclList
        /\ r.op = "CreateConfig" => r.path \in ConfigPath /\ r.name \in FileName
        /\ r.op = "CreateDirectory" => r.full \in Path
        /\ r.op \in {"CreateDirectory", "UpdateDirectory"} => r.acls \in AclList

VARIABLES h,     \* per handler: its request, where it is, what it has read
          seen   \* per handler, for the properties only: what held all along

apiVars == <<vars, h, seen>>

\* objs and objAcl: the rows and ACL rows of the object asked for, for List of
\* all configs; chain and chainAcl: those of a chain, for List of all directories.
Fresh(r) == [req |-> r, at |-> "done", code |-> "none", objs |-> {},
             objAcl |-> {}, content |-> {}, chain |-> {}, chainAcl |-> {}]

\* The handler returns; what it read is gone with its stack.
Answer(p, code) ==
    h' = [h EXCEPT ![p] = [Fresh(@.req) EXCEPT !.code = code]]

Become(p, s) == h' = [h EXCEPT ![p] = s]

\* loadACLs for the rows a query returned.
LoadACLs(table, rows) == {r \in table : r.owner \in Ids(rows)}

TheObject(s) == CHOOSE o \in s.objs : TRUE

-----------------------------------------------------------------------------
(* Decisions on what was read *)

canCreate(tags) == CreateAllowed = {} \/ tags \cap CreateAllowed # {}

\* The directory whose chain the handler looks up.
TargetPath(s) ==
    CASE s.req.op \in {"CreateConfig", "UpdateConfig"} -> s.req.path
      [] s.req.op = "CreateDirectory" -> Parent(s.req.full)
      [] s.req.op = "GetConfig" -> TheObject(s).path
      [] s.req.op = "GetDirectory" -> TheObject(s).full
      [] OTHER -> Parent(TheObject(s).full)

Exists(path, rows) == path \in {Root, EmptyPath} \cup {d.full : d \in rows}

AllAllow(rows, acls, tags, level) ==
    \A d \in rows : DirAllows(AclsOf(acls, d.id), tags, level)

deepestExistingAncestor(rows) ==
    {d \in rows : \A e \in rows : Len(e.full) <= Len(d.full)}

\* The hierarchical gates, once the chain and its ACLs are there: READ on the
\* whole chain to reach an object, WRITE on the object to change a directory, on
\* the containing directory to write a config, and on the deepest directory
\* there is to create one.
Gate(s) ==
    LET op == s.req.op
        tags == s.req.tags
    IN  /\ op \in ReadOps \cup DirOps =>
              /\ Exists(TargetPath(s), s.chain)
              /\ AllAllow(s.chain, s.chainAcl, tags, "READ")
        /\ op \in DirOps \ ReadOps =>
              DirAllows(AclsOf(s.objAcl, s.req.id), tags, "WRITE")
        /\ op \in {"CreateConfig", "UpdateConfig"} =>
              /\ Exists(s.req.path, s.chain)
              /\ AllAllow({d \in s.chain : d.full = s.req.path}, s.chainAcl, tags, "WRITE")
        /\ op = "CreateDirectory" =>
              AllAllow(deepestExistingAncestor(s.chain), s.chainAcl, tags, "WRITE")

\* The status of a request that does not pass.
Refusal(s) ==
    IF s.req.op \in {"CreateConfig", "UpdateConfig"} /\ ~ Exists(s.req.path, s.chain)
    THEN "FailedPrecondition" ELSE "PermissionDenied"

-----------------------------------------------------------------------------
(* The SELECTs of a request for one object *)

FirstStep(op) == IF op \in ConfigOps \cup DirOps THEN "object"
                 ELSE IF op \in CreateOps THEN "chain" ELSE "prefix"

\* A request arrives.  Who is not on the allow-list creates nothing.
Start(p) ==
    /\ h[p].at = "done"
    /\ \E r \in Request :
          IF r.op \in CreateOps /\ ~ canCreate(r.tags)
          THEN Become(p, [Fresh(r) EXCEPT !.code = "PermissionDenied"])
          ELSE Become(p, [Fresh(r) EXCEPT !.at = FirstStep(r.op)])
    /\ UNCHANGED vars

\* Altered form: the handler goes on without the object.
LoadObject_NoCheck(p) ==
    /\ h[p].at = "object"
    /\ LET table == IF h[p].req.op \in ConfigOps THEN configs ELSE dirs
       IN  Become(p, [h[p] EXCEPT !.objs = {o \in table : o.id = h[p].req.id},
                                  !.at = "objectAcl"])
    /\ UNCHANGED vars

\* GetConfigByID and GetDirectoryByID: the row.
LoadObject(p) ==
    /\ h[p].at = "object"
    /\ LET table == IF h[p].req.op \in ConfigOps THEN configs ELSE dirs
           rows == {o \in table : o.id = h[p].req.id}
       IN  IF rows = {} THEN Answer(p, "NotFound")
           ELSE Become(p, [h[p] EXCEPT !.objs = rows, !.at = "objectAcl"])
    /\ UNCHANGED vars

\* Their second query, and for UpdateConfig and DeleteConfig the check of the
\* config's own ACLs.  DeleteConfig has no gate on the directory.
LoadObjectAcl(p) ==
    /\ h[p].at = "objectAcl"
    /\ LET op == h[p].req.op
           table == IF op \in ConfigOps THEN configAcl ELSE dirAcl
           acls == LoadACLs(table, h[p].objs)
       IN  IF /\ op \in {"UpdateConfig", "DeleteConfig"}
              /\ AllowedConfigs(h[p].objs, acls, h[p].req.tags, "WRITE") = {}
           THEN Answer(p, "PermissionDenied")
           ELSE Become(p, [h[p] EXCEPT !.objAcl = acls,
                                       !.at = IF op = "GetConfig" THEN "content"
                                              ELSE IF op = "DeleteConfig" THEN "commit"
                                              ELSE "chain"])
    /\ UNCHANGED vars

\* GetConfigByID with content: the version asked for, or the one that was
\* current when the row was read.
LoadContent(p) ==
    /\ h[p].at = "content"
    /\ LET s == h[p]
           wanted == IF s.req.version = NoId THEN TheObject(s).current
                                             ELSE s.req.version
           rows == {v \in contents : v.id = wanted /\ v.config = s.req.id}
       IN  IF rows = {} THEN Answer(p, "NotFound")
           ELSE IF AllowedConfigs(s.objs, s.objAcl, s.req.tags, "READ") = {}
           THEN Answer(p, "PermissionDenied")
           ELSE Become(p, [s EXCEPT !.content = rows, !.at = "chain"])
    /\ UNCHANGED vars

\* DirectoryChain: the rows.
LoadChain(p) ==
    /\ h[p].at = "chain"
    /\ Become(p, [h[p] EXCEPT !.chain = DirectoryChain(TargetPath(h[p])),
                              !.at = "chainAcl"])
    /\ UNCHANGED vars

\* DirectoryChain: the ACLs of those rows, and the decision.
LoadChainAcl(p) ==
    /\ h[p].at = "chainAcl"
    /\ LET s == [h[p] EXCEPT !.chainAcl = LoadACLs(dirAcl, h[p].chain)]
       IN  IF ~ Gate(s) THEN Answer(p, Refusal(s))
           ELSE IF s.req.op \in ReadOps THEN Answer(p, "OK")
           ELSE Become(p, [s EXCEPT !.at = "commit"])
    /\ UNCHANGED vars

-----------------------------------------------------------------------------
(* List *)

\* The directory the listing is confined to, if one is named.
ListPrefix(p) ==
    /\ h[p].at = "prefix"
    /\ IF h[p].req.id = NoId \/ h[p].req.id \in Ids(dirs)
       THEN Become(p, [h[p] EXCEPT !.content = {d \in dirs : d.id = h[p].req.id},
                                   !.at = "dirs"])
       ELSE Answer(p, "NotFound")
    /\ UNCHANGED vars

\* allDirectoriesWithACLs: every directory, then their ACLs.
ListDirs(p) ==
    /\ h[p].at = "dirs"
    /\ Become(p, [h[p] EXCEPT !.chain = dirs, !.at = "dirAcl"])
    /\ UNCHANGED vars

ListDirAcl(p) ==
    /\ h[p].at = "dirAcl"
    /\ Become(p, [h[p] EXCEPT !.chainAcl = LoadACLs(dirAcl, h[p].chain),
                              !.at = "configs"])
    /\ UNCHANGED vars

\* A config path at the directory or below it.
Under(path, d) ==
    path = d.full \/ (path # EmptyPath /\ d.full \in Components(path))

\* Altered form: the configs in the directory of the prefix, none below it.
ListConfigs_Exact(p) ==
    /\ h[p].at = "configs"
    /\ Become(p, [h[p] EXCEPT
                    !.objs = {c \in configs : \A d \in h[p].content : c.path = d.full},
                    !.at = "configAcl"])
    /\ UNCHANGED vars

\* The configs, those under the prefix only.
ListConfigs(p) ==
    /\ h[p].at = "configs"
    /\ Become(p, [h[p] EXCEPT
                    !.objs = {c \in configs : \A d \in h[p].content : Under(c.path, d)},
                    !.at = "configAcl"])
    /\ UNCHANGED vars

\* What List answers from what it has read: the readable directories, and the
\* allowed configs in them.  findDirectory looks for the id of the prefix in
\* that tree: it returns its subtree, or nothing when the directory has gone.
ListedDirs(s) ==
    {d \in s.chain :
        /\ d.full \in readableDirectories(s.chain, s.chainAcl, s.req.tags)
        /\ \A e \in s.content : e \in s.chain /\ e.full \in Components(d.full)}

ListedConfigs(s) ==
    {c \in AllowedConfigs(s.objs, s.objAcl, s.req.tags, "READ") :
        /\ rootNormalised(c.path) \in
              readableDirectories(s.chain, s.chainAcl, s.req.tags)
        /\ s.content \subseteq s.chain}

\* The check of TreeForACLTags that fails the whole call: an allowed config in
\* a directory that was not among the directories read before.
MissingDirectory(s) ==
    \E c \in AllowedConfigs(s.objs, s.objAcl, s.req.tags, "READ") :
        ~ Exists(c.path, s.chain)

\* The ACLs of those configs, and the tree.
ListConfigAcl(p) ==
    /\ h[p].at = "configAcl"
    /\ LET s == [h[p] EXCEPT !.objAcl = LoadACLs(configAcl, h[p].objs)]
       IN  IF MissingDirectory(s) THEN Answer(p, "Internal")
           ELSE Become(p, [Fresh(s.req) EXCEPT !.code = "OK",
                                               !.objs = ListedConfigs(s),
                                               !.chain = ListedDirs(s),
                                               !.content = s.content])
    /\ UNCHANGED vars

-----------------------------------------------------------------------------
(* The transaction of a write *)

\* The calls that commit; the others roll back.
CanCommit(r) ==
    CASE r.op = "CreateConfig" -> CanInsert(r.path, r.name) /\ r.content # NoContent
      [] r.op = "UpdateConfig" -> \E c \in configs :
             /\ c.id = r.id
             /\ CanUpdate(c, r.path, r.name)
             /\ r.content = NoContent \/ inode + 1 <= MaxInode
      [] r.op = "DeleteConfig" -> TRUE
      [] r.op = "CreateDirectory" -> CanCreateDirectory(r.full)
      [] r.op = "UpdateDirectory" -> CanUpdateDirectory(r.id, r.full)
      [] OTHER -> \E d \in dirs : d.id = r.id /\ CanDeleteDirectory(d)

Panics(r) == r.op = "UpdateConfig" /\ UpdatePanics(r.id, r.path, r.name)

Transaction(r) ==
    \/ /\ r.op = "CreateConfig"
       /\ \E now \in Clock : Insert(r.path, r.name, r.content, r.acls, now)
    \/ /\ r.op = "UpdateConfig"
       /\ \E now \in Clock : Update(r.id, r.path, r.name, r.content, r.acls, now)
    \/ r.op = "DeleteConfig" /\ Delete(r.id)
    \/ r.op = "CreateDirectory" /\ CreateDirectory(r.full, r.acls)
    \/ r.op = "UpdateDirectory" /\ UpdateDirectory(r.id, r.acls)
    \/ r.op = "DeleteDirectory" /\ DeleteDirectory(r.id)

\* The status of a transaction that failed, by the text of its error.
Failure(r) ==
    IF r.op = "CreateDirectory" /\ r.full \in DirPaths THEN "AlreadyExists"
    ELSE IF r.op = "UpdateDirectory" /\ r.id \in Ids(dirs) THEN "InvalidArgument"
    ELSE IF r.op = "DeleteDirectory" /\ r.id \in Ids(dirs) THEN "FailedPrecondition"
    ELSE "Internal"

Commit(p) ==
    /\ h[p].at = "commit"
    /\ CanCommit(h[p].req)
    /\ Transaction(h[p].req)
    /\ Answer(p, "OK")

Rollback(p) ==
    /\ h[p].at = "commit"
    /\ ~ CanCommit(h[p].req)
    /\ ~ Panics(h[p].req)
    /\ Answer(p, Failure(h[p].req))
    /\ UNCHANGED vars

\* The recovery interceptor turns the panic into an answer.  Nobody finishes the
\* transaction: database/sql rolls it back when the call's context ends (StoreTx).
Panic(p) ==
    /\ h[p].at = "commit"
    /\ Panics(h[p].req)
    /\ Answer(p, "Unknown")
    /\ UNCHANGED vars

\* finish logs an error of COMMIT and returns none: the call has its result.
CommitLost(p) ==
    /\ CommitMayFail
    /\ h[p].at = "commit"
    /\ CanCommit(h[p].req)
    /\ Answer(p, "OK")
    /\ UNCHANGED vars

-----------------------------------------------------------------------------
(* What a request may expect, for the properties *)

ChainWritable(path, tags) ==
    /\ DirectoryExists(path)
    /\ \A d \in dirs : d.full = path => DirAllows(AclsOf(dirAcl, d.id), tags, "WRITE")

\* In this state, the object is there and every gate the request has to pass is
\* open.  (For CreateDirectory every existing level grants WRITE, so that it
\* does not matter which one is the deepest when.)
Permitted(r) ==
    CASE r.op = "GetConfig" ->
           \E c \in AllowedConfigs(configs, configAcl, r.tags, "READ") :
              /\ c.id = r.id
              /\ pathReadable(c.path, r.tags)
              /\ r.version # NoId =>
                    \E v \in contents : v.id = r.version /\ v.config = r.id
      [] r.op = "UpdateConfig" ->
           /\ \E c \in AllowedConfigs(configs, configAcl, r.tags, "WRITE") : c.id = r.id
           /\ ChainWritable(r.path, r.tags)
           /\ CanCommit(r)
      [] r.op = "DeleteConfig" ->
           \E c \in AllowedConfigs(configs, configAcl, r.tags, "WRITE") : c.id = r.id
      [] r.op = "CreateConfig" ->
           canCreate(r.tags) /\ ChainWritable(r.path, r.tags) /\ CanCommit(r)
      [] r.op = "CreateDirectory" ->
           /\ canCreate(r.tags)
           /\ AllAllow(DirectoryChain(Parent(r.full)), dirAcl, r.tags, "WRITE")
           /\ CanCommit(r)
      [] r.op = "GetDirectory" ->
           \E d \in dirs : d.id = r.id /\ pathReadable(d.full, r.tags)
      [] r.op = "List" -> r.id = NoId \/ r.id \in Ids(dirs)
      [] OTHER ->
           /\ \E d \in dirs : /\ d.id = r.id
                              /\ pathReadable(Parent(d.full), r.tags)
                              /\ DirAllows(AclsOf(dirAcl, d.id), r.tags, "WRITE")
           /\ CanCommit(r)

\* The configs a List has to show if they stay as they are.
Listable(r) ==
    IF r.op # "List" THEN {}
    ELSE {c.id : c \in {e \in TreeConfigs(r.tags) :
                          \A d \in dirs : d.id = r.id => Under(e.path, d)}}

\* granted: the request has been permitted in every state since it arrived.
\* steady: the configs its List had to show in all of them.
Observe ==
    seen' = [p \in Proc |->
        IF h'[p].at = "done"
        THEN IF h[p].at = "done" /\ h'[p] # h[p]
             THEN [granted |-> FALSE, steady |-> {}]
             ELSE seen[p]
        ELSE IF h[p].at = "done"
        THEN [granted |-> Permitted(h[p].req)', steady |-> Listable(h[p].req)']
        ELSE [granted |-> seen[p].granted /\ Permitted(h[p].req)',
              steady |-> seen[p].steady \cap Listable(h[p].req)']]

-----------------------------------------------------------------------------

\* The server starts on a database it has written before.
ApiInit ==
    /\ \E s \in Seeds : /\ inode = s.inode
                        /\ dirs = s.dirs
                        /\ dirAcl = s.dirAcl
                        /\ configs = s.configs
                        /\ configAcl = s.configAcl
                        /\ contents = s.contents
    /\ IInv
    /\ h = [p \in Proc |-> Fresh(NoRequest)]
    /\ seen = [p \in Proc |-> [granted |-> FALSE, steady |-> {}]]

Step(p) ==
    \/ Start(p)
    \/ LoadObject(p) \/ LoadObjectAcl(p) \/ LoadContent(p)
    \/ LoadChain(p) \/ LoadChainAcl(p)
    \/ ListPrefix(p) \/ ListDirs(p) \/ ListDirAcl(p)
    \/ ListConfigs(p) \/ ListConfigAcl(p)
    \/ Commit(p) \/ Rollback(p) \/ Panic(p) \/ CommitLost(p)

ApiNext == (\E p \in Proc : Step(p)) /\ Observe

ApiSpec == ApiInit /\ [][ApiNext]_apiVars

-----------------------------------------------------------------------------
(* Properties *)

Places == {"done", "object", "objectAcl", "content", "chain", "chainAcl", "commit",
           "prefix", "dirs", "dirAcl", "configs", "configAcl"}
ListPlaces == {"prefix", "dirs", "dirAcl", "configs", "configAcl"}
Codes == {"none", "OK", "NotFound", "PermissionDenied", "AlreadyExists",
          "InvalidArgument", "FailedPrecondition", "Internal", "Unknown"}

Handler == [req: Request \cup {NoRequest}, at: Places, code: Codes,
            objs: SUBSET (ConfigRow \cup DirRow), objAcl: SUBSET AclRow,
            content: SUBSET (ContentRow \cup DirRow),
            chain: SUBSET DirRow, chainAcl: SUBSET AclRow]

\* A handler serves a request, and is where that request can take it; past its
\* first query it has the object; a config is written only when its directory
\* was found; the nil that Upsert does not look for is met only by an update
\* that names neither path nor config, of a config that has gone meanwhile.
Serving(s) == /\ s.at # "done" => s.req \in Request
              /\ s.at \in ListPlaces => s.req.op = "List"
HasObject(s) ==
    s.at \notin {"done", "object"} /\ s.req.op \in ConfigOps \cup DirOps =>
        s.objs # {} /\ \A o \in s.objs : o.id = s.req.id
HasDirectory(s) ==
    s.at = "commit" /\ s.req.op \in {"CreateConfig", "UpdateConfig"} =>
        Exists(s.req.path, s.chain)
NilWasGone(s) ==
    s.code = "Unknown" =>
        /\ s.req.op = "UpdateConfig"
        /\ s.req.path = EmptyPath /\ s.req.name = EmptyName
        /\ s.req.id \in (0 .. inode) \ Ids(configs)

\* What a handler holds has its type, and up to its transaction no handler goes
\* on with the nil that GetConfigByID, GetDirectoryByID and containingDirectory
\* return for no row.  In the transaction Upsert does: that ends in a panic, and
\* only when the config it had checked has been deleted since.
HandlerOK ==
    /\ h \in [Proc -> Handler]
    /\ \A p \in Proc : /\ Serving(h[p]) /\ HasObject(h[p])
                       /\ HasDirectory(h[p]) /\ NilWasGone(h[p])

\* What a handler has read of an object stays true as long as anything is there
\* under its id: its place and its age, whatever other handlers commit.  The
\* handlers rely on it when they pass the id on to the transaction.
HeldRowsTrue ==
    \A p \in Proc : \A o \in h[p].objs :
        /\ h[p].req.op \in ConfigOps =>
              /\ o.id <= inode /\ o.id \notin Ids(dirs)
              /\ \A c \in configs : c.id = o.id =>
                    c.created = o.created /\ c.path = o.path /\ c.name = o.name
        /\ h[p].req.op \in DirOps =>
              /\ o.id <= inode /\ o.id \notin Ids(configs)
              /\ \A d \in dirs : d.id = o.id => d = o

Answered(p, op, code) == h[p].at = "done" /\ h[p].req # NoRequest
                         /\ h[p].req.op = op /\ h[p].code = code

\* Between its SELECTs a handler sees other requests come and go.  They cannot
\* make it refuse what was allowed all the time: a row that goes missing or an
\* ACL list read half before, half after a change never turns into an error for
\* a request that every state in between would have granted.
NoSpuriousRefusal ==
    \A p \in Proc :
        (/\ h[p].at = "done"
         /\ seen[p].granted
         /\ h[p].req.op # "List") => h[p].code = "OK"

\* Nor can they make List leave out a config that was there and readable from
\* the first query to the last, although its four queries see four states.
ListComplete ==
    \A p \in Proc : Answered(p, "List", "OK") => seen[p].steady \subseteq Ids(h[p].objs)

\* What List returns is one tree: the directory of every config and the parent
\* of every directory is in the answer too, up to the directory asked for.
ListTreeWhole ==
    \A p \in Proc : Answered(p, "List", "OK") =>
        LET paths == {d.full : d \in h[p].chain}
            top == IF h[p].req.id = NoId THEN {Root}
                                         ELSE {d.full : d \in h[p].content} \cap paths
        IN  /\ \A c \in h[p].objs : rootNormalised(c.path) \in paths \cup top
            /\ \A d \in h[p].chain : d.full \in top \/ Parent(d.full) \in paths \cup top

\* The checks a handler s has made on what it read: WRITE on the directory a
\* config goes into, on the object itself, on the directory a new one extends.
DirectoryChecked(s, path) ==
    /\ Exists(path, s.chain)
    /\ AllAllow({d \in s.chain : d.full = path}, s.chainAcl, s.req.tags, "WRITE")
ConfigChecked(s, c) ==
    \E o \in AllowedConfigs(s.objs, s.objAcl, s.req.tags, "WRITE") :
        /\ o.id = c.id /\ o.created = c.created
        /\ o.path = c.path /\ o.name = c.name
DirChecked(s, d) ==
    /\ d \in s.objs
    /\ DirAllows(AclsOf(s.objAcl, d.id), s.req.tags, "WRITE")
    /\ Exists(Parent(d.full), s.chain)
    /\ AllAllow(s.chain, s.chainAcl, s.req.tags, "READ")
ExtensionChecked(s, d) ==
    /\ canCreate(s.req.tags)
    /\ d.full \in Components(s.req.full)
    /\ AllAllow(deepestExistingAncestor(s.chain), s.chainAcl, s.req.tags, "WRITE")

\* The object a write changes, in its row, its ACLs or its versions, is the one
\* on which the handler found WRITE when it read it, and it is at the place whose
\* directories were checked: SetConfig checks the directory the request names, and
\* every change and delete goes by an id that may have been deleted, and the space
\* reused, since the check.  An object that is new went where the caller may create.
WriteStep ==
    \A p \in Proc : h[p].at = "commit" /\ h'[p].at = "done" =>
        LET s == h[p]
        IN  /\ \A c \in configs : ConfigState(c.id)' # ConfigState(c.id) =>
                  /\ ConfigChecked(s, c)
                  /\ c.id \in Ids(configs') => DirectoryChecked(s, c.path)
            /\ \A c \in configs' : c.id \notin Ids(configs) =>
                  canCreate(s.req.tags) /\ DirectoryChecked(s, c.path)
            /\ \A d \in dirs : DirState(d.id)' # DirState(d.id) => DirChecked(s, d)
            /\ \A d \in dirs' : d.id \notin Ids(dirs) => ExtensionChecked(s, d)
WrittenWasChecked == [][WriteStep]_apiVars

\* A call that answers OK has done what it says: a config created, or given new
\* content, has the new version in the database.
AcknowledgedIsStored ==
    [][\A p \in Proc :
          (/\ h[p].at = "commit" /\ h'[p].at = "done" /\ h'[p].code = "OK"
           /\ \/ h[p].req.op = "CreateConfig"
              \/ h[p].req.op = "UpdateConfig" /\ h[p].req.content # NoContent)
          => contents' # contents]_apiVars

\* List has nothing to refuse: without a directory, or with one that exists all
\* the time, it answers.
ListAnswers ==
    \A p \in Proc :
        (/\ h[p].at = "done"
         /\ seen[p].granted
         /\ h[p].req.op = "List") => h[p].code = "OK"

=============================================================================
