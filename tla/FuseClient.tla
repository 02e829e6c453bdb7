----------------------------- MODULE FuseClient -----------------------------
(***************************************************************************)
(* The FUSE client: the file system of internal/fs/fs.go and the process   *)
(* of cmd/fs/main.go that mounts it.  The kernel's requests run as         *)
(* goroutines of their own over one snapshot of the server's tree, which a *)
(* background loop reloads, and so does every request that has changed     *)
(* something.  Other clients change the server meanwhile.                  *)
(*                                                                         *)
(* Reading the snapshot under its read lock is one step; the write lock is *)
(* held from before List is called until its answer is in place.  While    *)
(* the link is "away" the server cannot be reached or does not answer.     *)
(***************************************************************************)
EXTENDS Rpc

CONSTANTS Caller,      \* goroutines serving requests of the kernel
          Main,        \* the goroutine of LoadSnapshot, then of backgroundLoop
          None,        \* no goroutine, no request
          Component,   \* what may be between two slashes
          Blank,       \* that of them which is nothing
          Segments,    \* per config name: its components
          Seeds,       \* databases the server may have when the client starts
          Offset,      \* offsets of writes
          Chunk,       \* what one write carries
          OtherLists,  \* the ACL lists other clients give
          MaxRequests, \* requests of the kernel
          MaxChanges,  \* changes by other clients
          MaxFaults    \* crashes, signals, failed calls, losses of the link

Proc == Caller \cup {Main}

\* The server takes any name for a config, slashes included; no name of a
\* directory is empty.
ASSUME SegmentsAssumption ==
    /\ Name \subseteq Component \ {Blank} /\ Blank \in Component
    /\ \A n \in FileName : Segments[n] \in Seq(Component) \ {<<>>}
    /\ \A m, n \in FileName : Segments[m] = Segments[n] => m = n

\* Every client sends the size of what it sends.
ASSUME FuseAssumption ==
    /\ Main \notin Caller /\ None \notin Proc
    /\ Offset \subseteq Nat
    /\ Chunk \subseteq Data
    /\ \A d \in Chunk \cup {<<>>} : [data |-> d, size |-> Len(d)] \in Blob
    /\ OtherLists \subseteq AclList
    /\ \A s \in Seeds : \A v \in s.contents : v.blob.size = Len(v.blob.data)

NoNode == 0  \* the id "" of a node, and the id of a config that is not there

VARIABLES phase,     \* where run() is
          mounted,   \* the mount at the mount point: none, live, or stale (its
                     \* process is gone)
          point,     \* the mount point: missing or a directory
          create,    \* --create_mount_point
          snap,      \* the snapshot
          writer,    \* who holds its write lock
          proc,      \* per goroutine: where it is and what it holds
          nodes,     \* paths and ids of the nodes the kernel was given
          access,    \* ids in the map of access times
          link,      \* the connection to the server: up or away
          epoch,     \* for the properties: the number of changes of the tables
          requests, changes, faults

process == <<phase, mounted, point, create>>
fuseVars == <<vars, process, snap, writer, proc, nodes, access, link, epoch,
              requests, changes, faults>>

\* A snapshot without a tree: every lookup finds nothing.  epoch is the state
\* of the tables it shows.
NoTree == [dirs |-> {}, configs |-> {}, epoch |-> 0]

\* effect and began are for the properties: the state a call that succeeded has
\* made, and the one it began in.
Idle == [at |-> "idle", req |-> None, id |-> NoNode, acls |-> {}, got |-> {},
         tree |-> NoTree, began |-> 0, effect |-> 0]

Fault == faults < MaxFaults /\ faults' = faults + 1
NoFault == UNCHANGED <<requests, changes, faults>>

Become(p, s) == proc' = [proc EXCEPT ![p] = s]
Goto(p, at) == Become(p, [proc[p] EXCEPT !.at = at])

\* The tables as they are after a step that has changed them.
Counted == epoch' = epoch + 1

-----------------------------------------------------------------------------
(* Refresh, of whoever calls it *)

\* Altered form: the lock is not held during the call of List.
Lock_Late(p) ==
    /\ proc[p].at = "lock"
    /\ writer = None
    /\ Goto(p, "listing")
    /\ UNCHANGED <<vars, process, snap, writer, nodes, access, link, epoch>>
    /\ NoFault

Lock(p) ==
    /\ proc[p].at = "lock"
    /\ writer = None
    /\ writer' = p
    /\ Goto(p, "listing")
    /\ UNCHANGED <<vars, process, snap, nodes, access, link, epoch>>
    /\ NoFault

\* The server answers the List call.
Listed(p) ==
    /\ proc[p].at = "listing"
    /\ link = "up"
    /\ Become(p, [proc[p] EXCEPT
                    !.at = "listed",
                    !.tree = [dirs |-> List.dirs, configs |-> List.configs,
                              epoch |-> epoch]])
    /\ UNCHANGED <<vars, process, snap, writer, nodes, access, link, epoch>>
    /\ NoFault

\* What a goroutine does after Refresh: LoadSnapshot lets main go on, the loop
\* waits, Create looks its config up, every other request returns.
AfterRefresh(s) == IF s.req # None /\ s.req.op = "create"
                   THEN [s EXCEPT !.at = "seek", !.tree = NoTree]
                   ELSE Idle

\* The node Mkdir returns after its refresh.
NewDirs(s) == {Append(r.dir, r.name) : r \in {q \in {s.req} \ {None} : q.op = "mkdir"}}

\* main is done with LoadSnapshot.
MainGoesOn(p) == phase' = IF p = Main /\ phase = "load" THEN "ensure" ELSE phase

\* directoryMap over the answer, and the maps replaced.
Install(p) ==
    /\ proc[p].at = "listed"
    /\ snap' = proc[p].tree
    /\ writer' = None
    /\ Become(p, AfterRefresh(proc[p]))
    /\ nodes' = [nodes EXCEPT !.dirs = @ \cup NewDirs(proc[p])]
    /\ MainGoesOn(p)
    /\ UNCHANGED <<vars, mounted, point, create, access, link, epoch>>
    /\ NoFault

\* Altered forms: List has no deadline; the loop ends at the first failure.
Expire_Never(p) == FALSE /\ UNCHANGED fuseVars
Expire_Ends(p) ==
    /\ proc[p].at = "listing"
    /\ link = "away"
    /\ writer' = None
    /\ Become(p, IF p = Main THEN [Idle EXCEPT !.at = "ended"] ELSE Idle)
    /\ MainGoesOn(p)
    /\ UNCHANGED <<vars, mounted, point, create, snap, nodes, access, link, epoch>>
    /\ NoFault

\* List fails, after ten seconds at the latest or because the server refuses it:
\* the tree stays.  A request returns the error, LoadSnapshot and the loop log it.
Expire(p) ==
    /\ proc[p].at = "listing"
    /\ \/ link = "away" /\ UNCHANGED faults
       \/ link = "up" /\ Fault
    /\ writer' = None
    /\ Become(p, Idle)
    /\ MainGoesOn(p)
    /\ UNCHANGED <<vars, mounted, point, create, snap, nodes, access, link, epoch,
                   requests, changes>>

\* backgroundLoop: the interval is over.
Tick ==
    /\ phase = "serve"
    /\ proc[Main].at = "idle"
    /\ Goto(Main, "lock")
    /\ UNCHANGED <<vars, process, snap, writer, nodes, access, link, epoch>>
    /\ NoFault

-----------------------------------------------------------------------------
(* What the snapshot shows, under the read lock *)

\* Config(id): the entry, or nil.
ShownConfig(id) == {c \in snap.configs : c.id = id}

\* Config.FullPath, and the key Dir.Remove asks for: path, slash, name, in
\* components.  "/" has an empty one before its slash and "" has none at all, so
\* "/" and "" do not make the same keys; a name with slashes in it makes the same
\* key as a shorter name in a directory further down.
Key(path, name) ==
    (CASE path = Root      -> <<Blank>>
       [] path = EmptyPath -> <<>>
       [] OTHER            -> path) \o Segments[name]

WithKey(dir, name) == {c \in snap.configs : Key(c.path, c.name) = Key(dir, name)}
Depth(c) == Len(rootNormalised(c.path))

\* Altered form: the first config directoryMap meets under a key keeps it, as the
\* first directory does.
ConfigByPath_First(dir, name) ==
    {c \in WithKey(dir, name) : \A e \in WithKey(dir, name) : Depth(c) <= Depth(e)}

\* ConfigByPath: directoryMap stores the configs of a directory before those of
\* the directories in it, so the deepest one that makes the key has it.  Two at
\* the root, at "" and at "/", are stored in the order of the answer.
ConfigByPath(dir, name) ==
    {c \in WithKey(dir, name) : \A e \in WithKey(dir, name) : Depth(e) <= Depth(c)}

\* The children Lookup, ReadDirAll and Rmdir go through.
ChildDirectory(dir, name) == {d \in snap.dirs : d.full = Append(dir, name)}
ChildConfig(dir, name) ==
    {c \in snap.configs : rootNormalised(c.path) = dir /\ c.name = name}

\* The ACLs Mkdir copies: those of the parent the snapshot shows; none for the
\* root and for a parent that is not in it.
ParentAcls(dir) == UNION {d.acls : d \in {e \in snap.dirs : e.full = dir}}

-----------------------------------------------------------------------------
(* Requests of the kernel *)

FileOps == {"create", "remove"}
DirOps == {"mkdir", "rmdir"}

\* The names the kernel uses have no slash in them and are not empty.
KernelName == {n \in FileName : Len(Segments[n]) = 1 /\ Segments[n] # <<Blank>>}

\* On nodes the kernel has: directories by path, files by id.
FsRequests ==
    [op: FileOps \cup {"lookup"}, dir: nodes.dirs, name: KernelName]
      \cup {r \in [op: DirOps \cup {"lookup"}, dir: nodes.dirs, name: Name] :
               Append(r.dir, r.name) \in Path}
      \cup [op: {"read"}, node: nodes.ids]
      \cup [op: {"write"}, node: nodes.ids, offset: Offset, data: Chunk]

\* A request arrives.  Create alone starts without a look at the snapshot.
Begin(p) ==
    /\ phase = "serve"
    /\ proc[p].at = "idle"
    /\ requests < MaxRequests
    /\ requests' = requests + 1
    /\ \E r \in FsRequests :
          Become(p, [Idle EXCEPT !.req = r,
                                 !.began = IF r.op = "write" THEN epoch ELSE 0,
                                 !.at = IF r.op = "create" THEN "call" ELSE "look"])
    /\ UNCHANGED <<vars, process, snap, writer, nodes, access, link,
                   epoch, changes, faults>>

\* The id of an entry that was looked up; the id of none is "".
IdsOf(entries) == IF entries = {} THEN {NoNode} ELSE Ids(entries)

\* The entry a request is for.
Target(r) == CASE r.op = "remove" -> ConfigByPath(r.dir, r.name)
               [] r.op = "rmdir"  -> ChildDirectory(r.dir, r.name)
               [] OTHER           -> ShownConfig(r.node)

\* The read lock is free and the request reads the snapshot.  Lookup and Attr
\* return; Remove and Rmdir of what is not shown are ENOENT; ReadAll and Write
\* go on with whatever id they find.
Look(p) ==
    LET r == proc[p].req
    IN  /\ proc[p].at = "look"
        /\ writer = None
        /\ CASE r.op = "lookup" ->
                  /\ nodes' = [dirs |-> nodes.dirs \cup
                                   {d.full : d \in ChildDirectory(r.dir, r.name)},
                               ids |-> nodes.ids \cup
                                   IF ChildDirectory(r.dir, r.name) = {}
                                   THEN Ids(ChildConfig(r.dir, r.name)) ELSE {}]
                  /\ Become(p, Idle)
             [] r.op = "mkdir" ->
                  /\ Become(p, [proc[p] EXCEPT !.at = "call", !.acls = ParentAcls(r.dir)])
                  /\ UNCHANGED nodes
             [] r.op \in {"remove", "rmdir"} /\ Target(r) = {} ->
                  Become(p, Idle) /\ UNCHANGED nodes
             [] OTHER ->
                  /\ \E id \in IdsOf(Target(r)) :
                        Become(p, [proc[p] EXCEPT !.at = "call", !.id = id])
                  /\ UNCHANGED nodes
        /\ UNCHANGED <<vars, process, snap, writer, access, link, epoch>>
        /\ NoFault

\* What a file made through the mount is: empty, for everyone to write.
NewBlob == [data |-> <<>>, size |-> 0]
NewAcls == {[acl |-> "WRITE", who |-> Everyone]}

\* The RPC that changes something, and whether the server lets it.
Permitted(s) ==
    CASE s.req.op = "create" -> CanSetNew(s.req.dir, s.req.name)
      [] s.req.op = "mkdir"  -> CanMakeDirectory(Append(s.req.dir, s.req.name))
      [] s.req.op = "remove" -> CanDeleteConfig(s.id)
      [] s.req.op = "rmdir"  -> CanRemoveDirectory(s.id)

Perform(s) ==
    CASE s.req.op = "create" -> SetNew(s.req.dir, s.req.name, NewBlob, NewAcls)
      [] s.req.op = "mkdir"  -> MakeDirectory(Append(s.req.dir, s.req.name), s.acls)
      [] s.req.op = "remove" -> DeleteConfig(s.id)
      [] s.req.op = "rmdir"  -> RemoveDirectory(s.id)

\* The reply of a call that has changed the tables: the id created, and on to
\* Refresh; or it is lost with the link, and the request returns an error.
Succeeded(p, id) ==
    \/ /\ Become(p, [proc[p] EXCEPT !.at = "lock", !.id = id, !.effect = epoch + 1,
                                    !.acls = {}, !.got = {}])
       /\ UNCHANGED <<link, faults>>
    \/ /\ Fault
       /\ link' = "away"
       /\ Become(p, Idle)

\* Create, Mkdir, Remove and Rmdir.
Change(p) ==
    /\ proc[p].at = "call"
    /\ proc[p].req.op \in FileOps \cup DirOps
    /\ link = "up"
    /\ IF Permitted(proc[p])
       THEN /\ Perform(proc[p])
            /\ Counted
            /\ Succeeded(p, IF proc[p].req.op = "create" THEN inode + 1 ELSE NoNode)
       ELSE Become(p, Idle) /\ UNCHANGED <<vars, epoch, link, faults>>
    /\ UNCHANGED <<process, snap, writer, nodes, access, requests, changes>>

\* FullConfig: ReadAll returns it and notes the access, Write goes on with it.
Fetch(p) ==
    /\ proc[p].at = "call"
    /\ proc[p].req.op \in {"read", "write"}
    /\ link = "up"
    /\ LET got == GetConfig(proc[p].id)
       IN  /\ IF got = {} \/ proc[p].req.op = "read" THEN Become(p, Idle)
              ELSE Become(p, [proc[p] EXCEPT !.at = "send", !.got = got])
           /\ access' = IF got # {} /\ proc[p].req.op = "read"
                        THEN access \cup {proc[p].req.node} ELSE access
    /\ UNCHANGED <<vars, process, snap, writer, nodes, link, epoch>>
    /\ NoFault

\* Altered form: the size stays what the snapshot shows.
Patch_OldSize(data, offset, bytes) ==
    LET end == offset + Len(bytes)
        length == IF end > Len(data) THEN end ELSE Len(data)
    IN  [data |-> [i \in 1 .. length |->
                      IF i \in offset + 1 .. end THEN bytes[i - offset]
                      ELSE IF i <= Len(data) THEN data[i] ELSE 0],
         size |-> Len(data)]

\* The handler of Config.Write: the content grows with zeros up to the end of
\* the write, never shrinks, and takes the bytes at the offset.
Patch(data, offset, bytes) ==
    LET end == offset + Len(bytes)
        length == IF end > Len(data) THEN end ELSE Len(data)
    IN  [data |-> [i \in 1 .. length |->
                      IF i \in offset + 1 .. end THEN bytes[i - offset]
                      ELSE IF i <= Len(data) THEN data[i] ELSE 0],
         size |-> length]

\* Altered form: the ACLs are those of the snapshot.
Sent_Snapshot(s) ==
    LET full == CHOOSE c \in s.got : TRUE
    IN  [full EXCEPT !.acls = UNION {c.acls : c \in ShownConfig(s.id)}]

\* The config Write sends back but for its content: the one it has fetched.
Sent(s) == CHOOSE c \in s.got : TRUE

\* The second call of Write.  Blob bounds how long a file grows.
Send(p) ==
    LET c == Sent(proc[p])
        r == proc[p].req
        blob == Patch(c.data, r.offset, r.data)
    IN  /\ proc[p].at = "send"
        /\ link = "up"
        /\ IF CanSet(c.id, c.path, c.name) /\ blob \in Blob
           THEN /\ Set(c.id, c.path, c.name, blob, c.acls)
                /\ Counted
                /\ Succeeded(p, NoNode)
           ELSE Become(p, Idle) /\ UNCHANGED <<vars, epoch, link, faults>>
        /\ UNCHANGED <<process, snap, writer, nodes, access,
                       requests, changes>>

\* A call that does not get through.
CallFails(p) ==
    /\ proc[p].at \in {"call", "send"}
    /\ link = "away"
    /\ Become(p, Idle)
    /\ UNCHANGED <<vars, process, snap, writer, nodes, access, link, epoch>>
    /\ NoFault

\* The end of Create: the config it made, if the refreshed snapshot still has it.
Seek(p) ==
    /\ proc[p].at = "seek"
    /\ writer = None
    /\ nodes' = [nodes EXCEPT !.ids = @ \cup IdsOf(ShownConfig(proc[p].id))]
    /\ Become(p, Idle)
    /\ UNCHANGED <<vars, process, snap, writer, access, link, epoch>>
    /\ NoFault

-----------------------------------------------------------------------------
(* The process: run() of cmd/fs/main.go *)

\* The process is gone, and with it everything it kept in memory.
Exit == /\ phase' = "down"
        /\ snap' = NoTree
        /\ writer' = None
        /\ proc' = [p \in Proc |-> Idle]
        /\ nodes' = [dirs |-> {Root}, ids |-> {}]
        /\ access' = {}
        /\ UNCHANGED <<vars, create, link, epoch, requests, changes>>

Step(to) == /\ phase' = to
            /\ UNCHANGED <<vars, create, snap, writer, nodes, access, link, epoch,
                           requests, changes>>

\* NewRemoteConfigFS and LoadSnapshot, whose error is not returned.
Start == /\ phase = "down"
         /\ Goto(Main, "lock")
         /\ Step("load")
         /\ UNCHANGED <<mounted, point, faults>>

\* EnsureMountPoint, if asked for: the directory is made when stat says there is
\* none.  stat of a mount whose process is gone fails (ENOTCONN), which is fatal.
Ensure == /\ phase = "ensure"
          /\ ~ (create /\ mounted = "stale")
          /\ point' = IF create THEN "directory" ELSE point
          /\ Step("unmount")
          /\ UNCHANGED <<mounted, proc, faults>>

EnsureFails == /\ phase = "ensure"
               /\ create /\ mounted = "stale"
               /\ Exit
               /\ UNCHANGED <<mounted, point, faults>>

\* Altered form: nothing is tried.
AttemptUnmount_Skip ==
    /\ phase = "unmount"
    /\ Step("mount")
    /\ UNCHANGED <<mounted, point, proc, faults>>

\* AttemptUnmountIfNecessary: one of three attempts removes a mount that is
\* there, or none does.  What it returns is logged only.
AttemptUnmount ==
    /\ phase = "unmount"
    /\ \/ mounted' = "none" /\ UNCHANGED faults
       \/ mounted = "stale" /\ Fault /\ UNCHANGED mounted
    /\ Step("mount")
    /\ UNCHANGED <<point, proc>>

\* Mount, and the goroutine of Serve.
Mount == /\ phase = "mount"
         /\ point = "directory" /\ mounted = "none"
         /\ mounted' = "live"
         /\ Step("serve")
         /\ UNCHANGED <<point, proc, faults>>

MountFails == /\ phase = "mount"
              /\ point = "missing" \/ mounted = "stale"
              /\ Exit
              /\ UNCHANGED <<mounted, point, faults>>

\* A signal: Close unmounts, whether that works or not, and closes the device.
Stop == /\ phase = "serve"
        /\ Fault
        /\ mounted' \in {"none", "stale"}
        /\ Exit
        /\ UNCHANGED point

Crash == /\ phase # "down"
         /\ Fault
         /\ mounted' = IF mounted = "live" THEN "stale" ELSE mounted
         /\ Exit
         /\ UNCHANGED point

-----------------------------------------------------------------------------
(* The rest of the world *)

Drop == /\ link = "up"
        /\ Fault
        /\ link' = "away"
        /\ UNCHANGED <<vars, process, snap, writer, proc, nodes, access, epoch,
                       requests, changes>>

Reconnect == /\ link = "away"
             /\ link' = "up"
             /\ UNCHANGED <<vars, process, snap, writer, proc, nodes, access, epoch>>
             /\ NoFault

\* Changes by other clients, which send the sizes of what they send.
Others ==
    /\ changes < MaxChanges
    /\ changes' = changes + 1
    /\ \/ \E path \in Path \cup {Root, EmptyPath}, name \in FileName :
             Insert(path, name, NewBlob, NewAcls, now)
       \/ \E c \in configs, acls \in OtherLists :
             Update(c.id, c.path, c.name, NoContent, acls, now)
       \/ \E c \in configs, data \in Chunk \cup {<<>>} :
             Update(c.id, c.path, c.name, [data |-> data, size |-> Len(data)],
                    AclsOf(configAcl, c.id), now)
       \/ \E c \in configs : Delete(c.id)
       \/ \E full \in Path : CreateDirectory(full, {})
       \/ \E d \in dirs, acls \in OtherLists : UpdateDirectory(d.id, acls)
       \/ \E d \in dirs : DeleteDirectory(d.id)
    /\ Counted
    /\ UNCHANGED <<process, snap, writer, proc, nodes, access, link, requests, faults>>

-----------------------------------------------------------------------------

FuseInit == /\ \E s \in Seeds :
                  /\ inode = s.inode
                  /\ dirs = s.dirs /\ dirAcl = s.dirAcl
                  /\ configs = s.configs /\ configAcl = s.configAcl
                  /\ contents = s.contents
            /\ IInv  \* a database the server has written
            /\ phase = "down"
            /\ mounted = "none"
            /\ point \in {"missing", "directory"}
            /\ create \in BOOLEAN
            /\ create => point = "missing"
            /\ snap = NoTree
            /\ writer = None
            /\ proc = [p \in Proc |-> Idle]
            /\ nodes = [dirs |-> {Root}, ids |-> {}]
            /\ access = {}
            /\ link = "up"
            /\ epoch = 0 /\ requests = 0 /\ changes = 0 /\ faults = 0

\* Steps of whoever has the lock, and of main.
Holding(p) == Listed(p) \/ Expire(p) \/ Install(p)
Request(p) == Begin(p) \/ Look(p) \/ Change(p) \/ Fetch(p) \/ Send(p) \/ CallFails(p) \/ Seek(p)
Run == Start \/ Ensure \/ EnsureFails \/ AttemptUnmount \/ Mount \/ MountFails \/ Tick

FuseNext == \/ \E p \in Proc : Lock(p) \/ Holding(p)
            \/ \E p \in Caller : Request(p)
            \/ Run \/ Stop \/ Crash
            \/ Drop \/ Reconnect \/ Others

\* The goroutines are scheduled, the timers of the loop and of List go off, the
\* server answers List while it can be reached, and whoever waits for the lock
\* gets it: sync.RWMutex lets waiting readers in before the next writer, and its
\* mutex hands over to a writer that has waited.  Nothing is assumed of the other
\* calls, which have no deadline, or of the link.
Fairness == /\ WF_fuseVars(Run)
            /\ WF_fuseVars(\E p \in Proc : Holding(p))
            /\ SF_fuseVars(Lock(Main))
            /\ \A p \in Caller : SF_fuseVars(Look(p) \/ Seek(p))

FuseSpec == FuseInit /\ [][FuseNext]_fuseVars /\ Fairness

-----------------------------------------------------------------------------
(* Properties *)

\* What the snapshot shows under an id stays true of it for as long as there is
\* such an object, however old the snapshot is: its place and name, and a size
\* that is the length of a version it had.  Attr gives the kernel that size, which
\* cuts what ReadAll returns to it.
SnapshotTrue ==
    /\ \A s \in snap.dirs, d \in dirs : d.id = s.id => d.full = s.full
    /\ \A s \in snap.configs, c \in configs :
          c.id = s.id =>
              /\ c.path = s.path /\ c.name = s.name
              /\ \E v \in contents : /\ v.id = s.current
                                     /\ v.config = c.id
                                     /\ Len(v.blob.data) = s.size

\* A request that returns without an error, or goes on to look up what it made,
\* leaves its effect in the snapshot, and no tree listed earlier ever replaces it,
\* neither by the loop nor by another request.
OwnWritesVisible ==
    [][phase' = "serve" /\ snap' # snap =>
          /\ snap'.epoch >= snap.epoch
          /\ \A p \in Caller : proc[p].at = "listed" /\ proc'[p].at # "listed" =>
                snap'.epoch >= proc[p].effect]_fuseVars

\* A Write during which nobody else changes anything changes the bytes it is for,
\* fills a gap with zeros and leaves the other bytes and the ACLs as they are, even
\* those the snapshot has never seen.
WriteStep(p) ==
    LET s == proc[p]
    IN  /\ s.at = "send" /\ proc'[p] # s
        /\ inode' # inode
        /\ s.began = epoch
WriteIsLocal ==
    [][\A p \in Caller : WriteStep(p) =>
        LET r == proc[p].req
            old == (CHOOSE v \in contents :
                       \E c \in configs : c.id = r.node /\ v.id = c.current).blob.data
            new == (CHOOSE v \in contents' :
                       \E c \in configs' : c.id = r.node /\ v.id = c.current).blob.data
        IN  /\ configAcl' = configAcl
            /\ \A i \in 1 .. Len(r.data) : new[r.offset + i] = r.data[i]
            /\ \A i \in 1 .. Len(new) :
                  i \notin r.offset + 1 .. r.offset + Len(r.data) =>
                      new[i] = IF i <= Len(old) THEN old[i] ELSE 0
            /\ Len(new) >= Len(old)]_fuseVars

\* A name means the object that has it, however old the snapshot is and whatever
\* others put there meanwhile.  Remove takes a config that is stored in this very
\* directory under this name, if the snapshot shows one, before any other that
\* makes the same key, and deletes none that does not make it; Rmdir deletes none
\* but the directory it was asked about; and Create returns no node of a config
\* that is somewhere else.
NameMeansObject ==
    [][\A p \in Caller :
        LET r == proc[p].req
        IN  proc'[p] # proc[p] /\ r # None =>
              /\ r.op = "remove" /\ r.dir # Root /\ proc'[p].at = "call" =>
                    \A c \in snap.configs : c.path = r.dir /\ c.name = r.name =>
                        proc'[p].id = c.id
              /\ r.op = "remove" =>
                    \A c \in configs \ configs' : Key(c.path, c.name) = Key(r.dir, r.name)
              /\ r.op = "rmdir" =>
                    \A d \in dirs \ dirs' : d.full = Append(r.dir, r.name)
              /\ proc[p].at = "seek" /\ phase' = "serve" =>
                    \A c \in configs : c.id \in nodes'.ids \ nodes.ids =>
                        c.path = r.dir /\ c.name = r.name]_fuseVars

\* Every lookup is answered, also when the server never is: who holds the lock of
\* the snapshot during a List gives it back.
LookupsAnswered ==
    \A p \in Caller : (proc[p].at \in {"look", "seek"}) ~> (proc[p].at \notin {"look", "seek"})

\* Once the server stays reachable and is left alone, the mount shows its tree,
\* however often loading it has failed before.
Fresh == snap.dirs = List.dirs /\ snap.configs = List.configs
Converges == <>[](link = "up" /\ phase = "serve") => <>[]Fresh

\* A client that has ended, a mount left behind or not, serves again once it is
\* started again, as long as the mount point exists.
ComesBack == point = "directory" /\ ~ create => (phase = "down" ~> phase = "serve")

\* The same with --create_mount_point, which makes the directory and is "a no-op
\* when the path is already a directory".
ComesBackCreating == create => (phase = "down" ~> phase = "serve")

=============================================================================
