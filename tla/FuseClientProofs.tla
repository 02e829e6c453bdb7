-------------------------- MODULE FuseClientProofs --------------------------
(***************************************************************************)
(* Proofs about FuseClient, for any number of requests at once and every   *)
(* database the server has written.                                        *)
(*                                                                         *)
(* Requests and other clients change the tables by transactions of Store,  *)
(* so an id never means two things; that is why an old snapshot says       *)
(* nothing false of an id, and a request that goes by an id it has read    *)
(* meets the object it was asked about.  The lock keeps the snapshot from  *)
(* going back.                                                             *)
(***************************************************************************)
EXTENDS FuseClient, StoreProofs

Places == {"idle", "look", "call", "send", "lock", "listing", "listed", "seek"}

\* Where a request is once its call has succeeded.
After == {"lock", "listing", "listed", "seek"}

\* What the kernel may ask for.
Asked(r) ==
    /\ r.op \in FileOps \cup DirOps \cup {"lookup", "read", "write"}
    /\ r.op \in FileOps => r.dir \in Path \cup {Root} /\ r.name \in KernelName
    /\ r.op \in DirOps => Append(r.dir, r.name) \in Path
    /\ r.op = "write" => r.offset \in Offset /\ r.data \in Chunk

\* A tree the server has listed, now or earlier: what it shows of an id holds of
\* the object that has it.
DirTrue(s) == /\ s.id \in 1 .. inode
              /\ s.full \in Path
              /\ s.acls \subseteq Entry
              /\ \A d \in dirs : d.id = s.id => d.full = s.full
ConfigTrue(s) ==
    /\ s.id \in 1 .. inode
    /\ \A c \in configs : c.id = s.id =>
          /\ c.path = s.path /\ c.name = s.name
          /\ \E v \in contents : /\ v.id = s.current
                                 /\ v.config = c.id
                                 /\ Len(v.blob.data) = s.size
\* It shows every place once.
OnePerPlace(rows) ==
    \A s, t \in rows : s.path = t.path /\ s.name = t.name => s.id = t.id
TreeTrue(tree) == /\ \A s \in tree.dirs : DirTrue(s)
                  /\ \A s \in tree.configs : /\ ConfigTrue(s)
                                              /\ s.path \in ConfigPath
                                              /\ s.name \in FileName
                  /\ OnePerPlace(tree.configs)

\* The id a request goes by is that of what it was asked about.
Meant(s) ==
    /\ s.req.op = "remove" =>
          /\ s.id \in 1 .. inode
          /\ \A c \in configs : c.id = s.id =>
                Key(c.path, c.name) = Key(s.req.dir, s.req.name)
    /\ s.req.op = "rmdir" =>
          /\ s.id \in 1 .. inode
          /\ \A d \in dirs : d.id = s.id => d.full = Append(s.req.dir, s.req.name)
    /\ s.req.op \in {"read", "write"} => s.id \in {s.req.node, NoNode}

\* The id a Create has been given is that of a config it has put there.
Made(s) ==
    /\ s.id \in 1 .. inode
    /\ \A c \in configs : c.id = s.id => c.path = s.req.dir /\ c.name = s.req.name

\* A Write with what it has fetched, which is still so unless something changed.
Fetched(s) ==
    /\ s.req.op = "write"
    /\ s.got # {}
    /\ \A c \in s.got : c.id = s.req.node /\ c.acls \subseteq Entry
    /\ s.began = epoch => s.got = GetConfig(s.req.node)

\* A goroutine.
Shape(s) == s = [at |-> s.at, req |-> s.req, id |-> s.id, acls |-> s.acls,
                 got |-> s.got, tree |-> s.tree, began |-> s.began, effect |-> s.effect]
Good(s) ==
    /\ Shape(s)
    /\ s.at \in Places
    /\ s.req = None \/ Asked(s.req)
    /\ s.at \in {"look", "call", "send", "seek"} => Asked(s.req)
    /\ s.acls \subseteq Entry
    /\ s.began \in 0 .. epoch /\ s.effect \in 0 .. epoch
    /\ s.at = "idle" => s.req = None
    /\ s.at = "seek" => s.req.op = "create"
    /\ s.at = "call" => Meant(s)
    /\ s.at \in After /\ s.req # None /\ s.req.op = "create" => Made(s)
    /\ s.at = "send" => Fetched(s)
    /\ s.at = "listed" => TreeTrue(s.tree) /\ s.tree.epoch \in s.effect .. epoch

\* Everyone sends the sizes of what they send.
Sized == \A v \in contents : v.blob.size = Len(v.blob.data)

\* Who lists holds the lock, so no tree in the snapshot is younger than the one it
\* has been given.
Locked == \A p \in Proc :
              /\ proc[p].at \in {"listing", "listed"} <=> writer = p
              /\ proc[p].at = "listed" => proc[p].tree.epoch >= snap.epoch

FuseInv ==
    /\ IInv
    /\ Sized
    /\ epoch \in Nat
    /\ nodes = [dirs |-> nodes.dirs, ids |-> nodes.ids]
    /\ nodes.dirs \subseteq Path \cup {Root}
    /\ TreeTrue(snap) /\ snap.epoch \in 0 .. epoch
    /\ proc = [p \in Proc |-> proc[p]]
    /\ \A p \in Proc : Good(proc[p])
    /\ phase = "down" => \A p \in Proc : proc[p].at = "idle"
    /\ Locked

-----------------------------------------------------------------------------
(* What a change of the tables leaves true *)

\* A step of the tables that is counted if it is one.
Tabled == /\ [Next]_vars
          /\ epoch' \in Nat /\ epoch' >= epoch
          /\ epoch' = epoch => UNCHANGED vars

LEMMA TableFacts ==
  ASSUME IInv, [Next]_vars
  PROVE  /\ IInv'
         /\ inode \in Nat /\ inode' \in Nat /\ inode' >= inode
         /\ \A c \in configs' : c.id > inode \/ \E b \in configs :
                b.id = c.id /\ b.path = c.path /\ b.name = c.name
         /\ \A d \in dirs' : d.id > inode \/ d \in dirs
         /\ \A v \in contents : v \in contents' \/ v.config \notin Ids(configs')
<1>1. IInv'
  BY NextIInv
<1>2. inode \in Nat /\ inode' \in Nat
  BY <1>1 DEF IInv, TypeOK
<1>3. CASE UNCHANGED vars
  BY <1>1, <1>2, <1>3 DEF vars
<1>4. CASE ~ UNCHANGED vars
  <2>1. IdStep /\ VersionStep
    BY <1>4, NextIdStep, NextVersionStep
  <2> QED
    BY <1>1, <1>2, <2>1 DEF IdStep, VersionStep
<1> QED
  BY <1>3, <1>4

LEMMA DirTrueStays ==
  ASSUME IInv, [Next]_vars, NEW s, DirTrue(s)
  PROVE  DirTrue(s)'
<1>1. s.id \in 1 .. inode'
  BY TableFacts DEF DirTrue
<1>2. ASSUME NEW d \in dirs', d.id = s.id PROVE d.full = s.full
  <2>1. ~ (d.id > inode)
    BY <1>2, TableFacts DEF DirTrue
  <2>2. d \in dirs
    BY <2>1, TableFacts
  <2> QED
    BY <1>2, <2>2 DEF DirTrue
<1> QED
  BY <1>1, <1>2 DEF DirTrue

LEMMA ConfigTrueStays ==
  ASSUME IInv, [Next]_vars, NEW s, ConfigTrue(s)
  PROVE  ConfigTrue(s)'
<1>1. s.id \in 1 .. inode'
  BY TableFacts DEF ConfigTrue
<1>2. ASSUME NEW c \in configs', c.id = s.id
      PROVE  /\ c.path = s.path /\ c.name = s.name
             /\ \E v \in contents' : /\ v.id = s.current
                                     /\ v.config = c.id
                                     /\ Len(v.blob.data) = s.size
  <2>1. ~ (c.id > inode)
    BY <1>2, TableFacts DEF ConfigTrue
  <2>2. PICK b \in configs : b.id = c.id /\ b.path = c.path /\ b.name = c.name
    BY <2>1, TableFacts
  <2>3. PICK v \in contents : v.id = s.current /\ v.config = b.id /\ Len(v.blob.data) = s.size
    BY <1>2, <2>2 DEF ConfigTrue
  <2>4. v.config \in Ids(configs')
    BY <2>2, <2>3 DEF Ids
  <2>5. v \in contents'
    BY <2>4, TableFacts
  <2> QED
    BY <1>2, <2>2, <2>3, <2>5 DEF ConfigTrue
<1> QED
  BY <1>1, <1>2 DEF ConfigTrue

LEMMA TreeStays ==
  ASSUME IInv, [Next]_vars, NEW tree, TreeTrue(tree)
  PROVE  TreeTrue(tree)'
BY DirTrueStays, ConfigTrueStays DEF TreeTrue, OnePerPlace

LEMMA MeantStays ==
  ASSUME IInv, [Next]_vars, NEW s, Meant(s)
  PROVE  Meant(s)'
<1>1. s.id \in 1 .. inode => s.id \in 1 .. inode'
  BY TableFacts
<1>2. CASE s.req.op = "remove"
  <2>1. ASSUME NEW c \in configs', c.id = s.id
        PROVE  Key(c.path, c.name) = Key(s.req.dir, s.req.name)
    <3>1. ~ (c.id > inode)
      BY <1>2, <2>1, TableFacts DEF Meant
    <3>2. PICK b \in configs : b.id = c.id /\ b.path = c.path /\ b.name = c.name
      BY <3>1, TableFacts
    <3> QED
      BY <1>2, <2>1, <3>2 DEF Meant
  <2> QED
    BY <1>1, <1>2, <2>1 DEF Meant
<1>3. CASE s.req.op = "rmdir"
  <2>1. ASSUME NEW d \in dirs', d.id = s.id
        PROVE  d.full = Append(s.req.dir, s.req.name)
    <3>1. ~ (d.id > inode)
      BY <1>3, <2>1, TableFacts DEF Meant
    <3>2. d \in dirs
      BY <3>1, TableFacts
    <3> QED
      BY <1>3, <2>1, <3>2 DEF Meant
  <2> QED
    BY <1>1, <1>3, <2>1 DEF Meant
<1>4. CASE s.req.op \notin {"remove", "rmdir"}
  BY <1>4 DEF Meant
<1> QED
  BY <1>2, <1>3, <1>4

LEMMA MadeStays ==
  ASSUME IInv, [Next]_vars, NEW s, Made(s)
  PROVE  Made(s)'
<1>1. s.id \in 1 .. inode'
  BY TableFacts DEF Made
<1>2. ASSUME NEW c \in configs', c.id = s.id
      PROVE  c.path = s.req.dir /\ c.name = s.req.name
  <2>1. ~ (c.id > inode)
    BY <1>2, TableFacts DEF Made
  <2>2. PICK b \in configs : b.id = c.id /\ b.path = c.path /\ b.name = c.name
    BY <2>1, TableFacts
  <2> QED
    BY <1>2, <2>2 DEF Made
<1> QED
  BY <1>1, <1>2 DEF Made

\* The answer of GetConfig depends on the tables alone.
LEMMA GetConfigSame ==
  ASSUME UNCHANGED vars, NEW id
  PROVE  GetConfig(id)' = GetConfig(id)
BY DEF vars, GetConfig, AllowedConfigs, AclsOf, pathReadable, DirectoryExists, DirPaths,
       DirectoryChain

\* A goroutine that does not move is as it should be after a step of the others.
LEMMA GoodStays ==
  ASSUME IInv, Tabled, epoch \in Nat, NEW s, Good(s)
  PROVE  Good(s)'
<1>1. s.began \in 0 .. epoch' /\ s.effect \in 0 .. epoch'
  BY DEF Tabled, Good
<1>2. s.at = "call" => Meant(s)'
  BY MeantStays DEF Tabled, Good
<1>3. s.at = "send" => Fetched(s)'
  <2>1. SUFFICES ASSUME Fetched(s) PROVE Fetched(s)'
    BY DEF Good
  <2>2. ASSUME s.began = epoch' PROVE s.got = GetConfig(s.req.node)'
    <3>1. epoch' = epoch
      BY <2>2 DEF Tabled, Good
    <3>2. GetConfig(s.req.node)' = GetConfig(s.req.node)
      BY <3>1, GetConfigSame DEF Tabled
    <3> QED
      BY <2>1, <2>2, <3>1, <3>2 DEF Fetched
  <2> QED
    BY <2>1, <2>2 DEF Fetched
<1>4. s.at = "listed" => TreeTrue(s.tree)' /\ s.tree.epoch \in s.effect .. epoch'
  BY TreeStays DEF Tabled, Good
<1>5. s.at \in After /\ s.req # None /\ s.req.op = "create" => Made(s)'
  BY MadeStays DEF Tabled, Good
<1> QED
  BY <1>1, <1>2, <1>3, <1>4, <1>5 DEF Good, Shape

-----------------------------------------------------------------------------
(* What changes the tables is a transaction of the store *)

LEMMA SizedStep ==
  ASSUME Sized, \A v \in contents' : v \in contents \/ v.blob.size = Len(v.blob.data)
  PROVE  Sized'
BY DEF Sized

LEMMA InsertStep ==
  ASSUME Sized, NEW path \in ConfigPath, NEW name \in FileName, NEW blob \in Blob,
         NEW acls, acls \subseteq Entry, blob.size = Len(blob.data),
         Insert(path, name, blob, acls, now)
  PROVE  Next /\ Sized'
<1>1. acls \in AclList /\ now \in Clock
  BY RpcAssumption
<1>2. Next
  BY <1>1 DEF Next
<1>3. \A v \in contents' : v \in contents \/ v.blob.size = Len(v.blob.data)
  BY DEF Insert
<1> QED
  BY <1>2, <1>3, SizedStep

LEMMA UpdateStep ==
  ASSUME Sized, NEW id, NEW path, NEW name, NEW blob \in Blob \cup {NoContent},
         NEW acls, acls \subseteq Entry, blob # NoContent => blob.size = Len(blob.data),
         Update(id, path, name, blob, acls, now)
  PROVE  Next /\ Sized'
<1>1. acls \in AclList /\ now \in Clock
  BY RpcAssumption
<1>2. PICK c \in configs :
         /\ c.id = id /\ c.path = path /\ c.name = name
         /\ IF blob = NoContent THEN SameVersion(c, now) ELSE NewVersion(c, blob, now)
  BY DEF Update, CanUpdate
<1>3. Next
  BY <1>1, <1>2 DEF Next
<1>4. \A v \in contents' : v \in contents \/ v.blob.size = Len(v.blob.data)
  BY <1>2 DEF SameVersion, NewVersion
<1> QED
  BY <1>3, <1>4, SizedStep

LEMMA DeleteStep ==
  ASSUME Sized, NEW id \in Ids(configs), Delete(id)
  PROVE  Next /\ Sized'
BY DEF Next, Delete, Sized

LEMMA CreateDirectoryStep ==
  ASSUME Sized, NEW full \in Path, NEW acls, acls \subseteq Entry, CreateDirectory(full, acls)
  PROVE  Next /\ Sized'
<1>1. acls \in AclList
  BY RpcAssumption
<1>2. UNCHANGED contents
  BY DEF CreateDirectory
<1> QED
  BY <1>1, <1>2 DEF Next, Sized

LEMMA DirectoryStep ==
  ASSUME Sized, NEW id, NEW acls, acls \subseteq Entry,
         UpdateDirectory(id, acls) \/ DeleteDirectory(id)
  PROVE  Next /\ Sized'
<1>1. acls \in AclList
  BY RpcAssumption
<1>2. UNCHANGED contents /\ id \in Ids(dirs)
  BY DEF UpdateDirectory, DeleteDirectory, Ids
<1>3. Next
  BY <1>1, <1>2 DEF Next
<1> QED
  BY <1>2, <1>3 DEF Sized

LEMMA ChangeTables ==
  ASSUME FuseInv, NEW p \in Proc, Change(p)
  PROVE  Tabled /\ Sized'
<1>1. PICK s : s = proc[p]
  OBVIOUS
<1>2. Good(s) /\ s.at = "call" /\ Asked(s.req) /\ epoch \in Nat /\ Sized
  BY <1>1 DEF FuseInv, Change, Good
<1>3. CASE Permitted(s)
  <2>1. Perform(s) /\ epoch' = epoch + 1 /\ s.req.op \in FileOps \cup DirOps
    BY <1>1, <1>3 DEF Change, Counted
  <2>2. Next /\ Sized'
    <3>1. CASE s.req.op = "create"
      <4>1. Insert(s.req.dir, s.req.name, NewBlob, NewAcls, now)
        BY <2>1, <3>1 DEF Perform, SetNew
      <4>2. s.req.dir \in ConfigPath /\ s.req.name \in FileName
        BY <1>2, <3>1 DEF Asked, FileOps, ConfigPath, KernelName
      <4>3. NewBlob \in Blob /\ NewBlob.size = Len(NewBlob.data)
        BY FuseAssumption DEF NewBlob
      <4>4. NewAcls \subseteq Entry
        BY DEF NewAcls, Entry, Level
      <4> QED
        BY <1>2, <4>1, <4>2, <4>3, <4>4, InsertStep
    <3>2. CASE s.req.op = "mkdir"
      <4>1. CreateDirectory(Append(s.req.dir, s.req.name), s.acls)
        BY <2>1, <3>2 DEF Perform, MakeDirectory
      <4>2. Append(s.req.dir, s.req.name) \in Path /\ s.acls \subseteq Entry
        BY <1>2, <3>2 DEF Asked, DirOps, Good
      <4> QED
        BY <1>2, <4>1, <4>2, CreateDirectoryStep
    <3>3. CASE s.req.op = "remove"
      <4>1. Delete(s.id) /\ s.id \in Ids(configs)
        BY <2>1, <3>3 DEF Perform, DeleteConfig, CanDeleteConfig
      <4> QED
        BY <1>2, <4>1, DeleteStep
    <3>4. CASE s.req.op = "rmdir"
      <4>1. DeleteDirectory(s.id)
        BY <2>1, <3>4 DEF Perform, RemoveDirectory
      <4> QED
        BY <1>2, <4>1, DirectoryStep
    <3> QED
      BY <2>1, <3>1, <3>2, <3>3, <3>4 DEF FileOps, DirOps
  <2> QED
    BY <1>2, <2>1, <2>2 DEF Tabled
<1>4. CASE ~ Permitted(s)
  <2>1. UNCHANGED <<vars, epoch>>
    BY <1>1, <1>4 DEF Change
  <2> QED
    BY <1>2, <2>1 DEF Tabled, Sized, vars
<1> QED
  BY <1>3, <1>4

LEMMA SendTables ==
  ASSUME FuseInv, NEW p \in Proc, Send(p)
  PROVE  Tabled /\ Sized'
<1>1. PICK s : s = proc[p]
  OBVIOUS
<1>2. Good(s) /\ s.at = "send" /\ Fetched(s) /\ epoch \in Nat /\ Sized
  BY <1>1 DEF FuseInv, Send, Good
<1>3. PICK c \in s.got : c = Sent(s)
  BY <1>2 DEF Sent, Fetched
<1>4. PICK blob : blob = Patch(c.data, s.req.offset, s.req.data)
  OBVIOUS
<1>5. CASE CanSet(c.id, c.path, c.name) /\ blob \in Blob
  <2>1. Set(c.id, c.path, c.name, blob, c.acls) /\ epoch' = epoch + 1
    BY <1>1, <1>3, <1>4, <1>5 DEF Send, Counted
  <2>2. Update(c.id, c.path, c.name, blob, c.acls, now) /\ c.acls \subseteq Entry
    BY <1>2, <2>1 DEF Set, Fetched
  <2>3. blob.size = Len(blob.data)
    <3>1. blob.size \in Nat
      BY <1>5, DataAssumption DEF Blob
    <3>2. DOMAIN blob.data = 1 .. blob.size
      BY <1>4 DEF Patch
    <3>3. blob.data \in Seq(Nat)
      BY <1>5, DataAssumption DEF Blob
    <3> QED
      BY <3>1, <3>2, <3>3, LenProperties
  <2>4. Next /\ Sized'
    BY <1>2, <1>5, <2>2, <2>3, UpdateStep
  <2> QED
    BY <1>2, <2>1, <2>4 DEF Tabled
<1>6. CASE ~ (CanSet(c.id, c.path, c.name) /\ blob \in Blob)
  <2>1. UNCHANGED <<vars, epoch>>
    BY <1>1, <1>3, <1>4, <1>6 DEF Send
  <2> QED
    BY <1>2, <2>1 DEF Tabled, Sized, vars
<1> QED
  BY <1>5, <1>6

LEMMA OthersTables ==
  ASSUME FuseInv, Others
  PROVE  Tabled /\ Sized'
<1>1. epoch \in Nat /\ Sized /\ epoch' = epoch + 1
  BY DEF FuseInv, Others, Counted
<1>2. NewBlob \in Blob /\ NewBlob.size = Len(NewBlob.data)
  BY FuseAssumption DEF NewBlob
<1>3. NewAcls \subseteq Entry /\ \A l \in OtherLists : l \subseteq Entry
  BY FuseAssumption, RpcAssumption DEF NewAcls, Entry, Level
<1>4. ASSUME NEW path \in Path \cup {Root, EmptyPath}, NEW name \in FileName,
             Insert(path, name, NewBlob, NewAcls, now)
      PROVE  Next /\ Sized'
  BY <1>1, <1>2, <1>3, <1>4, InsertStep DEF ConfigPath
<1>5. ASSUME NEW c \in configs, NEW acls \in OtherLists,
             Update(c.id, c.path, c.name, NoContent, acls, now)
      PROVE  Next /\ Sized'
  BY <1>1, <1>3, <1>5, UpdateStep
<1>6. ASSUME NEW c \in configs, NEW data \in Chunk \cup {<<>>},
             Update(c.id, c.path, c.name, [data |-> data, size |-> Len(data)],
                    AclsOf(configAcl, c.id), now)
      PROVE  Next /\ Sized'
  <2>1. PICK blob \in Blob : blob = [data |-> data, size |-> Len(data)]
    BY FuseAssumption
  <2>2. AclsOf(configAcl, c.id) \subseteq Entry
    BY DEF FuseInv, IInv, TypeOK, AclsOf, AclRow
  <2> QED
    BY <1>1, <1>6, <2>1, <2>2, UpdateStep
<1>7. ASSUME NEW c \in configs, Delete(c.id) PROVE Next /\ Sized'
  BY <1>1, <1>7, DeleteStep DEF Ids
<1>8. ASSUME NEW full \in Path, CreateDirectory(full, {}) PROVE Next /\ Sized'
  BY <1>1, <1>8, CreateDirectoryStep
<1>9. ASSUME NEW d \in dirs, NEW acls \in OtherLists, UpdateDirectory(d.id, acls)
      PROVE  Next /\ Sized'
  BY <1>1, <1>3, <1>9, DirectoryStep
<1>10. ASSUME NEW d \in dirs, DeleteDirectory(d.id) PROVE Next /\ Sized'
  BY <1>1, <1>3, <1>10, DirectoryStep
<1>11. Next /\ Sized'
  BY <1>4, <1>5, <1>6, <1>7, <1>8, <1>9, <1>10 DEF Others
<1> QED
  BY <1>1, <1>11 DEF Tabled

-----------------------------------------------------------------------------
(* The goroutines *)

NodesGood == /\ nodes = [dirs |-> nodes.dirs, ids |-> nodes.ids]
             /\ nodes.dirs \subseteq Path \cup {Root}

LEMMA QuietTables ==
  ASSUME FuseInv, UNCHANGED <<vars, epoch>>
  PROVE  Tabled /\ Sized'
<1>1. UNCHANGED <<inode, dirs, dirAcl, configs, configAcl, contents>>
  BY DEF vars
<1> QED
  BY <1>1 DEF Tabled, Sized, FuseInv, vars

LEMMA IdleGood ==
  ASSUME epoch \in Nat
  PROVE  Good(Idle) /\ Idle.at = "idle"
BY DEF Good, Shape, Idle, Places, After

LEMMA SnapStays ==
  ASSUME FuseInv, Tabled, UNCHANGED snap
  PROVE  TreeTrue(snap)' /\ snap'.epoch \in 0 .. epoch'
<1>1. PICK t : t = snap
  OBVIOUS
<1>2. TreeTrue(t)'
  BY <1>1, TreeStays DEF FuseInv, Tabled
<1> QED
  BY <1>1, <1>2 DEF FuseInv, Tabled

LEMMA ProcsStay ==
  ASSUME FuseInv, Tabled, NEW p \in Proc, NEW s, Become(p, s), Good(s)'
  PROVE  /\ (proc = [q \in Proc |-> proc[q]])'
         /\ proc'[p] = s
         /\ \A q \in Proc : q # p => proc'[q] = proc[q]
         /\ (\A q \in Proc : Good(proc[q]))'
<1>1. /\ proc' = [q \in Proc |-> IF q = p THEN s ELSE proc[q]]
  BY DEF FuseInv, Become
<1>2. ASSUME NEW q \in Proc PROVE Good(proc[q])'
  <2>1. PICK t : t = proc[q]
    OBVIOUS
  <2>2. Good(t)'
    BY <2>1, GoodStays DEF FuseInv
  <2>3. proc'[q] = IF q = p THEN s ELSE t
    BY <1>1, <2>1
  <2> QED
    BY <2>2, <2>3
<1>3. \A q \in Proc : proc'[q] = IF q = p THEN s ELSE proc[q]
  BY <1>1
<1> QED
  BY <1>1, <1>2, <1>3

\* A step of one goroutine that has nothing to do with the lock.
LEMMA MoveKeeps ==
  ASSUME FuseInv, Tabled, Sized', NEW p \in Proc, NEW s, Become(p, s), Good(s)',
         NodesGood', UNCHANGED <<snap, writer, phase>>,
         proc[p].at # "idle" \/ phase # "down",
         s.at \in {"listing", "listed"} <=> proc[p].at \in {"listing", "listed"},
         s.at = "listed" => s.tree.epoch >= snap.epoch
  PROVE  FuseInv'
<1>1. IInv'
  BY TableFacts DEF FuseInv, Tabled
<1>2. epoch' \in Nat
  BY DEF Tabled
<1>3. Locked'
  BY ProcsStay DEF FuseInv, Locked
<1>4. phase # "down"
  BY DEF FuseInv
<1> QED
  BY <1>1, <1>2, <1>3, <1>4, SnapStays, ProcsStay DEF FuseInv, NodesGood

LEMMA LockKeeps ==
  ASSUME FuseInv, NEW p \in Proc, Lock(p)
  PROVE  FuseInv'
<1>1. Tabled /\ Sized' /\ UNCHANGED <<snap, phase, nodes, epoch>> /\ writer = None /\ writer' = p
  BY QuietTables DEF Lock, process
<1>2. PICK s : s = [proc[p] EXCEPT !.at = "listing"]
  OBVIOUS
<1>3. Become(p, s) /\ proc[p].at = "lock"
  BY <1>2 DEF Lock, Goto
<1>4. Good(s) /\ s.at = "listing"
  <2>1. PICK u : u = proc[p]
    OBVIOUS
  <2>2. Good(u) /\ u.at = "lock"
    BY <1>3, <2>1 DEF FuseInv
  <2>3. /\ Shape(s) /\ s.at = "listing" /\ s.req = u.req /\ s.acls = u.acls
        /\ s.began = u.began /\ s.effect = u.effect /\ s.id = u.id
    BY <1>2, <2>1, <2>2 DEF Good, Shape
  <2> QED
    BY <2>2, <2>3 DEF Good, Places, After, Made
<1>5. Good(s)'
  BY <1>1, <1>4, GoodStays DEF FuseInv
<1>6. IInv'
  BY <1>1, TableFacts DEF FuseInv, Tabled
<1>7. Locked'
  BY <1>1, <1>3, <1>4, <1>5, ProcsStay, FuseAssumption DEF FuseInv, Locked
<1>8. phase # "down"
  BY <1>3 DEF FuseInv
<1> QED
  BY <1>1, <1>3, <1>5, <1>6, <1>7, <1>8, SnapStays, ProcsStay DEF FuseInv

\* What the server lists is so.
LEMMA ListTrue ==
  ASSUME IInv, Sized
  PROVE  TreeTrue(List)
<1>1. ASSUME NEW s \in List.dirs PROVE DirTrue(s)
  <2>1. PICK d \in dirs : s = [id |-> d.id, full |-> d.full, acls |-> AclsOf(dirAcl, d.id)]
    BY DEF List
  <2>2. s.acls \subseteq Entry
    BY <2>1 DEF AclsOf, IInv, TypeOK, AclRow
  <2>3. s.id \in 1 .. inode
    BY <2>1 DEF IInv, InodesDistinct, Ids
  <2>4. s.full \in Path
    BY <2>1 DEF IInv, TypeOK, DirRow
  <2>5. \A e \in dirs : e.id = s.id => e.full = s.full
    BY <2>1 DEF IInv, InodesDistinct, UniqueIds
  <2> QED
    BY <2>2, <2>3, <2>4, <2>5 DEF DirTrue
<1>2. ASSUME NEW s \in List.configs
      PROVE  ConfigTrue(s) /\ s.path \in ConfigPath /\ s.name \in FileName
  <2>1. PICK c \in configs :
           s = [id |-> c.id, path |-> c.path, name |-> c.name,
                current |-> c.current, acls |-> AclsOf(configAcl, c.id),
                size |-> (CHOOSE v \in contents : v.id = c.current).blob.size]
    BY DEF List, TreeConfigs, AllowedConfigs
  <2>2. s.id \in 1 .. inode
    BY <2>1 DEF IInv, InodesDistinct, Ids
  <2>3. PICK v \in contents : v.id = c.current /\ v.config = c.id
    BY DEF IInv, ConfigInv, CurrentIsLatest
  <2>4. (CHOOSE w \in contents : w.id = c.current) = v
    BY <2>3 DEF IInv, InodesDistinct, UniqueIds
  <2>5. Len(v.blob.data) = s.size
    BY <2>1, <2>3, <2>4 DEF Sized
  <2>6. \A b \in configs : b.id = s.id => b = c
    BY <2>1 DEF IInv, InodesDistinct, UniqueIds
  <2>7. s.path \in ConfigPath /\ s.name \in FileName
    BY <2>1 DEF IInv, TypeOK, ConfigRow
  <2> QED
    BY <2>1, <2>2, <2>3, <2>5, <2>6, <2>7 DEF ConfigTrue
<1>3. ASSUME NEW s \in List.configs, NEW u \in List.configs,
             s.path = u.path, s.name = u.name
      PROVE  s.id = u.id
  <2>1. PICK c \in configs : s.id = c.id /\ s.path = c.path /\ s.name = c.name
    BY DEF List, TreeConfigs, AllowedConfigs
  <2>2. PICK d \in configs : u.id = d.id /\ u.path = d.path /\ u.name = d.name
    BY DEF List, TreeConfigs, AllowedConfigs
  <2>3. c = d
    BY <1>3, <2>1, <2>2 DEF IInv, ConfigInv, NamesUnique
  <2> QED
    BY <2>1, <2>2, <2>3
<1> QED
  BY <1>1, <1>2, <1>3 DEF TreeTrue, OnePerPlace

LEMMA ListedKeeps ==
  ASSUME FuseInv, NEW p \in Proc, Listed(p)
  PROVE  FuseInv'
<1>1. /\ Tabled /\ Sized' /\ UNCHANGED <<snap, writer, phase, nodes, epoch>>
      /\ proc[p].at = "listing"
  BY QuietTables DEF Listed, process
<1>2. PICK tree : tree = [dirs |-> List.dirs, configs |-> List.configs, epoch |-> epoch]
  OBVIOUS
<1>3. PICK s : s = [proc[p] EXCEPT !.at = "listed", !.tree = tree]
  OBVIOUS
<1>4. Become(p, s)
  BY <1>2, <1>3 DEF Listed
<1>5. TreeTrue(tree) /\ tree.epoch = epoch
  BY <1>2, ListTrue DEF FuseInv, TreeTrue
<1>6. Good(s) /\ s.at = "listed" /\ s.tree = tree
  <2>1. Good(proc[p]) /\ epoch \in Nat
    BY DEF FuseInv
  <2>2. /\ Shape(s) /\ s.at = "listed" /\ s.tree = tree /\ s.req = proc[p].req
        /\ s.acls = proc[p].acls /\ s.began = proc[p].began /\ s.effect = proc[p].effect
        /\ s.id = proc[p].id
    BY <1>3, <2>1 DEF Good, Shape
  <2> QED
    BY <1>1, <1>5, <2>1, <2>2 DEF Good, Places, After, Made
<1>7. Good(s)'
  BY <1>1, <1>6, GoodStays DEF FuseInv
<1>8. NodesGood'
  BY <1>1 DEF FuseInv, NodesGood
<1>9. s.tree.epoch >= snap.epoch
  BY <1>5, <1>6 DEF FuseInv
<1> QED
  BY <1>1, <1>4, <1>6, <1>7, <1>8, <1>9, MoveKeeps

\* Whoever has the lock gives it back, with a new tree or the old one.
LEMMA UnlockKeeps ==
  ASSUME FuseInv, Tabled, Sized', NEW p \in Proc, NEW s, Become(p, s), Good(s)',
         proc[p].at \in {"listing", "listed"}, s.at \notin {"listing", "listed"},
         writer' = None, NodesGood', phase' = phase \/ phase' = "ensure",
         TreeTrue(snap)', snap'.epoch \in 0 .. epoch'
  PROVE  FuseInv'
<1>1. IInv'
  BY TableFacts DEF FuseInv, Tabled
<1>2. epoch' \in Nat
  BY DEF Tabled
<1>3. \A q \in Proc : proc'[q].at \notin {"listing", "listed"}
  BY ProcsStay DEF FuseInv, Locked
<1>4. Locked'
  BY <1>3, FuseAssumption DEF Locked
<1>5. phase' # "down"
  BY DEF FuseInv
<1> QED
  BY <1>1, <1>2, <1>4, <1>5, ProcsStay DEF FuseInv, NodesGood

LEMMA ExpireKeeps ==
  ASSUME FuseInv, NEW p \in Proc, Expire(p)
  PROVE  FuseInv'
<1>1. /\ Tabled /\ Sized' /\ UNCHANGED <<snap, nodes, epoch>>
      /\ proc[p].at = "listing" /\ writer' = None /\ Become(p, Idle)
      /\ phase' = phase \/ phase' = "ensure"
  BY QuietTables DEF Expire, MainGoesOn
<1>2. epoch' \in Nat
  BY <1>1 DEF Tabled
<1>3. Good(Idle) /\ Idle.at = "idle"
  BY IdleGood DEF FuseInv
<1>4. Good(Idle)'
  BY <1>1, <1>3, GoodStays DEF FuseInv, Idle, NoTree
<1>5. NodesGood'
  BY <1>1 DEF FuseInv, NodesGood
<1> QED
  BY <1>1, <1>3, <1>4, <1>5, SnapStays, UnlockKeeps

LEMMA IdleNow ==
  ASSUME FuseInv, Tabled
  PROVE  Good(Idle)' /\ Idle.at = "idle"
<1>1. Good(Idle) /\ Idle.at = "idle"
  BY IdleGood DEF FuseInv
<1> QED
  BY <1>1, GoodStays DEF FuseInv, Idle, NoTree

LEMMA InstallKeeps ==
  ASSUME FuseInv, NEW p \in Proc, Install(p)
  PROVE  FuseInv'
<1>1. PICK u : u = proc[p]
  OBVIOUS
<1>2. /\ Tabled /\ Sized' /\ u.at = "listed" /\ writer' = None
      /\ Become(p, AfterRefresh(u)) /\ snap' = u.tree
      /\ nodes' = [nodes EXCEPT !.dirs = @ \cup NewDirs(u)]
      /\ phase' = phase \/ phase' = "ensure"
  BY <1>1, QuietTables DEF Install, MainGoesOn
<1>3. Good(u) /\ Good(u)'
  BY <1>1, <1>2, GoodStays DEF FuseInv
<1>4. PICK s : s = AfterRefresh(u)
  OBVIOUS
<1>5. Good(s)' /\ s.at \notin {"listing", "listed"}
  <2>1. CASE u.req # None /\ u.req.op = "create"
    <3>1. s = [u EXCEPT !.at = "seek", !.tree = NoTree]
      BY <1>4, <2>1 DEF AfterRefresh
    <3>2. /\ Shape(s) /\ s.at = "seek" /\ s.req = u.req /\ s.acls = u.acls
          /\ s.began = u.began /\ s.effect = u.effect /\ s.id = u.id
      BY <1>3, <3>1 DEF Good, Shape
    <3>3. Good(s)
      BY <1>2, <1>3, <2>1, <3>2 DEF Good, Places, After, Made
    <3> QED
      BY <1>2, <3>2, <3>3, GoodStays DEF FuseInv
  <2>2. CASE ~ (u.req # None /\ u.req.op = "create")
    <3>1. s = Idle
      BY <1>4, <2>2 DEF AfterRefresh
    <3> QED
      BY <1>2, <3>1, IdleNow
  <2> QED
    BY <2>1, <2>2
<1>6. TreeTrue(snap)' /\ snap'.epoch \in 0 .. epoch'
  BY <1>2, <1>3 DEF Good
<1>7. NodesGood'
  <2>1. NewDirs(u) \subseteq Path
    BY <1>3 DEF NewDirs, Good, Asked, DirOps
  <2> QED
    BY <1>2, <2>1 DEF FuseInv, NodesGood
<1> QED
  BY <1>1, <1>2, <1>4, <1>5, <1>6, <1>7, UnlockKeeps

LEMMA TickKeeps ==
  ASSUME FuseInv, Tick
  PROVE  FuseInv'
<1>1. /\ Tabled /\ Sized' /\ UNCHANGED <<snap, writer, phase, nodes>>
      /\ proc[Main].at = "idle" /\ phase = "serve"
  BY QuietTables DEF Tick, process
<1>2. PICK s : s = [proc[Main] EXCEPT !.at = "lock"]
  OBVIOUS
<1>3. Become(Main, s) /\ Main \in Proc
  BY <1>2 DEF Tick, Goto, Proc
<1>4. Good(s) /\ s.at = "lock"
  BY <1>1, <1>2, <1>3 DEF FuseInv, Good, Shape, Places
<1>5. Good(s)'
  BY <1>1, <1>4, GoodStays DEF FuseInv
<1>6. NodesGood'
  BY <1>1 DEF FuseInv, NodesGood
<1> QED
  BY <1>1, <1>3, <1>4, <1>5, <1>6, MoveKeeps

\* Start of the process: the loop's goroutine loads the snapshot.
LEMMA StartKeeps ==
  ASSUME FuseInv, Start
  PROVE  FuseInv'
<1>1. /\ Tabled /\ Sized' /\ UNCHANGED <<snap, writer, nodes>>
      /\ phase = "down" /\ phase' = "load"
  BY QuietTables DEF Start, Step
<1>2. PICK s : s = [proc[Main] EXCEPT !.at = "lock"]
  OBVIOUS
<1>3. Become(Main, s) /\ Main \in Proc /\ proc[Main].at = "idle"
  BY <1>1, <1>2 DEF Start, Goto, Proc, FuseInv
<1>4. Good(s) /\ s.at = "lock"
  BY <1>1, <1>2, <1>3 DEF FuseInv, Good, Shape, Places
<1>5. Good(s)'
  BY <1>1, <1>4, GoodStays DEF FuseInv
<1>6. IInv' /\ epoch' \in Nat
  BY <1>1, TableFacts DEF FuseInv, Tabled
<1>7. Locked'
  BY <1>1, <1>3, <1>4, <1>5, ProcsStay DEF FuseInv, Locked
<1> QED
  BY <1>1, <1>3, <1>5, <1>6, <1>7, SnapStays, ProcsStay DEF FuseInv

\* Steps of run() that leave the goroutines alone.
LEMMA QuietKeeps ==
  ASSUME FuseInv, Tabled, Sized', UNCHANGED <<snap, writer, proc, nodes>>, phase' = phase \/ phase' # "down"
  PROVE  FuseInv'
<1>1. IInv' /\ epoch' \in Nat
  BY TableFacts DEF FuseInv, Tabled
<1>2. ASSUME NEW q \in Proc PROVE Good(proc[q])'
  <2>1. PICK t : t = proc[q]
    OBVIOUS
  <2>2. Good(t)'
    BY <2>1, GoodStays DEF FuseInv
  <2>3. proc'[q] = t
    BY <2>1
  <2> QED
    BY <2>2, <2>3
<1>3. Locked'
  BY DEF FuseInv, Locked
<1> QED
  BY <1>1, <1>2, <1>3, SnapStays DEF FuseInv

LEMMA ExitKeeps ==
  ASSUME FuseInv, Exit
  PROVE  FuseInv'
<1>1. Tabled /\ Sized' /\ UNCHANGED epoch
  BY QuietTables DEF Exit
<1>2. IInv' /\ epoch' \in Nat
  BY <1>1, TableFacts DEF FuseInv, Tabled
<1>3. /\ snap' = NoTree /\ writer' = None /\ proc' = [p \in Proc |-> Idle]
      /\ nodes' = [dirs |-> {Root}, ids |-> {}] /\ phase' = "down"
  BY DEF Exit
<1>4. TreeTrue(snap)' /\ snap'.epoch \in 0 .. epoch'
  BY <1>2, <1>3 DEF TreeTrue, OnePerPlace, NoTree
<1>5. \A p \in Proc : proc'[p] = Idle
  BY <1>3
<1>6. (\A p \in Proc : Good(proc[p]))'
  BY <1>1, <1>5, IdleNow
<1>7. Idle.at = "idle"
  BY DEF Idle
<1>8. Locked'
  BY <1>3, <1>5, <1>7, FuseAssumption DEF Locked
<1>9. (proc = [p \in Proc |-> proc[p]])'
  BY <1>3
<1> QED
  BY <1>1, <1>2, <1>3, <1>4, <1>5, <1>6, <1>7, <1>8, <1>9 DEF FuseInv

-----------------------------------------------------------------------------
(* The requests *)

LEMMA RequestsAsked ==
  ASSUME FuseInv, NEW r \in FsRequests
  PROVE  Asked(r)
<1>1. nodes.dirs \subseteq Path \cup {Root}
  BY DEF FuseInv
<1>2. CASE r \in [op: FileOps \cup {"lookup"}, dir: nodes.dirs, name: KernelName]
  BY <1>1, <1>2 DEF Asked, FileOps, DirOps
<1>3. CASE /\ r \in [op: DirOps \cup {"lookup"}, dir: nodes.dirs, name: Name]
           /\ Append(r.dir, r.name) \in Path
  BY <1>1, <1>3 DEF Asked, FileOps, DirOps
<1>4. CASE r \in [op: {"read"}, node: nodes.ids]
  BY <1>4 DEF Asked, FileOps, DirOps
<1>5. CASE r \in [op: {"write"}, node: nodes.ids, offset: Offset, data: Chunk]
  BY <1>5 DEF Asked, FileOps, DirOps
<1> QED
  BY <1>2, <1>3, <1>4, <1>5 DEF FsRequests

LEMMA BeginKeeps ==
  ASSUME FuseInv, NEW p \in Proc, Begin(p)
  PROVE  FuseInv'
<1>1. /\ Tabled /\ Sized' /\ UNCHANGED <<snap, writer, phase, nodes, epoch>>
      /\ proc[p].at = "idle" /\ phase = "serve"
  BY QuietTables DEF Begin, process
<1>2. PICK r \in FsRequests :
         Become(p, [Idle EXCEPT !.req = r,
                                !.began = IF r.op = "write" THEN epoch ELSE 0,
                                !.at = IF r.op = "create" THEN "call" ELSE "look"])
  BY DEF Begin
<1>3. PICK s : s = [Idle EXCEPT !.req = r,
                                !.began = IF r.op = "write" THEN epoch ELSE 0,
                                !.at = IF r.op = "create" THEN "call" ELSE "look"]
  OBVIOUS
<1>4. /\ Shape(s) /\ s.req = r /\ s.acls = {} /\ s.began \in {0, epoch} /\ s.effect = 0
      /\ s.at = IF r.op = "create" THEN "call" ELSE "look"
  BY <1>3 DEF Shape, Idle
<1>5. Asked(r)
  BY RequestsAsked
<1>6. s.at = "call" => Meant(s)
  BY <1>4 DEF Meant
<1>7. Good(s)
  BY <1>4, <1>5, <1>6 DEF FuseInv, Good, Places, After
<1>8. Good(s)'
  BY <1>1, <1>7, GoodStays DEF FuseInv
<1>9. NodesGood'
  BY <1>1 DEF FuseInv, NodesGood
<1>10. Become(p, s)
  BY <1>2, <1>3
<1>11. s.at \in {"call", "look"}
  BY <1>4
<1> QED
  BY <1>1, <1>8, <1>9, <1>10, <1>11, MoveKeeps

\* A request that returns.
LEMMA ReturnKeeps ==
  ASSUME FuseInv, Tabled, Sized', NEW p \in Proc, Become(p, Idle),
         proc[p].at \notin {"idle", "listing", "listed"},
         NodesGood', UNCHANGED <<snap, writer, phase>>
  PROVE  FuseInv'
BY IdleNow, MoveKeeps

\* The entry a request finds in the snapshot.
LEMMA TargetMeant ==
  ASSUME FuseInv, NEW r, Asked(r), r.op \in {"remove", "rmdir"} => Target(r) # {},
         NEW s, s.req = r, s.id \in IdsOf(Target(r))
  PROVE  Meant(s)
<1>1. TreeTrue(snap)
  BY DEF FuseInv
<1>2. CASE r.op = "remove"
  <2>1. PICK e \in ConfigByPath(r.dir, r.name) : s.id = e.id
    BY <1>2 DEF Target, IdsOf, Ids
  <2>2. ConfigTrue(e) /\ Key(e.path, e.name) = Key(r.dir, r.name)
    BY <1>1, <2>1 DEF ConfigByPath, WithKey, TreeTrue
  <2> QED
    BY <1>2, <2>1, <2>2 DEF Meant, ConfigTrue
<1>3. CASE r.op = "rmdir"
  <2>1. PICK e \in ChildDirectory(r.dir, r.name) : s.id = e.id
    BY <1>3 DEF Target, IdsOf, Ids
  <2>2. DirTrue(e) /\ e.full = Append(r.dir, r.name)
    BY <1>1, <2>1 DEF ChildDirectory, TreeTrue
  <2> QED
    BY <1>3, <2>1, <2>2 DEF Meant, DirTrue
<1>4. CASE r.op \in {"read", "write"}
  <2>1. s.id \in IdsOf(ShownConfig(r.node))
    BY <1>4 DEF Target
  <2>2. s.id \in {r.node, NoNode}
    BY <2>1 DEF IdsOf, Ids, ShownConfig
  <2> QED
    BY <1>4, <2>2 DEF Meant
<1>5. CASE r.op \notin {"remove", "rmdir", "read", "write"}
  BY <1>5 DEF Meant
<1> QED
  BY <1>2, <1>3, <1>4, <1>5

LEMMA LookKeeps ==
  ASSUME FuseInv, NEW p \in Proc, Look(p)
  PROVE  FuseInv'
<1>1. PICK u : u = proc[p]
  OBVIOUS
<1>2. /\ Tabled /\ Sized' /\ UNCHANGED <<snap, writer, phase, epoch>> /\ u.at = "look"
  BY <1>1, QuietTables DEF Look, process
<1>3. Good(u) /\ Asked(u.req)
  BY <1>1, <1>2 DEF FuseInv, Good
<1>4. ASSUME UNCHANGED nodes PROVE NodesGood'
  BY <1>4 DEF FuseInv, NodesGood
<1>5. CASE u.req.op = "lookup"
  <2>1. /\ nodes' = [dirs |-> nodes.dirs \cup
                          {d.full : d \in ChildDirectory(u.req.dir, u.req.name)},
                     ids |-> nodes.ids \cup
                          IF ChildDirectory(u.req.dir, u.req.name) = {}
                          THEN Ids(ChildConfig(u.req.dir, u.req.name)) ELSE {}]
        /\ Become(p, Idle)
    BY <1>1, <1>5 DEF Look
  <2>2. \A d \in ChildDirectory(u.req.dir, u.req.name) : d.full \in Path
    BY DEF ChildDirectory, FuseInv, TreeTrue, DirTrue
  <2>3. NodesGood'
    BY <2>1, <2>2 DEF FuseInv, NodesGood
  <2> QED
    BY <1>1, <1>2, <2>1, <2>3, ReturnKeeps
<1>6. CASE u.req.op = "mkdir"
  <2>1. PICK s : s = [u EXCEPT !.at = "call", !.acls = ParentAcls(u.req.dir)]
    OBVIOUS
  <2>2. Become(p, s) /\ UNCHANGED nodes
    BY <1>1, <1>6, <2>1 DEF Look
  <2>3. /\ Shape(s) /\ s.at = "call" /\ s.req = u.req /\ s.began = u.began
        /\ s.effect = u.effect /\ s.acls = ParentAcls(u.req.dir)
    BY <1>3, <2>1 DEF Good, Shape
  <2>4. ParentAcls(u.req.dir) \subseteq Entry
    BY DEF ParentAcls, FuseInv, TreeTrue, DirTrue
  <2>5. Meant(s)
    BY <1>6, <2>3 DEF Meant
  <2>6. Good(s)
    BY <1>3, <2>3, <2>4, <2>5 DEF Good, Places, After
  <2>7. Good(s)'
    BY <1>2, <2>6, GoodStays DEF FuseInv
  <2> QED
    BY <1>1, <1>2, <1>4, <2>2, <2>3, <2>7, MoveKeeps
<1>7. CASE u.req.op \in {"remove", "rmdir"} /\ Target(u.req) = {}
  <2>1. Become(p, Idle) /\ UNCHANGED nodes
    BY <1>1, <1>7 DEF Look
  <2> QED
    BY <1>1, <1>2, <1>4, <2>1, ReturnKeeps
<1>8. CASE /\ u.req.op \notin {"lookup", "mkdir"}
           /\ ~ (u.req.op \in {"remove", "rmdir"} /\ Target(u.req) = {})
  <2>0. PICK id \in IdsOf(Target(u.req)) : Become(p, [u EXCEPT !.at = "call", !.id = id])
    BY <1>1, <1>8 DEF Look
  <2>1. PICK s : s = [u EXCEPT !.at = "call", !.id = id]
    OBVIOUS
  <2>2. Become(p, s) /\ UNCHANGED nodes
    BY <1>1, <1>8, <2>0, <2>1 DEF Look
  <2>3. /\ Shape(s) /\ s.at = "call" /\ s.req = u.req /\ s.began = u.began
        /\ s.effect = u.effect /\ s.acls = u.acls /\ s.id \in IdsOf(Target(u.req))
    BY <1>3, <2>1 DEF Good, Shape
  <2>4. Meant(s)
    BY <1>3, <1>8, <2>3, TargetMeant
  <2>5. Good(s)
    BY <1>3, <2>3, <2>4 DEF Good, Places, After
  <2>6. Good(s)'
    BY <1>2, <2>5, GoodStays DEF FuseInv
  <2> QED
    BY <1>1, <1>2, <1>4, <2>2, <2>3, <2>6, MoveKeeps
<1> QED
  BY <1>5, <1>6, <1>7, <1>8

\* After the call that changed something a request refreshes, unless the reply is
\* lost.
LEMMA SucceededKeeps ==
  ASSUME FuseInv, Tabled, Sized', epoch' = epoch + 1, NEW p \in Proc, NEW id,
         proc[p].at \in {"call", "send"}, Succeeded(p, id),
         proc[p].req.op = "create" =>
             /\ id \in 1 .. inode'
             /\ \A c \in configs' : c.id = id =>
                   c.path = proc[p].req.dir /\ c.name = proc[p].req.name,
         UNCHANGED <<snap, writer, phase, nodes>>
  PROVE  FuseInv'
<1>1. NodesGood'
  BY DEF FuseInv, NodesGood
<1>2. CASE Become(p, Idle)
  BY <1>1, <1>2, ReturnKeeps
<1>3. CASE Become(p, [proc[p] EXCEPT !.at = "lock", !.id = id, !.effect = epoch + 1,
                                     !.acls = {}, !.got = {}])
  <2>1. PICK u : u = proc[p]
    OBVIOUS
  <2>2. PICK s : s = [u EXCEPT !.at = "lock", !.id = id, !.effect = epoch + 1,
                               !.acls = {}, !.got = {}]
    OBVIOUS
  <2>3. Become(p, s)
    BY <1>3, <2>1, <2>2
  <2>4. Good(u)' /\ Asked(u.req)
    BY <2>1, GoodStays DEF FuseInv, Good
  <2>5. /\ Shape(s) /\ s.at = "lock" /\ s.req = u.req /\ s.began = u.began
        /\ s.effect = epoch + 1 /\ s.acls = {} /\ s.id = id
    BY <2>2, <2>4 DEF Good, Shape
  <2>6. s.req.op = "create" => Made(s)'
    BY <2>1, <2>5 DEF Made
  <2>7. Good(s)'
    BY <2>4, <2>5, <2>6 DEF FuseInv, Good, Places, Shape, After
  <2> QED
    BY <1>1, <2>3, <2>5, <2>7, MoveKeeps
<1> QED
  BY <1>2, <1>3 DEF Succeeded

LEMMA ChangeKeeps ==
  ASSUME FuseInv, NEW p \in Proc, Change(p)
  PROVE  FuseInv'
<1>1. Tabled /\ Sized'
  BY ChangeTables
<1>2. /\ proc[p].at = "call" /\ UNCHANGED <<snap, writer, phase, nodes>>
  BY DEF Change, process
<1>3. CASE Permitted(proc[p])
  <2>1. PICK u : u = proc[p]
    OBVIOUS
  <2>2. PICK id : id = IF u.req.op = "create" THEN inode + 1 ELSE NoNode
    OBVIOUS
  <2>3. Succeeded(p, id) /\ Perform(u) /\ epoch' = epoch + 1
    BY <1>3, <2>1, <2>2 DEF Change, Counted
  <2>4. ASSUME u.req.op = "create"
        PROVE  /\ id \in 1 .. inode'
               /\ \A c \in configs' : c.id = id => c.path = u.req.dir /\ c.name = u.req.name
    <3>1. Insert(u.req.dir, u.req.name, NewBlob, NewAcls, now) /\ id = inode + 1
      BY <2>2, <2>3, <2>4 DEF Perform, SetNew
    <3>2. inode \in Nat /\ \A c \in configs : c.id \in 1 .. inode
      BY DEF FuseInv, IInv, TypeOK, InodesDistinct, Ids
    <3>3. inode' = inode + 2
      BY <3>1 DEF Insert
    <3>4. ASSUME NEW c \in configs', c.id = id
          PROVE  c.path = u.req.dir /\ c.name = u.req.name
      <4>1. c \notin configs
        BY <3>1, <3>2, <3>4
      <4> QED
        BY <3>1, <4>1 DEF Insert
    <3> QED
      BY <3>1, <3>2, <3>3, <3>4
  <2> QED
    BY <1>1, <1>2, <2>1, <2>3, <2>4, SucceededKeeps
<1>4. CASE ~ Permitted(proc[p])
  <2>1. Become(p, Idle)
    BY <1>4 DEF Change
  <2>2. NodesGood'
    BY <1>2 DEF FuseInv, NodesGood
  <2> QED
    BY <1>1, <1>2, <2>1, <2>2, ReturnKeeps
<1> QED
  BY <1>3, <1>4

LEMMA SendKeeps ==
  ASSUME FuseInv, NEW p \in Proc, Send(p)
  PROVE  FuseInv'
<1>1. Tabled /\ Sized'
  BY SendTables
<1>2. /\ proc[p].at = "send" /\ UNCHANGED <<snap, writer, phase, nodes>>
  BY DEF Send, process
<1>3. Become(p, Idle) \/ (epoch' = epoch + 1 /\ Succeeded(p, NoNode))
  BY DEF Send, Counted
<1>5. proc[p].req.op = "write"
  BY <1>2 DEF FuseInv, Good, Fetched
<1>4. NodesGood'
  BY <1>2 DEF FuseInv, NodesGood
<1> QED
  BY <1>1, <1>2, <1>3, <1>4, <1>5, ReturnKeeps, SucceededKeeps

\* The id 0 is nobody's.
LEMMA FetchedIds ==
  ASSUME IInv, NEW id, NEW c \in GetConfig(id)
  PROVE  c.id = id /\ id # NoNode /\ c.acls \subseteq Entry
<1>1. PICK d \in configs : d.id = id /\ c.id = d.id /\ c.acls = AclsOf(configAcl, d.id)
  BY DEF GetConfig, AllowedConfigs
<1>2. d.id \in 1 .. inode
  BY DEF IInv, InodesDistinct, Ids
<1>3. c.acls \subseteq Entry
  BY <1>1 DEF IInv, TypeOK, AclsOf, AclRow
<1> QED
  BY <1>1, <1>2, <1>3 DEF NoNode

LEMMA FetchKeeps ==
  ASSUME FuseInv, NEW p \in Proc, Fetch(p)
  PROVE  FuseInv'
<1>1. PICK u : u = proc[p]
  OBVIOUS
<1>2. /\ Tabled /\ Sized' /\ UNCHANGED <<snap, writer, phase, nodes, epoch>>
      /\ u.at = "call" /\ u.req.op \in {"read", "write"}
  BY <1>1, QuietTables DEF Fetch, process
<1>3. Good(u)
  BY <1>1 DEF FuseInv
<1>4. NodesGood'
  BY <1>2 DEF FuseInv, NodesGood
<1>5. CASE GetConfig(u.id) = {} \/ u.req.op = "read"
  <2>1. Become(p, Idle)
    BY <1>1, <1>5 DEF Fetch
  <2> QED
    BY <1>1, <1>2, <1>4, <2>1, ReturnKeeps
<1>6. CASE GetConfig(u.id) # {} /\ u.req.op = "write"
  <2>1. PICK s : s = [u EXCEPT !.at = "send", !.got = GetConfig(u.id)]
    OBVIOUS
  <2>2. Become(p, s)
    BY <1>1, <1>6, <2>1 DEF Fetch
  <2>3. /\ Shape(s) /\ s.at = "send" /\ s.req = u.req /\ s.began = u.began
        /\ s.effect = u.effect /\ s.acls = u.acls /\ s.got = GetConfig(u.id)
    BY <1>3, <2>1 DEF Good, Shape
  <2>4. \A c \in s.got : c.id = u.id /\ u.id # NoNode /\ c.acls \subseteq Entry
    BY <2>3, FetchedIds DEF FuseInv
  <2>5. u.id = u.req.node
    BY <1>2, <1>3, <1>6, <2>3, <2>4 DEF Good, Meant
  <2>6. Fetched(s)
    BY <1>6, <2>3, <2>4, <2>5 DEF Fetched
  <2>7. Good(s)
    BY <1>2, <1>3, <2>3, <2>6 DEF Good, Places, After
  <2>8. Good(s)'
    BY <1>2, <2>7, GoodStays DEF FuseInv
  <2> QED
    BY <1>1, <1>2, <1>4, <2>2, <2>3, <2>8, MoveKeeps
<1> QED
  BY <1>2, <1>5, <1>6

LEMMA CallFailsKeeps ==
  ASSUME FuseInv, NEW p \in Proc, CallFails(p)
  PROVE  FuseInv'
<1>1. /\ Tabled /\ Sized' /\ UNCHANGED <<snap, writer, phase, nodes>>
      /\ proc[p].at \in {"call", "send"} /\ Become(p, Idle)
  BY QuietTables DEF CallFails, process
<1>2. NodesGood'
  BY <1>1 DEF FuseInv, NodesGood
<1> QED
  BY <1>1, <1>2, ReturnKeeps

LEMMA SeekKeeps ==
  ASSUME FuseInv, NEW p \in Proc, Seek(p)
  PROVE  FuseInv'
<1>1. /\ Tabled /\ Sized' /\ UNCHANGED <<snap, writer, phase>>
      /\ proc[p].at = "seek" /\ Become(p, Idle)
      /\ nodes' = [nodes EXCEPT !.ids = @ \cup IdsOf(ShownConfig(proc[p].id))]
  BY QuietTables DEF Seek, process
<1>2. NodesGood'
  BY <1>1 DEF FuseInv, NodesGood
<1> QED
  BY <1>1, <1>2, ReturnKeeps

LEMMA RunKeeps ==
  ASSUME FuseInv, Run \/ Stop \/ Crash
  PROVE  FuseInv'
<1>1. CASE Start
  BY <1>1, StartKeeps
<1>2. CASE Ensure
  <2>1. Tabled /\ Sized' /\ UNCHANGED <<snap, writer, proc, nodes>> /\ phase' = "unmount"
    BY <1>2, QuietTables DEF Ensure, Step
  <2> QED
    BY <2>1, QuietKeeps
<1>3. CASE AttemptUnmount
  <2>1. Tabled /\ Sized' /\ UNCHANGED <<snap, writer, proc, nodes>> /\ phase' = "mount"
    BY <1>3, QuietTables DEF AttemptUnmount, Step
  <2> QED
    BY <2>1, QuietKeeps
<1>4. CASE Mount
  <2>1. Tabled /\ Sized' /\ UNCHANGED <<snap, writer, proc, nodes>> /\ phase' = "serve"
    BY <1>4, QuietTables DEF Mount, Step
  <2> QED
    BY <2>1, QuietKeeps
<1>5. CASE EnsureFails \/ MountFails \/ Stop \/ Crash
  BY <1>5, ExitKeeps DEF EnsureFails, MountFails, Stop, Crash
<1>6. CASE Tick
  BY <1>6, TickKeeps
<1> QED
  BY <1>1, <1>2, <1>3, <1>4, <1>5, <1>6 DEF Run

LEMMA FuseInvNext == FuseInv /\ [FuseNext]_fuseVars => FuseInv'
<1> SUFFICES ASSUME FuseInv, [FuseNext]_fuseVars PROVE FuseInv'
  OBVIOUS
<1>1. CASE UNCHANGED fuseVars
  <2>1. Tabled /\ Sized' /\ UNCHANGED <<snap, writer, proc, nodes, phase>>
    BY <1>1, QuietTables DEF fuseVars, process
  <2> QED
    BY <2>1, QuietKeeps
<1>2. CASE \E p \in Proc : Lock(p) \/ Holding(p)
  BY <1>2, LockKeeps, ListedKeeps, ExpireKeeps, InstallKeeps DEF Holding
<1>3. CASE \E p \in Caller : Request(p)
  BY <1>3, BeginKeeps, LookKeeps, ChangeKeeps, FetchKeeps, SendKeeps, CallFailsKeeps,
     SeekKeeps
  DEF Request, Proc
<1>4. CASE Run \/ Stop \/ Crash
  BY <1>4, RunKeeps
<1>5. CASE Drop \/ Reconnect
  <2>1. Tabled /\ Sized' /\ UNCHANGED <<snap, writer, proc, nodes, phase>>
    BY <1>5, QuietTables DEF Drop, Reconnect, process
  <2> QED
    BY <2>1, QuietKeeps
<1>6. CASE Others
  <2>1. UNCHANGED <<snap, writer, proc, nodes, phase>>
    BY <1>6 DEF Others, process
  <2> QED
    BY <1>6, <2>1, OthersTables, QuietKeeps
<1> QED
  BY <1>1, <1>2, <1>3, <1>4, <1>5, <1>6 DEF FuseNext

LEMMA FuseInvInit == FuseInit => FuseInv
<1> SUFFICES ASSUME FuseInit PROVE FuseInv
  OBVIOUS
<1>1. IInv /\ epoch = 0 /\ snap = NoTree /\ writer = None /\ proc = [p \in Proc |-> Idle]
      /\ nodes = [dirs |-> {Root}, ids |-> {}]
  BY DEF FuseInit
<1>2. Sized
  BY FuseAssumption DEF FuseInit, Sized
<1>3. TreeTrue(snap) /\ snap.epoch = 0
  BY <1>1 DEF TreeTrue, OnePerPlace, NoTree
<1>4. \A p \in Proc : proc[p] = Idle
  BY <1>1
<1>5. Good(Idle) /\ Idle.at = "idle"
  BY <1>1, IdleGood
<1>6. Locked
  BY <1>1, <1>4, <1>5, FuseAssumption DEF Locked
<1> QED
  BY <1>1, <1>2, <1>3, <1>4, <1>5, <1>6 DEF FuseInv

\* The tables, the snapshot, the lock and every request, at every moment.
THEOREM FuseInvariant == FuseSpec => []FuseInv
BY FuseInvInit, FuseInvNext, PTL DEF FuseSpec

\* Whatever is done through the mount and beside it is done by transactions of the
\* store, so all that is proved of Store holds of the server behind the client.
THEOREM FuseImplementsStore == FuseSpec => [][Next]_vars
<1>1. FuseInv /\ [FuseNext]_fuseVars => [Next]_vars
  <2> SUFFICES ASSUME FuseInv, [FuseNext]_fuseVars, ~ UNCHANGED vars PROVE Tabled
    BY DEF Tabled
  <2>1. (\E p \in Proc : Change(p) \/ Send(p)) \/ Others
    BY DEF FuseNext, fuseVars, Lock, Holding, Listed, Expire, Install, Request, Begin, Look,
           Fetch, CallFails, Seek, Run, Start, Ensure, EnsureFails, AttemptUnmount, Mount,
           MountFails, Tick, Stop, Crash, Drop, Reconnect, Exit, Step, Proc
  <2> QED
    BY <2>1, ChangeTables, SendTables, OthersTables
<1> QED
  BY <1>1, FuseInvariant, PTL DEF FuseSpec

\* What an old snapshot shows under an id is never false of that id.
THEOREM FuseSnapshot == FuseSpec => []SnapshotTrue
<1>1. FuseInv => SnapshotTrue
  BY DEF FuseInv, TreeTrue, DirTrue, ConfigTrue, SnapshotTrue
<1> QED
  BY <1>1, FuseInvariant, PTL

-----------------------------------------------------------------------------
(* What a step may do *)

\* The snapshot changes when a list is installed, and when the process ends.
LEMMA SnapChange ==
  ASSUME FuseNext, snap' # snap
  PROVE  (\E p \in Proc : Install(p)) \/ phase' = "down"
BY DEF FuseNext, Lock, Holding, Listed, Expire, Request, Begin, Look, Change, Send, Fetch,
       CallFails, Seek, Run, Start, Ensure, EnsureFails, AttemptUnmount, Mount, MountFails,
       Tick, Stop, Crash, Drop, Reconnect, Others, Exit, Step

OwnWriteStep ==
    phase' = "serve" /\ snap' # snap =>
       /\ snap'.epoch >= snap.epoch
       /\ \A p \in Caller : proc[p].at = "listed" /\ proc'[p].at # "listed" =>
             snap'.epoch >= proc[p].effect

LEMMA OwnWriteNext == FuseInv /\ [FuseNext]_fuseVars => [OwnWriteStep]_fuseVars
<1> SUFFICES ASSUME FuseInv, FuseNext, phase' = "serve", snap' # snap
             PROVE  /\ snap'.epoch >= snap.epoch
                    /\ \A p \in Caller : proc[p].at = "listed" /\ proc'[p].at # "listed" =>
                          snap'.epoch >= proc[p].effect
  BY DEF OwnWriteStep
<1>1. PICK p \in Proc : Install(p)
  BY SnapChange
<1>2. proc[p].at = "listed" /\ snap' = proc[p].tree
  BY <1>1 DEF Install
<1>3. proc[p].tree.epoch >= snap.epoch /\ proc[p].tree.epoch >= proc[p].effect
  BY <1>2 DEF FuseInv, Locked, Good
<1>4. \A q \in Caller : proc[q].at = "listed" => q = p
  BY <1>2 DEF FuseInv, Locked, Proc
<1> QED
  BY <1>2, <1>3, <1>4

\* No tree listed earlier replaces what a request has done.
THEOREM FuseOwnWrites == FuseSpec => OwnWritesVisible
<1>1. OwnWritesVisible <=> [][OwnWriteStep]_fuseVars
  BY DEF OwnWritesVisible, OwnWriteStep
<1> QED
  BY <1>1, OwnWriteNext, FuseInvariant, PTL DEF FuseSpec

\* A goroutine moves by a step of its own, or the process has ended.
LEMMA Mover ==
  ASSUME FuseInv, FuseNext, NEW p \in Caller, proc'[p] # proc[p]
  PROVE  \/ Request(p)
         \/ (Lock(p) \/ Holding(p)) /\ UNCHANGED vars /\ proc[p].at \in {"lock", "listing", "listed"}
         \/ Exit
<1>1. ASSUME NEW q, NEW s, Become(q, s) PROVE q = p
  BY <1>1 DEF Become, FuseInv, Proc
<1>2. CASE \E q \in Proc : Lock(q) \/ Holding(q)
  <2>1. PICK q \in Proc : Lock(q) \/ Holding(q)
    BY <1>2
  <2>2. /\ \E s : Become(q, s)
        /\ UNCHANGED vars /\ proc[q].at \in {"lock", "listing", "listed"}
    BY <2>1 DEF Lock, Holding, Listed, Expire, Install, Goto
  <2>3. q = p
    BY <1>1, <2>2
  <2> QED
    BY <2>1, <2>2, <2>3
<1>3. CASE \E q \in Caller : Request(q)
  <2>1. PICK q \in Caller : Request(q)
    BY <1>3
  <2>2. \E s : Become(q, s)
    BY <2>1 DEF Request, Begin, Look, Change, Send, Fetch, CallFails, Seek, Succeeded
  <2> QED
    BY <1>1, <2>1, <2>2
<1>4. CASE Run
  BY <1>1, <1>4, FuseAssumption
  DEF Run, Start, Ensure, EnsureFails, AttemptUnmount, Mount, MountFails, Tick, Goto
<1>5. CASE Stop \/ Crash
  BY <1>5 DEF Stop, Crash
<1>6. CASE Drop \/ Reconnect \/ Others
  BY <1>6 DEF Drop, Reconnect, Others
<1> QED
  BY <1>2, <1>3, <1>4, <1>5, <1>6 DEF FuseNext

NameStep ==
    \A p \in Caller :
        LET r == proc[p].req
        IN  proc'[p] # proc[p] /\ r # None =>
              /\ r.op = "remove" /\ r.dir # Root /\ proc'[p].at = "call" =>
                    \A c \in snap.configs : c.path = r.dir /\ c.name = r.name =>
                        proc'[p].id = c.id
              /\ r.op = "remove" =>
                    \A c \in configs \ configs' : Key(c.path, c.name) = Key(r.dir, r.name)
              /\ r.op = "rmdir" =>
                    \A d \in dirs \ dirs' : d.full = Append(r.dir, r.name)
              /\ proc[p].at = "seek" /\ phase' = "serve" =>
                    \A c \in configs : c.id \in nodes'.ids \ nodes.ids =>
                        c.path = r.dir /\ c.name = r.name

\* Where a goroutine is after a step with the lock, and after its call.
LEMMA HeldMoves ==
  ASSUME FuseInv, NEW p \in Proc, Lock(p) \/ Holding(p)
  PROVE  proc'[p].at # "call"
<1>1. Good(proc[p]) /\ proc = [q \in Proc |-> proc[q]]
  BY DEF FuseInv
<1>2. CASE Lock(p) \/ Listed(p)
  BY <1>1, <1>2 DEF Lock, Listed, Goto, Become, Good, Shape
<1>3. CASE Expire(p)
  BY <1>1, <1>3 DEF Expire, Become, Idle
<1>4. CASE Install(p)
  <2>1. proc'[p] = AfterRefresh(proc[p])
    BY <1>1, <1>4 DEF Install, Become
  <2>2. AfterRefresh(proc[p]).at \in {"seek", "idle"}
    <3>1. Idle.at = "idle"
      BY DEF Idle
    <3>2. [proc[p] EXCEPT !.at = "seek", !.tree = NoTree].at = "seek"
      BY <1>1 DEF Good, Shape
    <3> QED
      BY <3>1, <3>2 DEF AfterRefresh
  <2> QED
    BY <2>1, <2>2
<1> QED
  BY <1>2, <1>3, <1>4 DEF Holding

LEMMA ChangeMoves ==
  ASSUME FuseInv, NEW p \in Proc, Change(p)
  PROVE  proc'[p].at # "call"
<1>1. Good(proc[p]) /\ proc = [q \in Proc |-> proc[q]]
  BY DEF FuseInv
<1>2. ASSUME NEW s, Become(p, s) PROVE proc'[p] = s
  BY <1>1, <1>2 DEF Become
<1>3. CASE Become(p, Idle)
  BY <1>2, <1>3 DEF Idle
<1>4. ASSUME NEW id, Become(p, [proc[p] EXCEPT !.at = "lock", !.id = id, !.effect = epoch + 1,
                                               !.acls = {}, !.got = {}])
      PROVE  proc'[p].at # "call"
  BY <1>1, <1>2, <1>4 DEF Good, Shape
<1> QED
  BY <1>3, <1>4 DEF Change, Succeeded

\* Two ways to split a sequence whose first parts are equally long are one.
LEMMA SplitUnique ==
  ASSUME NEW S, NEW p \in Seq(S), NEW q \in Seq(S), NEW s \in Seq(S), NEW t \in Seq(S),
         p \o s = q \o t, Len(p) = Len(q)
  PROVE  p = q /\ s = t
<1>1. Len(p \o s) = Len(p) + Len(s) /\ Len(q \o t) = Len(q) + Len(t)
  BY ConcatProperties
<1>2. Len(s) = Len(t) /\ Len(s) \in Nat /\ Len(p) \in Nat
  BY <1>1, LenProperties
<1>3. ASSUME NEW i \in 1 .. Len(p) PROVE p[i] = q[i]
  <2>1. (p \o s)[i] = p[i] /\ (q \o t)[i] = q[i]
    BY ConcatProperties
  <2> QED
    BY <2>1
<1>4. ASSUME NEW i \in 1 .. Len(s) PROVE s[i] = t[i]
  <2>1. PICK j : j = Len(p) + i
    OBVIOUS
  <2>2. j \in Len(p) + 1 .. Len(p) + Len(s) /\ j - Len(p) = i
    BY <1>2, <2>1
  <2>3. j \in 1 .. Len(p) + Len(s) /\ ~ (j <= Len(p))
    BY <1>2, <2>2
  <2>4. (p \o s)[j] = s[j - Len(p)]
    BY <2>3, ConcatProperties
  <2>5. (q \o t)[j] = t[j - Len(q)]
    BY <1>2, <2>3, ConcatProperties
  <2> QED
    BY <2>2, <2>4, <2>5
<1> QED
  BY <1>2, <1>3, <1>4, SeqEqual

\* Below the root the config that is where the request says has the key, whatever
\* names others have given theirs.
LEMMA DeepestHasKey ==
  ASSUME FuseInv, NEW dir \in Path, NEW name \in KernelName, NEW c \in snap.configs,
         c.path = dir, c.name = name, NEW e \in ConfigByPath(dir, name)
  PROVE  e.id = c.id
<1>1. /\ e \in snap.configs /\ Key(e.path, e.name) = Key(dir, name)
      /\ c \in WithKey(dir, name) /\ Depth(c) <= Depth(e)
  BY DEF ConfigByPath, WithKey
<1>2. e.path \in ConfigPath /\ e.name \in FileName /\ name \in FileName
  BY <1>1 DEF FuseInv, TreeTrue, KernelName
<1>3. \A p \in Path : p \in Seq(Component) /\ p # Root /\ p # EmptyPath /\ Len(p) \in Nat /\ Len(p) > 0
  <2> SUFFICES ASSUME NEW p \in Path
               PROVE  p \in Seq(Component) /\ p # Root /\ p # EmptyPath /\ Len(p) \in Nat /\ Len(p) > 0
    BY Zenon
  <2>1. p \in Seq(Name) /\ p # <<>> /\ p # EmptyPath /\ Name \subseteq Component
    BY PathAssumption, SegmentsAssumption DEF Root
  <2>2. p \in Seq(Component)
    BY <2>1
  <2>3. Len(p) \in Nat /\ Len(p) > 0
    BY <2>1, EmptySeq
  <2> QED
    BY <2>1, <2>2, <2>3 DEF Root
<1>4. Depth(c) = Len(dir) /\ Len(dir) > 0
  BY <1>3 DEF Depth, rootNormalised
<1>5. e.path \in Path
  <2>1. e.path \in {Root, EmptyPath} => Depth(e) = 0
    BY DEF Depth, rootNormalised, Root
  <2> QED
    BY <1>1, <1>2, <1>3, <1>4, <2>1 DEF ConfigPath
<1>6. Depth(e) = Len(e.path)
  BY <1>3, <1>5 DEF Depth, rootNormalised
<1>7. PICK s \in Seq(Component), t \in Seq(Component) :
         s = Segments[e.name] /\ t = Segments[name] /\ s # <<>> /\ Len(t) = 1
  BY <1>2, SegmentsAssumption DEF KernelName
<1>8. e.path \o s = dir \o t
  BY <1>1, <1>3, <1>5, <1>7 DEF Key
<1>9. PICK q \in Seq(Component) : q = e.path /\ Len(q) \in Nat /\ Len(q) >= Len(dir)
  BY <1>1, <1>3, <1>4, <1>5, <1>6
<1>10. Len(s) \in Nat /\ Len(s) > 0
  BY <1>7, EmptySeq
<1>11. Len(q) = Len(dir) /\ dir \in Seq(Component)
  <2>1. dir \in Seq(Component) /\ Len(dir) \in Nat
    BY <1>3
  <2>2. Len(q \o s) = Len(q) + Len(s)
    BY <1>9, ConcatProperties
  <2>3. Len(dir \o t) = Len(dir) + Len(t)
    BY <2>1, ConcatProperties
  <2>4. q \o s = dir \o t
    BY <1>8, <1>9
  <2>5. PICK k \in Nat, l \in Nat, m \in Nat : k = Len(q) /\ l = Len(s) /\ m = Len(dir)
    BY <1>9, <1>10, <2>1
  <2>6. k + l = m + 1
    BY <1>7, <2>2, <2>3, <2>4, <2>5
  <2>7. k >= m /\ l > 0
    BY <1>9, <1>10, <2>5
  <2>8. k = m
    BY <2>5, <2>6, <2>7
  <2> QED
    BY <2>1, <2>5, <2>8
<1>12. e.path = dir /\ s = t
  BY <1>8, <1>9, <1>11, SplitUnique
<1>13. e.name = name
  BY <1>2, <1>7, <1>12, SegmentsAssumption
<1> QED
  BY <1>1, <1>12, <1>13 DEF FuseInv, TreeTrue, OnePerPlace

\* What Remove goes on with.
LEMMA LookedUp ==
  ASSUME FuseInv, NEW p \in Caller, Look(p), proc[p].req.op = "remove",
         proc[p].req.dir # Root, proc'[p].at = "call",
         NEW c \in snap.configs, c.path = proc[p].req.dir, c.name = proc[p].req.name
  PROVE  proc'[p].id = c.id
<1>1. PICK u : u = proc[p]
  OBVIOUS
<1>2. Good(u) /\ u.at = "look" /\ Asked(u.req) /\ p \in Proc /\ proc = [q \in Proc |-> proc[q]]
  BY <1>1 DEF FuseInv, Good, Proc, Look
<1>3. u.req.dir \in Path /\ u.req.name \in KernelName
  BY <1>1, <1>2 DEF Asked, FileOps
<1>4. ~ Become(p, Idle)
  BY <1>2 DEF Become, Idle
<1>5. PICK id \in IdsOf(Target(u.req)) : Become(p, [u EXCEPT !.at = "call", !.id = id])
  BY <1>1, <1>4 DEF Look
<1>6. Target(u.req) = ConfigByPath(u.req.dir, u.req.name) /\ Target(u.req) # {}
  BY <1>1, <1>4 DEF Target, Look
<1>7. PICK e \in ConfigByPath(u.req.dir, u.req.name) : id = e.id
  BY <1>5, <1>6 DEF IdsOf, Ids
<1>8. id = c.id
  BY <1>1, <1>3, <1>7, DeepestHasKey
<1>9. [u EXCEPT !.at = "call", !.id = id].id = id
  BY <1>2 DEF Good, Shape
<1> QED
  BY <1>2, <1>5, <1>8, <1>9 DEF Become

\* Who calls Remove or Rmdir takes away what it has looked up.
LEMMA RemovedMeant ==
  ASSUME FuseInv, NEW p \in Proc, Change(p)
  PROVE  /\ proc[p].req.op = "remove" =>
              \A c \in configs \ configs' :
                 Key(c.path, c.name) = Key(proc[p].req.dir, proc[p].req.name)
         /\ proc[p].req.op = "rmdir" =>
              \A d \in dirs \ dirs' : d.full = Append(proc[p].req.dir, proc[p].req.name)
<1>1. PICK s : s = proc[p]
  OBVIOUS
<1>2. Good(s) /\ s.at = "call" /\ Meant(s) /\ Asked(s.req)
  BY <1>1 DEF FuseInv, Change, Good
<1>3. CASE ~ Permitted(s)
  BY <1>1, <1>3 DEF Change, vars
<1>4. CASE Permitted(s) /\ s.req.op = "remove"
  <2>1. Delete(s.id)
    BY <1>1, <1>4 DEF Change, Perform, DeleteConfig
  <2>2. \A c \in configs \ configs' : c.id = s.id
    BY <2>1 DEF Delete
  <2> QED
    BY <1>1, <1>2, <1>4, <2>2 DEF Meant
<1>5. CASE Permitted(s) /\ s.req.op = "rmdir"
  <2>1. DeleteDirectory(s.id)
    BY <1>1, <1>5 DEF Change, Perform, RemoveDirectory
  <2>2. \A d \in dirs \ dirs' : d.id = s.id
    BY <2>1 DEF DeleteDirectory
  <2> QED
    BY <1>1, <1>2, <1>5, <2>2 DEF Meant
<1> QED
  BY <1>1, <1>3, <1>4, <1>5

\* The node Create returns.
LEMMA SoughtMade ==
  ASSUME FuseInv, NEW p \in Proc, Seek(p), proc[p].req # None, NEW c \in configs,
         c.id \in nodes'.ids \ nodes.ids
  PROVE  c.path = proc[p].req.dir /\ c.name = proc[p].req.name
<1>1. PICK u : u = proc[p]
  OBVIOUS
<1>2. Good(u) /\ u.at = "seek"
  BY <1>1 DEF FuseInv, Seek
<1>3. nodes'.ids = nodes.ids \cup IdsOf(ShownConfig(u.id))
  BY <1>1 DEF Seek, FuseInv
<1>4. c.id \in {u.id, NoNode}
  BY <1>3 DEF IdsOf, Ids, ShownConfig
<1>5. c.id # NoNode
  BY DEF FuseInv, IInv, InodesDistinct, Ids, NoNode
<1>6. Made(u)
  BY <1>1, <1>2 DEF Good, After
<1> QED
  BY <1>1, <1>4, <1>5, <1>6 DEF Made, NoNode

LEMMA NameNext == FuseInv /\ [FuseNext]_fuseVars => [NameStep]_fuseVars
<1> SUFFICES ASSUME FuseInv, FuseNext, NEW p \in Caller, proc'[p] # proc[p], proc[p].req # None
             PROVE  /\ proc[p].req.op = "remove" /\ proc[p].req.dir # Root /\ proc'[p].at = "call" =>
                         \A c \in snap.configs :
                            c.path = proc[p].req.dir /\ c.name = proc[p].req.name =>
                               proc'[p].id = c.id
                    /\ proc[p].req.op = "remove" =>
                         \A c \in configs \ configs' :
                            Key(c.path, c.name) = Key(proc[p].req.dir, proc[p].req.name)
                    /\ proc[p].req.op = "rmdir" =>
                         \A d \in dirs \ dirs' :
                            d.full = Append(proc[p].req.dir, proc[p].req.name)
                    /\ proc[p].at = "seek" /\ phase' = "serve" =>
                         \A c \in configs : c.id \in nodes'.ids \ nodes.ids =>
                            c.path = proc[p].req.dir /\ c.name = proc[p].req.name
  BY DEF NameStep
<1>1. p \in Proc /\ Idle.at = "idle"
  BY DEF Proc, Idle
<1>2. CASE Exit
  <2>1. UNCHANGED vars /\ phase' = "down" /\ proc'[p] = Idle
    BY <1>1, <1>2 DEF Exit
  <2> QED
    BY <1>1, <2>1 DEF vars
<1>3. CASE (Lock(p) \/ Holding(p)) /\ UNCHANGED vars /\ proc[p].at \in {"lock", "listing", "listed"}
  <2>1. proc'[p].at # "call"
    BY <1>1, <1>3, HeldMoves
  <2> QED
    BY <1>3, <2>1 DEF vars
<1>4. CASE Change(p)
  <2>1. proc[p].at = "call" /\ proc'[p].at # "call"
    BY <1>1, <1>4, ChangeMoves DEF Change
  <2> QED
    BY <1>1, <1>4, <2>1, RemovedMeant
<1>5. CASE Seek(p)
  <2>1. UNCHANGED vars /\ proc'[p].at = "idle"
    BY <1>1, <1>5 DEF Seek, Become, FuseInv
  <2> QED
    BY <1>1, <1>5, <2>1, SoughtMade DEF vars
<1>6. CASE Look(p)
  <2>1. proc[p].at = "look" /\ UNCHANGED vars
    BY <1>6 DEF Look
  <2> QED
    BY <1>6, <2>1, LookedUp DEF vars
<1>7. CASE Fetch(p) \/ CallFails(p)
  <2>1. proc[p].at \in {"call", "send"} /\ UNCHANGED vars
    BY <1>7 DEF Fetch, CallFails
  <2>2. proc'[p].at # "call" \/ proc[p].req.op # "remove"
    BY <1>1, <1>7 DEF Fetch, CallFails, Become, FuseInv
  <2> QED
    BY <2>1, <2>2 DEF vars
<1>8. CASE Begin(p)
  <2>1. proc[p].req = None
    BY <1>1, <1>8 DEF Begin, FuseInv, Good
  <2> QED
    BY <2>1
<1>9. CASE Send(p)
  <2>1. proc[p].at = "send" /\ proc[p].req.op = "write"
    BY <1>1, <1>9 DEF Send, FuseInv, Good, Fetched
  <2> QED
    BY <2>1
<1> QED
  BY <1>2, <1>3, <1>4, <1>5, <1>6, <1>7, <1>8, <1>9, Mover DEF Request

\* Remove takes what is stored in the directory under the name before anything else
\* that makes its key, and deletes nothing that does not make it; Rmdir deletes the
\* directory it is asked about, Create returns what it has put there.
THEOREM FuseNames == FuseSpec => NameMeansObject
<1>1. NameMeansObject <=> [][NameStep]_fuseVars
  BY DEF NameMeansObject, NameStep
<1> QED
  BY <1>1, NameNext, FuseInvariant, PTL DEF FuseSpec

-----------------------------------------------------------------------------
(* Write *)

CurrentOf(versions, rows, id) ==
    CHOOSE v \in versions : \E c \in rows : c.id = id /\ v.id = c.current

\* The version a config is at.
LEMMA CurrentVersion ==
  ASSUME IInv, NEW c \in configs
  PROVE  /\ CurrentOf(contents, configs, c.id) \in contents
         /\ CurrentOf(contents, configs, c.id).id = c.current
         /\ \A v \in contents : v.id = c.current => v = CurrentOf(contents, configs, c.id)
<1>1. PICK v \in contents : v.id = c.current
  BY DEF IInv, ConfigInv, CurrentIsLatest
<1>2. \A b \in configs : b.id = c.id => b = c
  BY DEF IInv, InodesDistinct, UniqueIds
<1>3. \A w \in contents : w.id = v.id => w = v
  BY DEF IInv, InodesDistinct, UniqueIds
<1>4. CurrentOf(contents, configs, c.id) \in contents /\ \E b \in configs : b.id = c.id /\ CurrentOf(contents, configs, c.id).id = b.current
  BY <1>1 DEF CurrentOf
<1> QED
  BY <1>1, <1>2, <1>3, <1>4

\* An ACL list that is stored can be stored again and nothing changes.
LEMMA SameAcls ==
  ASSUME IInv, NEW id
  PROVE  ReplaceAcls(configAcl, id, AclsOf(configAcl, id)) = configAcl
<1>1. \A r \in configAcl : /\ r = [owner |-> r.owner, entry |-> r.entry]
                           /\ r.entry.acl \in {"READ", "WRITE"}
  BY DEF IInv, TypeOK, AclRow, NoOrphans, Entry, Level
<1>2. Storable(AclsOf(configAcl, id)) = AclsOf(configAcl, id)
  BY <1>1 DEF Storable, AclsOf
<1>3. AclRows(id, AclsOf(configAcl, id)) = {r \in configAcl : r.owner = id}
  <2>1. ASSUME NEW r \in configAcl, r.owner = id
        PROVE  r \in AclRows(id, AclsOf(configAcl, id))
    BY <1>1, <1>2, <2>1 DEF AclRows, AclsOf
  <2>2. ASSUME NEW x \in AclRows(id, AclsOf(configAcl, id))
        PROVE  x \in configAcl /\ x.owner = id
    <3>1. PICK e \in AclsOf(configAcl, id) : x = [owner |-> id, entry |-> e]
      BY <1>2 DEF AclRows
    <3>2. PICK r \in configAcl : r.owner = id /\ r.entry = e
      BY DEF AclsOf
    <3> QED
      BY <1>1, <3>1, <3>2
  <2> QED
    BY <2>1, <2>2
<1> QED
  BY <1>3 DEF ReplaceAcls, Disown

\* The bytes of new are those of old with the given ones put at offset, and
\* zeros in a gap between the end of old and offset.
Overwrites(old, offset, bytes, new) ==
  /\ \A i \in 1 .. Len(bytes) : new[offset + i] = bytes[i]
  /\ \A i \in 1 .. Len(new) :
        i \notin offset + 1 .. offset + Len(bytes) =>
            new[i] = IF i <= Len(old) THEN old[i] ELSE 0
  /\ Len(new) >= Len(old)

\* The handler of Write, byte by byte.
LEMMA PatchFacts ==
  ASSUME NEW old \in Seq(Nat), NEW offset \in Nat, NEW bytes \in Seq(Nat), NEW new,
         new = Patch(old, offset, bytes).data, new \in Seq(Nat)
  PROVE  Overwrites(old, offset, bytes, new)
<1> DEFINE end == offset + Len(bytes)
           length == IF end > Len(old) THEN end ELSE Len(old)
<1>1. new = [i \in 1 .. length |->
                IF i \in offset + 1 .. end THEN bytes[i - offset]
                ELSE IF i <= Len(old) THEN old[i] ELSE 0]
  BY DEF Patch
<1>2. Len(bytes) \in Nat /\ Len(old) \in Nat /\ length \in Nat
  BY LenProperties
<1>3. Len(new) = length
  <2>1. PICK n \in Nat : n = length
    BY <1>2
  <2>2. DOMAIN new = 1 .. n
    BY <1>1, <2>1
  <2>3. Len(new) = n
    <3> HIDE DEF length
    <3> QED
      BY <2>1, <2>2, LenProperties
  <2> QED
    BY <2>1, <2>3
<1>4. length >= end /\ length >= Len(old)
  BY <1>2
<1>5. ASSUME NEW i \in 1 .. Len(bytes) PROVE new[offset + i] = bytes[i]
  <2>1. offset + i \in 1 .. length /\ offset + i \in offset + 1 .. end
        /\ (offset + i) - offset = i
    BY <1>2, <1>4
  <2> QED
    BY <1>1, <2>1
<1>6. ASSUME NEW i \in 1 .. Len(new), i \notin offset + 1 .. end
      PROVE  new[i] = IF i <= Len(old) THEN old[i] ELSE 0
  BY <1>1, <1>3, <1>6
<1> QED
  BY <1>3, <1>4, <1>5, <1>6 DEF Overwrites

LocalStep ==
    \A p \in Caller : WriteStep(p) =>
        LET r == proc[p].req
            old == CurrentOf(contents, configs, r.node).blob.data
            new == CurrentOf(contents', configs', r.node).blob.data
        IN  /\ configAcl' = configAcl
            /\ \A i \in 1 .. Len(r.data) : new[r.offset + i] = r.data[i]
            /\ \A i \in 1 .. Len(new) :
                  i \notin r.offset + 1 .. r.offset + Len(r.data) =>
                      new[i] = IF i <= Len(old) THEN old[i] ELSE 0
            /\ Len(new) >= Len(old)

\* The second call of a Write during which nothing else has changed.
LEMMA SendIsLocal ==
  ASSUME FuseInv, NEW p \in Proc, Send(p), inode' # inode, proc[p].began = epoch
  PROVE  LET r == proc[p].req
             old == CurrentOf(contents, configs, r.node).blob.data
             new == CurrentOf(contents', configs', r.node).blob.data
         IN  /\ configAcl' = configAcl
             /\ old \in Seq(Nat) /\ new \in Seq(Nat)
             /\ new = Patch(old, r.offset, r.data).data
<1>1. PICK s : s = proc[p]
  OBVIOUS
<1>2. IInv /\ IInv'
  BY SendTables, TableFacts DEF FuseInv, Tabled
<1>3. Good(s) /\ s.at = "send" /\ Fetched(s) /\ s.got = GetConfig(s.req.node)
  BY <1>1 DEF FuseInv, Send, Good, Fetched
<1>4. PICK c \in s.got : c = Sent(s)
  BY <1>3 DEF Sent, Fetched
<1>5. PICK blob : blob = Patch(c.data, s.req.offset, s.req.data)
  OBVIOUS
<1>6. blob \in Blob /\ Set(c.id, c.path, c.name, blob, c.acls)
  BY <1>1, <1>4, <1>5 DEF Send, vars
<1>7. PICK e \in configs :
         /\ e.id = s.req.node /\ c.id = e.id /\ c.acls = AclsOf(configAcl, e.id)
         /\ c.data = (CHOOSE v \in contents : v.id = e.current).blob.data
  BY <1>3, <1>4 DEF GetConfig, AllowedConfigs
<1>8. c.data = CurrentOf(contents, configs, e.id).blob.data /\ c.data \in Seq(Nat)
  <2>1. /\ CurrentOf(contents, configs, e.id) \in contents /\ CurrentOf(contents, configs, e.id).id = e.current
        /\ \A v \in contents : v.id = e.current => v = CurrentOf(contents, configs, e.id)
    BY <1>2, CurrentVersion
  <2>2. (CHOOSE v \in contents : v.id = e.current) = CurrentOf(contents, configs, e.id)
    BY <2>1
  <2>3. CurrentOf(contents, configs, e.id).blob.data \in Seq(Nat)
    BY <1>2, <2>1, DataAssumption DEF IInv, TypeOK, ContentRow, Blob
  <2> QED
    BY <1>7, <2>2, <2>3
<1>9. blob # NoContent
  BY <1>6, DataAssumption DEF Blob
<1>10. PICK d \in configs : d.id = c.id /\ NewVersion(d, blob, now)
  BY <1>6, <1>9 DEF Set, Update
<1>11. configAcl' = configAcl
  BY <1>2, <1>6, <1>7, SameAcls DEF Set, Update
<1>12. PICK n : n = [d EXCEPT !.current = inode + 1, !.updated = now]
  OBVIOUS
<1>13. n \in configs' /\ n.id = e.id /\ n.current = inode + 1
  <2>1. d \in ConfigRow
    BY <1>2 DEF IInv, TypeOK
  <2>2. n.id = d.id /\ n.current = inode + 1
    BY <1>12, <2>1 DEF ConfigRow
  <2> QED
    BY <1>7, <1>10, <1>12, <2>2 DEF NewVersion
<1>14. PICK v : v = [id |-> inode + 1, config |-> d.id, blob |-> blob, created |-> now]
  OBVIOUS
<1>15. v \in contents' /\ v.id = inode + 1 /\ v.blob = blob
  BY <1>10, <1>14 DEF NewVersion
<1>16. CurrentOf(contents', configs', e.id) = v
  <2>1. \A w \in contents' : w.id = n.current => w = CurrentOf(contents', configs', n.id)
    <3>1. ASSUME IInv' PROVE \A b \in configs' : \A w \in contents' : w.id = b.current => w = CurrentOf(contents', configs', b.id)
      <4>1. \A b \in configs' : \A b2 \in configs' : b2.id = b.id => b2 = b
        BY <3>1 DEF IInv, InodesDistinct, UniqueIds
      <4>2. \A w, w2 \in contents' : w.id = w2.id => w = w2
        BY <3>1 DEF IInv, InodesDistinct, UniqueIds
      <4> QED
        BY <4>1, <4>2 DEF CurrentOf
    <3> QED
      BY <1>2, <1>13, <3>1
  <2> QED
    BY <1>13, <1>15, <2>1
<1>17. blob.data \in Seq(Nat)
  BY <1>6, DataAssumption DEF Blob
<1> QED
  BY <1>1, <1>5, <1>7, <1>8, <1>11, <1>15, <1>16, <1>17

LEMMA LocalNext == FuseInv /\ [FuseNext]_fuseVars => [LocalStep]_fuseVars
<1> SUFFICES ASSUME FuseInv, FuseNext, NEW p \in Caller, WriteStep(p)
             PROVE  LET r == proc[p].req
                        old == CurrentOf(contents, configs, r.node).blob.data
                        new == CurrentOf(contents', configs', r.node).blob.data
                    IN  /\ configAcl' = configAcl
                        /\ \A i \in 1 .. Len(r.data) : new[r.offset + i] = r.data[i]
                        /\ \A i \in 1 .. Len(new) :
                              i \notin r.offset + 1 .. r.offset + Len(r.data) =>
                                  new[i] = IF i <= Len(old) THEN old[i] ELSE 0
                        /\ Len(new) >= Len(old)
  BY DEF LocalStep
<1>1. p \in Proc /\ inode' # inode /\ proc[p].began = epoch /\ proc[p].at = "send"
      /\ proc'[p] # proc[p]
  BY DEF WriteStep, Proc
<1>2. Send(p)
  <2>1. Request(p)
    BY <1>1, Mover DEF Exit, vars
  <2> QED
    BY <1>1, <2>1 DEF Request, Begin, Look, Change, Fetch, CallFails, Seek, vars
<1>3. PICK r, old, new :
         /\ r = proc[p].req
         /\ old = CurrentOf(contents, configs, r.node).blob.data
         /\ new = CurrentOf(contents', configs', r.node).blob.data
  OBVIOUS
<1>4. /\ configAcl' = configAcl
      /\ old \in Seq(Nat) /\ new \in Seq(Nat)
      /\ new = Patch(old, r.offset, r.data).data
  BY <1>1, <1>2, <1>3, SendIsLocal
<1>5. r.offset \in Nat /\ r.data \in Seq(Nat)
  BY <1>1, <1>3, FuseAssumption, DataAssumption DEF FuseInv, Good, Asked, Fetched
<1>6. PICK offset, bytes : offset = r.offset /\ bytes = r.data
  OBVIOUS
<1>7. Overwrites(old, offset, bytes, new)
  <2>1. /\ old \in Seq(Nat) /\ offset \in Nat /\ bytes \in Seq(Nat) /\ new \in Seq(Nat)
        /\ new = Patch(old, offset, bytes).data
    BY <1>4, <1>5, <1>6
  <2> QED
    BY <2>1, PatchFacts
<1> QED
  BY <1>3, <1>4, <1>6, <1>7, Zenon DEF Overwrites

\* A Write changes the bytes it is for.
THEOREM FuseWriteIsLocal == FuseSpec => WriteIsLocal
<1>1. WriteIsLocal <=> [][LocalStep]_fuseVars
  BY DEF WriteIsLocal, LocalStep, CurrentOf
<1> QED
  BY <1>1, LocalNext, FuseInvariant, PTL DEF FuseSpec

=============================================================================
