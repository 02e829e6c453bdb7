---------------------------- MODULE StoreProofs ----------------------------
(***************************************************************************)
(* Proofs about Store, for every set of names, paths, contents and ACL     *)
(* lists and every bound on the inode counter.                             *)
(*                                                                         *)
(* The invariants of Store hold each other up: a path gets one row because *)
(* Missing looks rows up by path, its parent_id is right because the       *)
(* parent has one row, a directory can go without breaking the tree        *)
(* because the count over parent_id sees every child, and so on.  Their    *)
(* conjunction IInv is inductive.                                          *)
(***************************************************************************)
EXTENDS Store, TLAPS, FiniteSetTheorems, SequenceTheorems, WellFoundedInduction

-----------------------------------------------------------------------------
(* Paths and their components *)

\* A path is among its components, they are paths, and the one of length k is
\* the prefix of length k.
LEMMA ComponentFacts ==
    ASSUME NEW p \in Path
    PROVE  /\ p \in Components(p)
           /\ Components(p) \subseteq Path
           /\ Len(p) \in Nat \ {0}
           /\ \A k \in 1 .. Len(p) : Len(SubSeq(p, 1, k)) = k
           /\ \A q \in Components(p) : /\ Len(q) \in 1 .. Len(p)
                                       /\ q = SubSeq(p, 1, Len(q))
<1>1. /\ p \in Seq(Name) /\ p # Root
      /\ Components(p) \subseteq Path
  BY PathAssumption
<1>2. Len(p) \in Nat \ {0}
  BY <1>1, EmptySeq DEF Root
<1>3. \A i \in 1 .. Len(p) : p[i] \in Name
  BY <1>1
<1>4. \A k \in 1 .. Len(p) : Len(SubSeq(p, 1, k)) = k
  <2> TAKE k \in 1 .. Len(p)
  <2>1. k \in Int /\ \A i \in 1 .. k : p[i] \in Name
    BY <1>2, <1>3
  <2> QED BY <2>1, SubSeqProperties
<1>5. p \in Components(p)
  <2>1. SubSeq(p, 1, Len(p)) = p
    BY <1>1
  <2>2. Len(p) \in 1 .. Len(p)
    BY <1>2
  <2>3. SubSeq(p, 1, Len(p)) \in {SubSeq(p, 1, k) : k \in 1 .. Len(p)}
    BY <2>2
  <2> QED BY <2>1, <2>3 DEF Components
<1>6. \A q \in Components(p) : Len(q) \in 1 .. Len(p) /\ q = SubSeq(p, 1, Len(q))
  BY <1>4 DEF Components
<1> QED BY <1>1, <1>2, <1>4, <1>5, <1>6

\* The parent of a component below the top level is the component before it.
LEMMA ParentFacts ==
    ASSUME NEW p \in Path, NEW q \in Components(p), Len(q) # 1
    PROVE  /\ Parent(q) \in Components(p)
           /\ Len(Parent(q)) = Len(q) - 1
<1> DEFINE k == Len(q)
<1>1. k \in 1 .. Len(p) /\ k # 1 /\ q = SubSeq(p, 1, k) /\ Len(p) \in Nat
  BY ComponentFacts
<1>2. p \in Seq(Name)
  BY PathAssumption
<1>3. k - 1 \in 1 .. Len(p) /\ Len(SubSeq(p, 1, k - 1)) = k - 1
  BY <1>1, ComponentFacts
<1>4. q \in Seq(Name) /\ SubSeq(q, 1, k - 1) \in Seq(Name)
  <2>1. q \in Path
    BY ComponentFacts
  <2>2. q \in Seq(Name)
    BY <2>1, PathAssumption
  <2> QED BY <2>2, <1>1
<1>5. Parent(q) = SubSeq(p, 1, k - 1)
  <2>1. \A i \in 1 .. k : q[i] = p[i]
    BY <1>1, <1>2
  <2>2. Len(SubSeq(q, 1, k - 1)) = k - 1 /\ \A i \in 1 .. k - 1 : SubSeq(q, 1, k - 1)[i] = q[i]
    BY <1>1, <1>4
  <2>3. \A i \in 1 .. k - 1 : SubSeq(p, 1, k - 1)[i] = p[i]
    BY <1>1, <1>2
  <2>4. SubSeq(p, 1, k - 1) \in Seq(Name)
    BY <1>1, <1>2
  <2>5. SubSeq(q, 1, k - 1) = SubSeq(p, 1, k - 1)
    BY <2>1, <2>2, <2>3, <2>4, <1>3, <1>4, <1>1, SeqEqual
  <2> QED BY <2>5 DEF Parent
<1> QED BY <1>3, <1>5 DEF Components

\* A set of numbers has a least one.
LEMMA NatMin ==
    ASSUME NEW T \in SUBSET Nat, T # {}
    PROVE  \E n \in T : \A m \in T : ~ (m < n)
<1>1. PICK n \in T : \A m \in T : ~ (<<m, n>> \in OpToRel(<, Nat))
  BY NatLessThanWellFounded, WFMin
<1> QED BY <1>1 DEF OpToRel

\* The parent of a path is a path or the root; its components are those of the
\* path without the last.
LEMMA ParentPath ==
    ASSUME NEW p \in Path
    PROVE  /\ Parent(p) \in Path \cup {Root}
           /\ Len(Parent(p)) \in Nat /\ Len(Parent(p)) < Len(p)
           /\ Components(p) = Components(Parent(p)) \cup {p}
           /\ Components(Root) = {}
<1>1. p \in Seq(Name) /\ Len(p) \in Nat \ {0}
  BY ComponentFacts, PathAssumption
<1>2. Components(Root) = {}
  BY EmptySeq DEF Components, Root
<1>3. CASE Len(p) = 1
  <2>1. Parent(p) = Root /\ Len(Root) = 0
    <3>1. Parent(p) \in Seq(Name) /\ Len(Parent(p)) = 0
      BY <1>1, <1>3 DEF Parent
    <3> QED BY <3>1, EmptySeq DEF Root
  <2>2. Components(p) = {p}
    <3>1. SubSeq(p, 1, 1) = p
      BY <1>1, <1>3
    <3> QED BY <1>3, <3>1 DEF Components
  <2> QED BY <1>2, <1>3, <2>1, <2>2
<1>4. CASE Len(p) # 1
  <2> DEFINE q == Parent(p)
             n == Len(p)
  <2>0. p \in Components(p) /\ Components(p) \subseteq Path
    BY ComponentFacts
  <2>1. q \in Path /\ Len(q) = n - 1
    BY <1>4, <2>0, ParentFacts
  <2>2. q = SubSeq(p, 1, n - 1)
    BY DEF Parent
  <2>3. q \in Seq(Name)
    BY <2>1, PathAssumption
  <2> HIDE DEF q, n
  <2>4. n \in Nat /\ n > 1 /\ SubSeq(p, 1, n) = p
    <3>1. SubSeq(p, 1, Len(p)) = p
      BY <1>1
    <3> QED BY <1>1, <1>4, <3>1 DEF n
  <2>5. \A k \in 1 .. n - 1 : SubSeq(q, 1, k) = SubSeq(p, 1, k)
    <3> TAKE k \in 1 .. n - 1
    <3>1. SubSeq(q, 1, k) \in Seq(Name) /\ SubSeq(p, 1, k) \in Seq(Name)
      BY <1>1, <2>1, <2>3, <2>4 DEF n
    <3>2. Len(SubSeq(q, 1, k)) = k /\ Len(SubSeq(p, 1, k)) = k
      BY <1>1, <2>1, <2>3, <2>4 DEF n
    <3>3. \A i \in 1 .. k : SubSeq(q, 1, k)[i] = q[i] /\ SubSeq(p, 1, k)[i] = p[i]
      BY <1>1, <2>1, <2>3, <2>4 DEF n
    <3>4. \A i \in 1 .. n - 1 : q[i] = p[i]
      BY <1>1, <2>2, <2>4 DEF n
    <3>5. \A i \in 1 .. k : q[i] = p[i]
      BY <2>4, <3>4
    <3> QED BY <3>1, <3>2, <3>3, <3>5, SeqEqual
  <2>6. Components(p) = {SubSeq(p, 1, k) : k \in 1 .. n}
    BY DEF Components, n
  <2>7. Components(q) = {SubSeq(p, 1, k) : k \in 1 .. n - 1}
    BY <2>1, <2>5 DEF Components
  <2>8. Components(p) = Components(q) \cup {p}
    <3>1. \A k \in 1 .. n : k \in 1 .. n - 1 \/ k = n
      BY <2>4
    <3>2. \A k \in 1 .. n - 1 : k \in 1 .. n
      BY <2>4
    <3>3. n \in 1 .. n
      BY <2>4
    <3> QED BY <2>4, <2>6, <2>7, <3>1, <3>2, <3>3
  <2> QED BY <1>2, <2>1, <2>4, <2>8 DEF q, n
<1> QED BY <1>3, <1>4

\* The components that have no row are finitely many.
LEMMA MissingFinite ==
    ASSUME NEW p \in Path
    PROVE  IsFiniteSet(Missing(p)) /\ Cardinality(Missing(p)) \in Nat
<1> DEFINE f == [k \in 1 .. Len(p) |-> SubSeq(p, 1, k)]
<1>1. f \in Surjection(1 .. Len(p), Components(p))
  BY DEF Surjection, Components
<1>2. IsFiniteSet(1 .. Len(p))
  BY ComponentFacts, FS_Interval
<1>3. IsFiniteSet(Components(p))
  BY <1>1, <1>2, FS_Surjection
<1>4. IsFiniteSet(Missing(p))
  BY <1>3, FS_Subset DEF Missing
<1> QED BY <1>4, FS_CardinalityType

\* The new ids are new and no two rows share one.
LEMMA NumberingFacts ==
    ASSUME NEW p \in Path, inode \in Nat,
           NEW number \in Numberings(Missing(p))
    PROVE  /\ DOMAIN number = Missing(p)
           /\ \A q \in Missing(p) :
                 number[q] \in inode + 1 .. inode + Cardinality(Missing(p))
           /\ \A q, r \in Missing(p) : number[q] = number[r] => q = r
<1>1. Missing(p) \subseteq Components(p)
  BY DEF Missing
<1>2. \A q \in Missing(p) :
         number[q] \in inode + 1 .. inode + Cardinality(Missing(p))
  BY DEF Numberings
<1>3. \A q, r \in Missing(p) : number[q] = number[r] => q = r
  <2> SUFFICES ASSUME NEW q \in Missing(p), NEW r \in Missing(p),
                      number[q] = number[r]
               PROVE  q = r
    OBVIOUS
  <2>1. number[q] \in Int
    BY <1>2, MissingFinite
  <2>2. Len(q) \in Nat /\ Len(r) \in Nat
    BY <1>1, ComponentFacts
  <2>3. ~ (Len(q) < Len(r)) /\ ~ (Len(r) < Len(q))
    BY <2>1 DEF Numberings
  <2>4. Len(q) = Len(r)
    BY <2>2, <2>3
  <2> QED BY <2>4, <1>1, ComponentFacts
<1> QED BY <1>2, <1>3 DEF Numberings

-----------------------------------------------------------------------------
(* Each transaction preserves the inductive invariant *)

\* The rows insertACLs adds are rows of the owner, and grants.
LEMMA AclRowFacts ==
    ASSUME NEW owner \in Nat, NEW acls \in AclList,
           NEW r \in AclRows(owner, acls)
    PROVE  r \in AclRow /\ r.owner = owner /\ r.entry.acl # "UNKNOWN"
<1>1. acls \subseteq Entry
  BY DataAssumption
<1> QED BY <1>1 DEF AclRows, Storable, AclRow

\* UpdateDirectory writes one table, and only grants of a directory that exists.
LEMMA UpdateDirectoryIInv ==
    ASSUME IInv, NEW id \in Ids(dirs), NEW acls \in AclList,
           UpdateDirectory(id, acls)
    PROVE  IInv'
<1> USE DEF IInv, UpdateDirectory
<1>1. id \in Nat
  BY DEF TypeOK, Ids, DirRow
<1>2. TypeOK'
  BY <1>1, AclRowFacts DEF TypeOK, ReplaceAcls, Disown
<1>3. InodesDistinct'
  BY DEF InodesDistinct, UniqueIds, Ids
<1>4. DirInv'
  BY DEF DirInv, PathsUnique, TreeConnected
<1>5. ConfigInv'
  BY DEF ConfigInv, ConfigsHoused, NamesUnique, CurrentIsLatest,
         FirstVersionStamp, DirectoryExists, DirPaths
<1>6. NoOrphans'
  BY <1>1, AclRowFacts DEF NoOrphans, ReplaceAcls, Disown, Ids
<1> QED BY <1>2, <1>3, <1>4, <1>5, <1>6

\* DeleteDirectory: no row names the deleted one as its parent, and no config
\* lives in it.
LEMMA DeleteDirectoryIInv ==
    ASSUME IInv, NEW id \in Ids(dirs), DeleteDirectory(id)
    PROVE  IInv'
<1> USE DEF IInv, DeleteDirectory
<1> PICK d \in dirs : d.id = id /\ CanDeleteDirectory(d) /\ dirs' = dirs \ {d}
  OBVIOUS
<1>1. TypeOK'
  BY DEF TypeOK, Disown
<1>2. InodesDistinct'
  BY DEF InodesDistinct, UniqueIds, Ids
<1>3. DirInv'
  <2>1. PathsUnique'
    BY DEF DirInv, PathsUnique
  <2>2. TreeConnected'
    BY DEF DirInv, TreeConnected, CanDeleteDirectory, ChildDirs
  <2> QED BY <2>1, <2>2 DEF DirInv
<1>4. ConfigInv'
  <2>1. ConfigsHoused'
    <3> SUFFICES ASSUME NEW c \in configs PROVE DirectoryExists(c.path)'
      BY DEF ConfigsHoused
    <3>1. c.path # d.full
      BY DEF CanDeleteDirectory, ChildConfigs
    <3>2. DirectoryExists(c.path)
      BY DEF ConfigInv, ConfigsHoused
    <3> QED BY <3>1, <3>2 DEF DirectoryExists, DirPaths
  <2> QED BY <2>1 DEF ConfigInv, NamesUnique, CurrentIsLatest, FirstVersionStamp
<1>5. NoOrphans'
  <2>1. \A e \in dirs : e.id # id => e \in dirs'
    OBVIOUS
  <2>2. \A r \in dirAcl' : r \in dirAcl /\ r.owner # id
    BY DEF Disown
  <2> QED BY <2>1, <2>2 DEF NoOrphans, Ids
<1> QED BY <1>1, <1>2, <1>3, <1>4, <1>5

\* Every id in the tables, and every owner, is a natural number up to inode.
LEMMA IdFacts ==
    ASSUME IInv
    PROVE  /\ inode \in Nat
           /\ \A d \in dirs : d.id \in 1 .. inode
           /\ \A c \in configs : c.id \in 1 .. inode
           /\ \A v \in contents : v.id \in 1 .. inode /\ v.config \in 1 .. inode
<1>1. inode \in Nat
  BY DEF IInv, TypeOK
<1>2. /\ \A d \in dirs : d.id \in Ids(dirs)
      /\ \A c \in configs : c.id \in Ids(configs)
      /\ \A v \in contents : v.id \in Ids(contents)
  BY DEF Ids
<1>3. \A n \in Ids(dirs) \cup Ids(configs) \cup Ids(contents) : n \in 1 .. inode
  BY DEF IInv, InodesDistinct
<1>4. \A v \in contents : v.config \in Ids(configs)
  BY DEF IInv, NoOrphans
<1> QED BY <1>1, <1>2, <1>3, <1>4

\* Insert: the two ids are above every id there is.
LEMMA InsertIInv ==
    ASSUME IInv, NEW path \in ConfigPath, NEW name \in FileName,
           NEW blob \in Blob, NEW acls \in AclList, NEW now \in Clock,
           Insert(path, name, blob, acls, now)
    PROVE  IInv'
<1> DEFINE c == [id |-> inode + 1, path |-> path, name |-> name,
                 current |-> inode + 2, created |-> now, updated |-> now]
           v == [id |-> inode + 2, config |-> inode + 1, blob |-> blob,
                 created |-> now]
<1>1. inode \in Nat /\ MaxInode \in Nat /\ inode + 2 <= MaxInode
  BY DataAssumption DEF IInv, TypeOK, Insert, CanInsert
<1>2. /\ configs' = configs \cup {c} /\ contents' = contents \cup {v}
      /\ inode' = inode + 2 /\ UNCHANGED <<dirs, dirAcl>>
      /\ configAcl' = configAcl \cup AclRows(inode + 1, acls)
  BY DEF Insert
<1>3. /\ \A d \in dirs : d.id \in 1 .. inode
      /\ \A e \in configs : e.id \in 1 .. inode
      /\ \A w \in contents : w.id \in 1 .. inode /\ w.config \in 1 .. inode
  BY IdFacts
<1>4. c.id = inode + 1 /\ c.current = inode + 2 /\ c.created = now
      /\ c.path = path /\ c.name = name
      /\ v.id = inode + 2 /\ v.config = inode + 1 /\ v.created = now
  OBVIOUS
<1> HIDE DEF c, v
<1>5. TypeOK'
  <2>1. c \in ConfigRow /\ v \in ContentRow
    BY <1>1 DEF ConfigRow, ContentRow, c, v
  <2>2. \A r \in AclRows(inode + 1, acls) : r \in AclRow
    BY <1>1, AclRowFacts
  <2> QED BY <1>1, <1>2, <2>1, <2>2 DEF TypeOK, IInv
<1>6. InodesDistinct'
  <2>1. UniqueIds(configs)' /\ UniqueIds(contents)' /\ UniqueIds(dirs)'
    BY <1>1, <1>2, <1>3, <1>4 DEF InodesDistinct, UniqueIds, IInv
  <2>2. Ids(dirs)' = Ids(dirs)
    BY <1>2 DEF Ids
  <2>3. Ids(configs)' = Ids(configs) \cup {inode + 1}
    BY <1>2, <1>4 DEF Ids
  <2>4. Ids(contents)' = Ids(contents) \cup {inode + 2}
    BY <1>2, <1>4 DEF Ids
  <2>5. /\ \A n \in Ids(dirs) \cup Ids(configs) \cup Ids(contents) : n \in 1 .. inode
        /\ Ids(dirs) \cap Ids(configs) = {}
        /\ Ids(contents) \cap Ids(dirs) = {}
        /\ \A x \in contents : x.id \in Ids(configs) => x.id = x.config
    BY DEF IInv, InodesDistinct
  <2>6. /\ inode + 1 \notin Ids(dirs) \cup Ids(configs) \cup Ids(contents)
        /\ inode + 2 \notin Ids(dirs) \cup Ids(configs) \cup Ids(contents)
        /\ inode + 1 # inode + 2
    BY <1>1, <2>5
  <2>7. \A n \in (Ids(dirs) \cup Ids(configs) \cup Ids(contents))' : n \in 1 .. inode'
    BY <1>1, <1>2, <2>2, <2>3, <2>4, <2>5
  <2>8. /\ (Ids(dirs) \cap Ids(configs))' = {}
        /\ (Ids(contents) \cap Ids(dirs))' = {}
    BY <2>2, <2>3, <2>4, <2>5, <2>6
  <2>9. \A x \in contents : x.id \in Ids(contents)
    BY DEF Ids
  <2>10. \A x \in contents' : x.id \in Ids(configs)' => x.id = x.config
    BY <1>2, <1>4, <2>3, <2>5, <2>6, <2>9
  <2> QED BY <2>1, <2>7, <2>8, <2>10 DEF InodesDistinct
<1>7. DirInv'
  BY <1>2 DEF DirInv, PathsUnique, TreeConnected, IInv
<1>8. ConfigInv'
  <2>1. ConfigsHoused'
    BY <1>2, <1>4 DEF Insert, IInv, ConfigInv, ConfigsHoused, CanInsert,
                      DirectoryExists, DirPaths
  <2>2. NamesUnique'
    BY <1>2, <1>4 DEF Insert, IInv, ConfigInv, NamesUnique, CanInsert
  <2>3. \A w \in contents' : w.config = inode + 1 => w = v
    BY <1>1, <1>2, <1>3
  <2>4. \A e \in configs, w \in contents' : w.config = e.id => w \in contents
    BY <1>1, <1>2, <1>3, <1>4
  <2>5. CurrentIsLatest'
    <3> SUFFICES ASSUME NEW e \in configs'
                 PROVE  \E x \in contents' :
                           /\ x.id = e.current
                           /\ x.config = e.id
                           /\ \A w \in contents' : w.config = e.id => w.id <= x.id
      BY DEF CurrentIsLatest
    <3>1. CASE e = c
      BY <3>1, <2>3, <1>1, <1>2, <1>4
    <3>2. CASE e \in configs
      BY <3>2, <2>4, <1>2 DEF IInv, ConfigInv, CurrentIsLatest
    <3> QED BY <3>1, <3>2, <1>2
  <2>6. FirstVersionStamp'
    <3> SUFFICES ASSUME NEW e \in configs'
                 PROVE  \E x \in contents' :
                           /\ x.config = e.id
                           /\ x.created = e.created
                           /\ \A w \in contents' : w.config = e.id => x.id <= w.id
      BY DEF FirstVersionStamp
    <3>1. CASE e = c
      BY <3>1, <2>3, <1>1, <1>2, <1>4
    <3>2. CASE e \in configs
      BY <3>2, <2>4, <1>2 DEF IInv, ConfigInv, FirstVersionStamp
    <3> QED BY <3>1, <3>2, <1>2
  <2> QED BY <2>1, <2>2, <2>5, <2>6 DEF ConfigInv
<1>9. NoOrphans'
  <2>1. /\ Ids(dirs)' = Ids(dirs)
        /\ Ids(configs) \subseteq Ids(configs)' /\ inode + 1 \in Ids(configs)'
    BY <1>2, <1>4 DEF Ids
  <2>2. \A r \in AclRows(inode + 1, acls) :
           r.owner = inode + 1 /\ r.entry.acl # "UNKNOWN"
    BY <1>1, AclRowFacts
  <2> QED BY <1>2, <1>4, <2>1, <2>2 DEF IInv, NoOrphans
<1> QED BY <1>5, <1>6, <1>7, <1>8, <1>9 DEF IInv

\* Delete removes a config with all that names it.
LEMMA DeleteIInv ==
    ASSUME IInv, NEW id, Delete(id)
    PROVE  IInv'
<1>1. /\ configAcl' = {r \in configAcl : r.owner # id}
      /\ contents' = {v \in contents : v.config # id}
      /\ configs' = {c \in configs : c.id # id}
      /\ UNCHANGED <<inode, dirs, dirAcl>>
  BY DEF Delete, Disown
<1>2. TypeOK'
  BY <1>1 DEF IInv, TypeOK
<1>3. InodesDistinct'
  BY <1>1 DEF IInv, InodesDistinct, UniqueIds, Ids
<1>4. DirInv'
  BY <1>1 DEF IInv, DirInv, PathsUnique, TreeConnected
<1>5. ConfigInv'
  <2>1. ConfigsHoused' /\ NamesUnique'
    BY <1>1 DEF IInv, ConfigInv, ConfigsHoused, NamesUnique, DirectoryExists, DirPaths
  <2>2. CurrentIsLatest'
    BY <1>1 DEF IInv, ConfigInv, CurrentIsLatest
  <2>3. FirstVersionStamp'
    BY <1>1 DEF IInv, ConfigInv, FirstVersionStamp
  <2> QED BY <2>1, <2>2, <2>3 DEF ConfigInv
<1>6. NoOrphans'
  BY <1>1 DEF IInv, NoOrphans, Ids
<1> QED BY <1>2, <1>3, <1>4, <1>5, <1>6 DEF IInv

\* Either branch of update replaces the row of the config by one with the same
\* id, place and creation time; with content, the new version becomes current.
LEMMA UpdatedRow ==
    ASSUME inode \in Nat, NEW c \in ConfigRow, NEW now \in Clock,
           NEW content,
           IF content = NoContent THEN SameVersion(c, now)
                                  ELSE NewVersion(c, content, now)
    PROVE  \E d \in ConfigRow :
              /\ configs' = (configs \ {c}) \cup {d}
              /\ d.id = c.id /\ d.path = c.path /\ d.name = c.name
              /\ d.created = c.created
              /\ IF content = NoContent
                 THEN d.current = c.current /\ UNCHANGED <<inode, contents>>
                 ELSE /\ d.current = inode + 1
                      /\ inode' = inode + 1 /\ inode' <= MaxInode
                      /\ contents' = contents \cup
                           {[id |-> inode + 1, config |-> c.id, blob |-> content,
                             created |-> now]}
<1>1. CASE content = NoContent
  <2> DEFINE d == [c EXCEPT !.updated = now]
  <2>1. /\ d \in ConfigRow
        /\ d.id = c.id /\ d.path = c.path /\ d.name = c.name
        /\ d.created = c.created /\ d.current = c.current
    BY DEF ConfigRow
  <2> QED BY <1>1, <2>1 DEF SameVersion
<1>2. CASE content # NoContent
  <2> DEFINE n == inode + 1
             d == [c EXCEPT !.current = n, !.updated = now]
  <2>1. n \in Nat
    OBVIOUS
  <2>2. d = [c EXCEPT !.current = inode + 1, !.updated = now] /\ n = inode + 1
    OBVIOUS
  <2> HIDE DEF n
  <2>3. /\ d \in ConfigRow
        /\ d.id = c.id /\ d.path = c.path /\ d.name = c.name
        /\ d.created = c.created /\ d.current = n
    BY <2>1 DEF ConfigRow
  <2> HIDE DEF d
  <2> QED BY <1>2, <2>2, <2>3 DEF NewVersion
<1> QED BY <1>1, <1>2

\* Update: the row of the config is replaced by one with the same id, place and
\* creation time; with content, a version above all others becomes current.
LEMMA UpdateIInv ==
    ASSUME IInv, NEW id \in Ids(configs), NEW path, NEW name,
           NEW content \in Blob \cup {NoContent}, NEW acls \in AclList,
           NEW now \in Clock, Update(id, path, name, content, acls, now)
    PROVE  IInv'
<1>1. PICK c \in configs :
         /\ c.id = id
         /\ IF content = NoContent THEN SameVersion(c, now)
                                   ELSE NewVersion(c, content, now)
  BY DEF Update
<1>2. configAcl' = ReplaceAcls(configAcl, id, acls) /\ UNCHANGED <<dirs, dirAcl>>
  BY DEF Update
<1>3. /\ inode \in Nat
      /\ \A e \in dirs : e.id \in 1 .. inode
      /\ \A e \in configs : e.id \in 1 .. inode
      /\ \A w \in contents : w.id \in 1 .. inode /\ w.config \in 1 .. inode
  BY IdFacts
<1>4. c \in ConfigRow /\ now \in Clock
  BY DEF IInv, TypeOK
<1>5. \A e \in configs : e.id = id => e = c
  BY <1>1 DEF IInv, InodesDistinct, UniqueIds
\* What either branch does to the row of the config.
<1>6. PICK d \in ConfigRow :
               /\ configs' = (configs \ {c}) \cup {d}
               /\ d.id = id /\ d.path = c.path /\ d.name = c.name
               /\ d.created = c.created
               /\ IF content = NoContent
                  THEN d.current = c.current /\ UNCHANGED <<inode, contents>>
                  ELSE /\ d.current = inode + 1
                       /\ inode' = inode + 1 /\ inode' <= MaxInode
                       /\ contents' = contents \cup
                            {[id |-> inode + 1, config |-> id, blob |-> content,
                              created |-> now]}
  BY <1>1, <1>3, <1>4, UpdatedRow
<1>7. Ids(configs)' = Ids(configs) /\ Ids(dirs)' = Ids(dirs)
  BY <1>1, <1>2, <1>6 DEF Ids
<1>8. id \in Nat
  BY <1>1, <1>3
<1>9. UniqueIds(configs)'
  BY <1>5, <1>6 DEF IInv, InodesDistinct, UniqueIds
<1>10. /\ \A r \in configAcl' : r \in configAcl \/ r \in AclRows(id, acls)
       /\ \A r \in AclRows(id, acls) :
             r \in AclRow /\ r.owner = id /\ r.entry.acl # "UNKNOWN"
  BY <1>2, <1>8, AclRowFacts DEF ReplaceAcls, Disown
<1>11. DirInv'
  BY <1>2 DEF IInv, DirInv, PathsUnique, TreeConnected
<1>12. ConfigsHoused' /\ NamesUnique'
  <2>1. ConfigsHoused'
    BY <1>2, <1>6 DEF IInv, ConfigInv, ConfigsHoused, DirectoryExists, DirPaths
  <2>2. NamesUnique'
    BY <1>6 DEF IInv, ConfigInv, NamesUnique
  <2> QED BY <2>1, <2>2
<1>13. CASE content = NoContent
  <2>1. TypeOK'
    BY <1>2, <1>6, <1>10, <1>13 DEF IInv, TypeOK
  <2>2. InodesDistinct'
    BY <1>2, <1>6, <1>7, <1>9, <1>13 DEF IInv, InodesDistinct, UniqueIds, Ids
  <2>3. CurrentIsLatest' /\ FirstVersionStamp'
    BY <1>1, <1>6, <1>13 DEF IInv, ConfigInv, CurrentIsLatest, FirstVersionStamp
  <2>4. NoOrphans'
    BY <1>1, <1>2, <1>6, <1>7, <1>10, <1>13 DEF IInv, NoOrphans
  <2> QED BY <2>1, <2>2, <2>3, <2>4, <1>11, <1>12 DEF IInv, ConfigInv
<1>14. CASE content # NoContent
  <2> DEFINE v == [id |-> inode + 1, config |-> id, blob |-> content, created |-> now]
  <2>1. v.id = inode + 1 /\ v.config = id /\ v.created = now /\ v \in ContentRow
    BY <1>3, <1>8, <1>14 DEF ContentRow
  <2>2. /\ contents' = contents \cup {v} /\ inode' = inode + 1
        /\ inode' <= MaxInode /\ d.current = inode + 1
    BY <1>6, <1>14
  <2> HIDE DEF v
  <2>3. TypeOK'
    BY <1>2, <1>3, <1>6, <1>10, <2>1, <2>2, DataAssumption DEF IInv, TypeOK
  <2>4. InodesDistinct'
    <3>1. Ids(contents)' = Ids(contents) \cup {inode + 1}
      BY <2>1, <2>2 DEF Ids
    <3>2. UniqueIds(contents)' /\ UniqueIds(dirs)'
      BY <1>2, <1>3, <2>1, <2>2 DEF IInv, InodesDistinct, UniqueIds
    <3>3. /\ \A n \in Ids(dirs) \cup Ids(configs) \cup Ids(contents) : n \in 1 .. inode
          /\ Ids(dirs) \cap Ids(configs) = {}
          /\ Ids(contents) \cap Ids(dirs) = {}
          /\ \A x \in contents : x.id \in Ids(configs) => x.id = x.config
      BY DEF IInv, InodesDistinct
    <3>4. inode + 1 \notin Ids(dirs) \cup Ids(configs)
      BY <1>3, <3>3
    <3>5. \A n \in (Ids(dirs) \cup Ids(configs) \cup Ids(contents))' : n \in 1 .. inode'
      BY <1>3, <1>7, <2>2, <3>1, <3>3
    <3>6. /\ (Ids(dirs) \cap Ids(configs))' = {}
          /\ (Ids(contents) \cap Ids(dirs))' = {}
      BY <1>7, <3>1, <3>3, <3>4
    <3>7. \A x \in contents' : x.id \in Ids(configs)' => x.id = x.config
      BY <1>7, <2>1, <2>2, <3>3, <3>4
    <3> QED BY <1>9, <3>2, <3>5, <3>6, <3>7 DEF InodesDistinct
  <2>5. CurrentIsLatest'
    <3> SUFFICES ASSUME NEW e \in configs'
                 PROVE  \E x \in contents' :
                           /\ x.id = e.current
                           /\ x.config = e.id
                           /\ \A w \in contents' : w.config = e.id => w.id <= x.id
      BY DEF CurrentIsLatest
    <3>1. CASE e = d
      BY <3>1, <1>3, <1>6, <2>1, <2>2
    <3>2. CASE e \in configs /\ e # c
      <4>1. e.id # id
        BY <1>5, <3>2
      <4> QED BY <3>2, <4>1, <2>1, <2>2 DEF IInv, ConfigInv, CurrentIsLatest
    <3> QED BY <3>1, <3>2, <1>6
  <2>6. FirstVersionStamp'
    <3> SUFFICES ASSUME NEW e \in configs'
                 PROVE  \E x \in contents' :
                           /\ x.config = e.id
                           /\ x.created = e.created
                           /\ \A w \in contents' : w.config = e.id => x.id <= w.id
      BY DEF FirstVersionStamp
    <3>1. PICK b \in configs : b.id = e.id /\ b.created = e.created
      BY <1>1, <1>6
    <3>2. PICK x \in contents :
             /\ x.config = b.id
             /\ x.created = b.created
             /\ \A w \in contents : w.config = b.id => x.id <= w.id
      BY DEF IInv, ConfigInv, FirstVersionStamp
    <3> QED BY <3>1, <3>2, <1>3, <2>1, <2>2
  <2>7. NoOrphans'
    BY <1>1, <1>2, <1>7, <1>10, <2>1, <2>2 DEF IInv, NoOrphans
  <2> QED BY <2>3, <2>4, <2>5, <2>6, <2>7, <1>11, <1>12 DEF IInv, ConfigInv
<1> QED BY <1>13, <1>14

\* CreateDirectory: the missing components get new ids and hang each under the
\* row of the component before it, which exists or is made with it.
LEMMA CreateDirectoryIInv ==
    ASSUME IInv, NEW full \in Path, NEW acls \in AclList,
           CreateDirectory(full, acls)
    PROVE  IInv'
<1> DEFINE M == Missing(full)
<1>1. PICK number \in Numberings(M) :
         /\ dirs' = dirs \cup
              {[id |-> number[p], full |-> p, parent |-> ParentId(p, number)] : p \in M}
         /\ dirAcl' = dirAcl \cup UNION {AclRows(number[p], acls) : p \in M}
  BY DEF CreateDirectory
<1>2. /\ inode' = inode + Cardinality(M) /\ inode' <= MaxInode
      /\ UNCHANGED <<configs, configAcl, contents>>
  BY DEF CreateDirectory, CanCreateDirectory
<1>3. /\ inode \in Nat /\ Cardinality(M) \in Nat /\ MaxInode \in Nat
      /\ \A e \in dirs : e.id \in 1 .. inode
      /\ \A e \in configs : e.id \in 1 .. inode
      /\ \A w \in contents : w.id \in 1 .. inode /\ w.config \in 1 .. inode
  BY IdFacts, MissingFinite, DataAssumption
<1>4. /\ DOMAIN number = M
      /\ \A p \in M : number[p] \in inode + 1 .. inode'
      /\ \A p, q \in M : number[p] = number[q] => p = q
  BY <1>2, <1>3, NumberingFacts
<1>5. /\ M \subseteq Path /\ M \cap DirPaths = {}
      /\ Components(full) \subseteq DirPaths \cup M
  BY ComponentFacts DEF Missing
<1> HIDE DEF M
\* The parent of a new row is the row of its parent path, old or new.
<1>6. \A p \in M :
         IF Len(p) = 1
         THEN ParentId(p, number) = NoParent
         ELSE \/ /\ Parent(p) \in M
                 /\ ParentId(p, number) = number[Parent(p)]
              \/ \E e \in dirs : e.full = Parent(p) /\ e.id = ParentId(p, number)
  <2> TAKE p \in M
  <2>1. CASE Len(p) = 1
    BY <2>1 DEF ParentId
  <2>2. CASE Len(p) # 1 /\ Parent(p) \in M
    <3>1. ParentId(p, number) = number[Parent(p)]
      BY <2>2, <1>4 DEF ParentId
    <3> QED BY <2>2, <3>1
  <2>3. CASE Len(p) # 1 /\ Parent(p) \notin M
    <3>1. Parent(p) \in Components(full)
      BY <2>3, ParentFacts DEF M, Missing
    <3>2. \E e \in dirs : e.full = Parent(p)
      BY <2>3, <3>1, <1>5 DEF DirPaths
    <3>3. ParentId(p, number) = (CHOOSE e \in dirs : e.full = Parent(p)).id
      BY <2>3, <1>4 DEF ParentId
    <3>4. \E e \in dirs : e.full = Parent(p) /\ e.id = ParentId(p, number)
      BY <3>2, <3>3
    <3> QED BY <2>3, <3>4
  <2> QED BY <2>1, <2>2, <2>3
<1>7. \A p \in M : ParentId(p, number) \in Nat
  BY <1>3, <1>4, <1>6 DEF NoParent
<1> DEFINE row == [p \in M |-> [id |-> number[p], full |-> p,
                                parent |-> ParentId(p, number)]]
<1>8. /\ dirs' = dirs \cup {row[p] : p \in M}
      /\ \A p \in M : /\ row[p].id = number[p] /\ row[p].full = p
                      /\ row[p].parent = ParentId(p, number)
                      /\ row[p] \in DirRow
                      /\ row[p] \in dirs'
  BY <1>1, <1>3, <1>4, <1>5, <1>7 DEF DirRow
<1> HIDE DEF row
<1>9. \A r \in dirAcl' : \/ r \in dirAcl
                         \/ \E p \in M : r \in AclRows(number[p], acls)
  BY <1>1
<1>10. \A p \in M : \A r \in AclRows(number[p], acls) :
          r \in AclRow /\ r.owner = number[p] /\ r.entry.acl # "UNKNOWN"
  <2> TAKE p \in M
  <2>1. number[p] \in Nat
    BY <1>3, <1>4
  <2> QED BY <2>1, AclRowFacts
<1>11. TypeOK'
  <2>1. inode' \in 0 .. MaxInode
    BY <1>2, <1>3
  <2>2. dirs' \subseteq DirRow
    BY <1>8 DEF IInv, TypeOK
  <2>3. dirAcl' \subseteq AclRow
    BY <1>9, <1>10 DEF IInv, TypeOK
  <2> QED BY <1>2, <2>1, <2>2, <2>3 DEF IInv, TypeOK
<1>12. InodesDistinct'
  <2>1. UniqueIds(dirs)'
    <3> SUFFICES ASSUME NEW r \in dirs', NEW s \in dirs', r.id = s.id
                 PROVE  r = s
      BY DEF UniqueIds
    <3>1. CASE r \in dirs /\ s \in dirs
      BY <3>1 DEF IInv, InodesDistinct, UniqueIds
    <3>2. CASE r \in dirs /\ s \notin dirs
      BY <3>2, <1>3, <1>4, <1>8
    <3>3. CASE r \notin dirs /\ s \in dirs
      BY <3>3, <1>3, <1>4, <1>8
    <3>4. CASE r \notin dirs /\ s \notin dirs
      BY <3>4, <1>4, <1>8
    <3> QED BY <3>1, <3>2, <3>3, <3>4
  <2>2. UniqueIds(configs)' /\ UniqueIds(contents)'
    BY <1>2 DEF IInv, InodesDistinct, UniqueIds
  <2>3. /\ Ids(configs)' = Ids(configs) /\ Ids(contents)' = Ids(contents)
        /\ \A n \in Ids(dirs)' : n \in Ids(dirs) \/ n \in inode + 1 .. inode'
    BY <1>2, <1>4, <1>8 DEF Ids
  <2>4. /\ \A n \in Ids(dirs) \cup Ids(configs) \cup Ids(contents) : n \in 1 .. inode
        /\ Ids(dirs) \cap Ids(configs) = {}
        /\ Ids(contents) \cap Ids(dirs) = {}
        /\ \A x \in contents : x.id \in Ids(configs) => x.id = x.config
    BY DEF IInv, InodesDistinct
  <2>5. \A n \in (Ids(dirs) \cup Ids(configs) \cup Ids(contents))' : n \in 1 .. inode'
    BY <1>2, <1>3, <2>3, <2>4
  <2>6. /\ (Ids(dirs) \cap Ids(configs))' = {}
        /\ (Ids(contents) \cap Ids(dirs))' = {}
    <3>1. \A n \in inode + 1 .. inode' : n \notin Ids(configs) \cup Ids(contents)
      BY <1>3, <2>4
    <3> QED BY <2>3, <2>4, <3>1
  <2>7. \A x \in contents' : x.id \in Ids(configs)' => x.id = x.config
    BY <1>2, <2>3, <2>4
  <2> QED BY <2>1, <2>2, <2>5, <2>6, <2>7 DEF InodesDistinct
<1>13. DirInv'
  <2>1. PathsUnique'
    <3> SUFFICES ASSUME NEW r \in dirs', NEW s \in dirs', r.full = s.full
                 PROVE  r = s
      BY DEF PathsUnique
    <3>1. \A e \in dirs : e.full \in DirPaths
      BY DEF DirPaths
    <3> QED BY <3>1, <1>5, <1>8 DEF IInv, DirInv, PathsUnique
  <2>2. TreeConnected'
    <3> SUFFICES ASSUME NEW r \in dirs'
                 PROVE  IF Len(r.full) = 1
                        THEN r.parent = NoParent
                        ELSE \E e \in dirs' : e.full = Parent(r.full) /\ e.id = r.parent
      BY DEF TreeConnected
    <3>1. CASE r \in dirs
      BY <3>1, <1>8 DEF IInv, DirInv, TreeConnected
    <3>2. CASE r \notin dirs
      <4>1. PICK p \in M : r = row[p]
        BY <3>2, <1>8
      <4>2. r.full = p /\ r.parent = ParentId(p, number)
        BY <4>1, <1>8
      <4>3. CASE Len(p) = 1
        BY <4>2, <4>3, <1>6
      <4>4. CASE Len(p) # 1 /\ Parent(p) \in M /\ r.parent = number[Parent(p)]
        <5>1. /\ row[Parent(p)] \in dirs'
              /\ row[Parent(p)].full = Parent(p) /\ row[Parent(p)].id = r.parent
          BY <4>4, <1>8
        <5> QED BY <4>2, <4>4, <5>1
      <4>5. CASE Len(p) # 1 /\ \E e \in dirs : e.full = Parent(p) /\ e.id = r.parent
        BY <4>2, <4>5, <1>8
      <4> QED BY <4>2, <4>3, <4>4, <4>5, <1>6
    <3> QED BY <3>1, <3>2
  <2> QED BY <2>1, <2>2 DEF DirInv
<1>14. ConfigInv'
  <2>1. ConfigsHoused'
    <3>1. DirPaths \subseteq DirPaths'
      BY <1>8 DEF DirPaths
    <3> QED BY <1>2, <3>1 DEF IInv, ConfigInv, ConfigsHoused, DirectoryExists
  <2> QED BY <1>2, <2>1 DEF IInv, ConfigInv, NamesUnique, CurrentIsLatest,
                            FirstVersionStamp
<1>15. NoOrphans'
  <2>1. Ids(dirs) \subseteq Ids(dirs)' /\ \A p \in M : number[p] \in Ids(dirs)'
    BY <1>8 DEF Ids
  <2>2. Ids(configs)' = Ids(configs)
    BY <1>2 DEF Ids
  <2> QED BY <1>2, <1>9, <1>10, <2>1, <2>2 DEF IInv, NoOrphans
<1> QED BY <1>11, <1>12, <1>13, <1>14, <1>15 DEF IInv

-----------------------------------------------------------------------------
(* The theorems *)

\* The empty database satisfies the invariant.
LEMMA InitIInv == Init => IInv
<1> SUFFICES ASSUME Init PROVE IInv
  OBVIOUS
<1> USE DEF Init
<1>1. TypeOK
  BY DataAssumption DEF TypeOK
<1>2. InodesDistinct
  BY DEF InodesDistinct, UniqueIds, Ids
<1>3. DirInv
  BY DEF DirInv, PathsUnique, TreeConnected
<1>4. ConfigInv
  BY DEF ConfigInv, ConfigsHoused, NamesUnique, CurrentIsLatest, FirstVersionStamp
<1>5. NoOrphans
  BY DEF NoOrphans
<1> QED BY <1>1, <1>2, <1>3, <1>4, <1>5 DEF IInv

\* Every transaction, and a call that changes nothing, preserves the invariant.
LEMMA NextIInv == IInv /\ [Next]_vars => IInv'
<1> SUFFICES ASSUME IInv, [Next]_vars PROVE IInv'
  OBVIOUS
<1>1. ASSUME NEW full \in Path, NEW acls \in AclList, CreateDirectory(full, acls)
      PROVE  IInv'
  BY <1>1, CreateDirectoryIInv
<1>2. ASSUME NEW id \in Ids(dirs), NEW acls \in AclList, UpdateDirectory(id, acls)
      PROVE  IInv'
  BY <1>2, UpdateDirectoryIInv
<1>3. ASSUME NEW id \in Ids(dirs), DeleteDirectory(id)
      PROVE  IInv'
  BY <1>3, DeleteDirectoryIInv
<1>4. ASSUME NEW path \in ConfigPath, NEW name \in FileName, NEW blob \in Blob,
             NEW acls \in AclList, NEW now \in Clock,
             Insert(path, name, blob, acls, now)
      PROVE  IInv'
  BY <1>4, InsertIInv
<1>5. ASSUME NEW c \in configs, NEW content \in Blob \cup {NoContent},
             NEW acls \in AclList, NEW now \in Clock,
             Update(c.id, c.path, c.name, content, acls, now)
      PROVE  IInv'
  <2>1. c.id \in Ids(configs)
    BY DEF Ids
  <2> QED BY <1>5, <2>1, UpdateIInv
<1>6. ASSUME NEW id \in Ids(configs), Delete(id)
      PROVE  IInv'
  BY <1>6, DeleteIInv
<1>7. CASE UNCHANGED vars
  BY <1>7 DEF vars, IInv, TypeOK, InodesDistinct, UniqueIds, Ids, DirInv,
              PathsUnique, TreeConnected, ConfigInv, ConfigsHoused, NamesUnique,
              CurrentIsLatest, FirstVersionStamp, NoOrphans, DirectoryExists,
              DirPaths
<1> QED BY <1>1, <1>2, <1>3, <1>4, <1>5, <1>6, <1>7 DEF Next

\* The invariant holds in every reachable state.
THEOREM StoreInvariant == Spec => []IInv
<1> QED BY InitIInv, NextIInv, PTL DEF Spec

\* The rows stay in their schema and the inode counter under its bound.
THEOREM StoreTypes == Spec => []TypeOK
<1>1. IInv => TypeOK
  BY DEF IInv
<1> QED BY <1>1, StoreInvariant, PTL

\* No two objects share an id.
THEOREM StoreIds == Spec => []InodesDistinct
<1>1. IInv => InodesDistinct
  BY DEF IInv
<1> QED BY <1>1, StoreInvariant, PTL

\* A path has one row, although no index says so.
THEOREM StorePaths == Spec => []PathsUnique
<1>1. IInv => PathsUnique
  BY DEF IInv, DirInv
<1> QED BY <1>1, StoreInvariant, PTL

\* The directories form one tree, seen by path and seen by parent_id alike.
THEOREM StoreTree == Spec => []TreeConnected
<1>1. IInv => TreeConnected
  BY DEF IInv, DirInv
<1> QED BY <1>1, StoreInvariant, PTL

\* No config outlives its directory.
THEOREM StoreConfigs == Spec => []ConfigsHoused
<1>1. IInv => ConfigsHoused
  BY DEF IInv, ConfigInv
<1> QED BY <1>1, StoreInvariant, PTL

\* A path and name designate one config.
THEOREM StoreNames == Spec => []NamesUnique
<1>1. IInv => NamesUnique
  BY DEF IInv, ConfigInv
<1> QED BY <1>1, StoreInvariant, PTL

\* current_content_id names the last version.
THEOREM StoreVersions == Spec => []CurrentIsLatest
<1>1. IInv => CurrentIsLatest
  BY DEF IInv, ConfigInv
<1> QED BY <1>1, StoreInvariant, PTL

\* The first version dates the config.
THEOREM StoreFirstVersions == Spec => []FirstVersionStamp
<1>1. IInv => FirstVersionStamp
  BY DEF IInv, ConfigInv
<1> QED BY <1>1, StoreInvariant, PTL

\* Deletes leave no rows behind.
THEOREM StoreNoOrphans == Spec => []NoOrphans
<1>1. IInv => NoOrphans
  BY DEF IInv
<1> QED BY <1>1, StoreInvariant, PTL

\* A transaction writes no version that is there, and takes it away with its
\* config only.
LEMMA NextVersionStep == IInv /\ [Next]_vars => [VersionStep]_vars
<1> SUFFICES ASSUME IInv, Next PROVE VersionStep
  OBVIOUS
<1>1. ASSUME UNCHANGED contents PROVE VersionStep
  BY <1>1 DEF VersionStep
<1>2. inode \in Nat /\ \A w \in contents : w.config \in Ids(configs)
  BY DEF IInv, TypeOK, NoOrphans
<1>3. ASSUME NEW id, Delete(id) PROVE VersionStep
  BY <1>3 DEF Delete, VersionStep, Ids
<1>4. ASSUME NEW path \in ConfigPath, NEW name \in FileName, NEW blob \in Blob,
             NEW acls \in AclList, NEW now \in Clock,
             Insert(path, name, blob, acls, now)
      PROVE  VersionStep
  BY <1>2, <1>4 DEF Insert, VersionStep
<1>5. ASSUME NEW c \in configs, NEW content \in Blob \cup {NoContent},
             NEW acls \in AclList, NEW now \in Clock,
             Update(c.id, c.path, c.name, content, acls, now)
      PROVE  VersionStep
  BY <1>2, <1>5 DEF Update, SameVersion, NewVersion, VersionStep
<1>6. ASSUME NEW full \in Path, NEW acls \in AclList, CreateDirectory(full, acls)
      PROVE  VersionStep
  BY <1>1, <1>6 DEF CreateDirectory
<1>7. ASSUME NEW id \in Ids(dirs), NEW acls \in AclList, UpdateDirectory(id, acls)
      PROVE  VersionStep
  BY <1>1, <1>7 DEF UpdateDirectory
<1>8. ASSUME NEW id \in Ids(dirs), DeleteDirectory(id) PROVE VersionStep
  BY <1>1, <1>8 DEF DeleteDirectory
<1> QED BY <1>3, <1>4, <1>5, <1>6, <1>7, <1>8 DEF Next

\* Versions never change and go only with their config.
THEOREM StoreHistory == Spec => VersionsImmutable
  BY NextVersionStep, StoreInvariant, PTL DEF Spec, VersionsImmutable

\* What a transaction leaves under an id was there before or has a new id.
LEMMA NextIdStep == IInv /\ [Next]_vars => [IdStep]_vars
<1> SUFFICES ASSUME IInv, Next PROVE IdStep
  OBVIOUS
<1> DEFINE Kept(c) == \E b \in configs : /\ b.id = c.id /\ b.created = c.created
                                         /\ b.path = c.path /\ b.name = c.name
<1>1. inode \in Nat /\ \A c \in configs : Kept(c)
  BY DEF IInv, TypeOK
<1>2. ASSUME NEW id, Delete(id) PROVE IdStep
  BY <1>1, <1>2 DEF Delete, IdStep
<1>3. ASSUME NEW path \in ConfigPath, NEW name \in FileName, NEW blob \in Blob,
             NEW acls \in AclList, NEW now \in Clock,
             Insert(path, name, blob, acls, now)
      PROVE  IdStep
  BY <1>1, <1>3 DEF Insert, IdStep
<1>4. ASSUME NEW c \in configs, NEW content \in Blob \cup {NoContent},
             NEW acls \in AclList, NEW now \in Clock,
             Update(c.id, c.path, c.name, content, acls, now)
      PROVE  IdStep
  <2>1. PICK b \in configs :
           IF content = NoContent THEN SameVersion(b, now)
                                  ELSE NewVersion(b, content, now)
    BY <1>4 DEF Update
  <2>2. b \in ConfigRow
    BY DEF IInv, TypeOK
  <2>3. PICK d \in ConfigRow :
           /\ configs' = (configs \ {b}) \cup {d}
           /\ d.id = b.id /\ d.path = b.path /\ d.name = b.name
           /\ d.created = b.created
    BY <1>1, <2>1, <2>2, UpdatedRow
  <2>4. inode' >= inode /\ UNCHANGED dirs
    BY <1>1, <1>4, <2>1 DEF Update, SameVersion, NewVersion
  <2> QED BY <1>1, <2>3, <2>4 DEF IdStep
<1>5. ASSUME NEW full \in Path, NEW acls \in AclList, CreateDirectory(full, acls)
      PROVE  IdStep
  <2>1. PICK number \in Numberings(Missing(full)) :
           dirs' = dirs \cup
             {[id |-> number[p], full |-> p, parent |-> ParentId(p, number)] :
                 p \in Missing(full)}
    BY <1>5 DEF CreateDirectory
  <2>2. \A p \in Missing(full) : number[p] > inode
    BY <1>1, MissingFinite, NumberingFacts
  <2>3. \A d \in dirs' : d.id > inode \/ d \in dirs
    BY <2>1, <2>2
  <2>4. inode' >= inode /\ UNCHANGED configs
    BY <1>1, <1>5, MissingFinite DEF CreateDirectory
  <2> QED BY <1>1, <2>3, <2>4 DEF IdStep
<1>6. ASSUME NEW id \in Ids(dirs), NEW acls \in AclList, UpdateDirectory(id, acls)
      PROVE  IdStep
  BY <1>1, <1>6 DEF UpdateDirectory, IdStep
<1>7. ASSUME NEW id \in Ids(dirs), DeleteDirectory(id) PROVE IdStep
  BY <1>1, <1>7 DEF DeleteDirectory, IdStep
<1> QED BY <1>2, <1>3, <1>4, <1>5, <1>6, <1>7 DEF Next

\* An id means one object for ever: what is under it keeps its place and age.
THEOREM StoreIdentity == Spec => IdsNeverReused
  BY NextIdStep, StoreInvariant, PTL DEF Spec, IdsNeverReused

-----------------------------------------------------------------------------
(* Two ways to decide readability *)

\* Some row at p grants READ.
Grants(rows, acls, tags, p) ==
    \E d \in rows : d.full = p /\ DirAllows(AclsOf(acls, d.id), tags, "READ")

\* The walk of readableDirectories, which decides a directory by its parent's
\* result, finds the paths all of whose components grant READ.
LEMMA ReadableIsChain ==
    ASSUME NEW rows, NEW acls, NEW tags, \A d \in rows : d.full \in Path
    PROVE  readableDirectories(rows, acls, tags) =
              {p \in {Root} \cup {d.full : d \in rows} :
                  \A q \in Components(p) : Grants(rows, acls, tags, q)}
<1> DEFINE paths == {Root} \cup {d.full : d \in rows}
           G(p) == Grants(rows, acls, tags, p)
           Body(f) == [p \in paths |-> \/ p = Root
                                       \/ /\ Parent(p) \in paths
                                          /\ f[Parent(p)]
                                          /\ G(p)]
           f == CHOOSE f : f = Body(f)
           g == [p \in paths |-> \A q \in Components(p) : G(q)]
<1>1. readableDirectories(rows, acls, tags) = {p \in paths : f[p]}
  BY DEF readableDirectories, Grants
<1>2. \A p \in paths : p = Root \/ p \in Path
  OBVIOUS
<1>3. \A p : G(p) => p \in paths
  BY DEF Grants
<1>4. Root \in paths /\ Components(Root) = {}
  BY EmptySeq DEF Components, Root
<1> HIDE DEF paths, G
<1>5. ASSUME NEW p \in paths, p # Root
      PROVE  g[p] <=> /\ Parent(p) \in paths
                      /\ g[Parent(p)]
                      /\ G(p)
  <2>1. p \in Path
    BY <1>2, <1>5
  <2>2. Components(p) = Components(Parent(p)) \cup {p}
    BY <2>1, ParentPath
  <2>3. g[p] <=> \A q \in Components(p) : G(q)
    OBVIOUS
  <2>4. Parent(p) \in paths => (g[Parent(p)] <=> \A q \in Components(Parent(p)) : G(q))
    OBVIOUS
  <2>5. Parent(p) = Root \/ Parent(p) \in Components(Parent(p))
    BY <2>1, ParentPath, ComponentFacts
  <2>6. (\A q \in Components(Parent(p)) : G(q)) => Parent(p) \in paths
    BY <1>3, <1>4, <2>5
  <2> HIDE DEF g
  <2> QED BY <2>2, <2>3, <2>4, <2>6
<1>6. g = Body(g)
  <2>1. ASSUME NEW p \in paths
        PROVE  g[p] = (\/ p = Root
                       \/ /\ Parent(p) \in paths
                          /\ g[Parent(p)]
                          /\ G(p))
    <3>1. CASE p = Root
      BY <1>4, <3>1
    <3>2. CASE p # Root
      BY <1>5, <3>2
    <3> QED BY <3>1, <3>2
  <2>2. g = [p \in paths |-> g[p]]
    OBVIOUS
  <2> HIDE DEF g
  <2> QED BY <2>1, <2>2
<1>7. f = Body(f)
  <2> HIDE DEF g, Body
  <2> QED BY <1>6
<1>8. \A p \in paths : f[p] <=> g[p]
  <2> HIDE DEF f
  <2>1. ASSUME NEW p \in paths
        PROVE  f[p] <=> \/ p = Root
                        \/ /\ Parent(p) \in paths
                           /\ f[Parent(p)]
                           /\ G(p)
    BY <1>7
  <2>2. g[Root]
    BY <1>4
  <2> HIDE DEF Body, g
  <2> DEFINE Wrong == {p \in paths : ~ (f[p] <=> g[p])}
             T == {Len(p) : p \in Wrong}
  <2> SUFFICES ASSUME Wrong # {} PROVE FALSE
    OBVIOUS
  <2>3. T \in SUBSET Nat /\ T # {}
    <3>1. \A p \in paths : Len(p) \in Nat
      BY <1>2, ComponentFacts, EmptySeq DEF Root
    <3> QED BY <3>1
  <2>4. PICK n \in T : \A m \in T : ~ (m < n)
    <3> HIDE DEF T
    <3> QED BY <2>3, NatMin
  <2>5. PICK p \in Wrong : \A q \in Wrong : ~ (Len(q) < Len(p))
    BY <2>4
  <2>6. p # Root
    BY <2>1, <2>2, <2>5
  <2>7. p \in Path /\ Len(Parent(p)) < Len(p)
    BY <1>2, <2>6, ParentPath
  <2>8. Parent(p) \in paths => (f[Parent(p)] <=> g[Parent(p)])
    BY <2>5, <2>7
  <2> QED BY <1>5, <2>1, <2>6, <2>8
<1> HIDE DEF f
<1>9. \A p \in paths : f[p] <=> \A q \in Components(p) : G(q)
  BY <1>8
<1> QED BY <1>1, <1>9 DEF paths, G

\* The row of every component of the path of a directory is there.
LEMMA TreeClosed ==
    ASSUME TypeOK, DirInv, NEW d \in dirs
    PROVE  Components(d.full) \subseteq DirPaths
<1> DEFINE Wrong == {e \in dirs : ~ (Components(e.full) \subseteq DirPaths)}
           T == {Len(e.full) : e \in Wrong}
<1>1. \A e \in dirs : e.full \in Path /\ Len(e.full) \in Nat
  BY ComponentFacts DEF TypeOK, DirRow
<1> SUFFICES ASSUME Wrong # {} PROVE FALSE
  OBVIOUS
<1>2. T \in SUBSET Nat /\ T # {}
  BY <1>1
<1>3. PICK n \in T : \A m \in T : ~ (m < n)
  <2> HIDE DEF T
  <2> QED BY <1>2, NatMin
<1>4. PICK e \in Wrong : \A x \in Wrong : ~ (Len(x.full) < Len(e.full))
  BY <1>3
<1>5. e \in dirs /\ e.full \in Path /\ e.full \in DirPaths
  BY <1>1 DEF DirPaths
<1>6. /\ Components(e.full) = Components(Parent(e.full)) \cup {e.full}
      /\ Components(Root) = {}
      /\ Len(Parent(e.full)) < Len(e.full)
      /\ Parent(e.full) \in Path \cup {Root}
  BY <1>5, ParentPath
<1>7. CASE Parent(e.full) = Root
  BY <1>5, <1>6, <1>7
<1>8. CASE Parent(e.full) # Root
  <2>1. Len(e.full) # 1
    <3> SUFFICES ASSUME Len(e.full) = 1 PROVE FALSE
      OBVIOUS
    <3>1. Len(Parent(e.full)) \in Nat \ {0}
      BY <1>6, <1>8, ComponentFacts
    <3> QED BY <1>6, <3>1
  <2>2. PICK x \in dirs : x.full = Parent(e.full)
    BY <1>5, <2>1 DEF DirInv, TreeConnected
  <2>3. Components(x.full) \subseteq DirPaths
    BY <1>4, <1>6, <2>2
  <2> QED BY <1>5, <1>6, <2>2, <2>3
<1> QED BY <1>6, <1>7, <1>8

\* The walk over all directories and the lookup of one chain agree on a path.
LEMMA ReadableIsPathReadable ==
    ASSUME TypeOK, DirInv, NEW tags, NEW path \in ConfigPath
    PROVE  rootNormalised(path) \in readableDirectories(dirs, dirAcl, tags)
              <=> pathReadable(path, tags)
<1> DEFINE p == rootNormalised(path)
           G(q) == Grants(dirs, dirAcl, tags, q)
<1>1. \A d \in dirs : d.full \in Path
  BY DEF TypeOK, DirRow
<1>2. p \in readableDirectories(dirs, dirAcl, tags)
         <=> p \in {Root} \cup DirPaths /\ \A q \in Components(p) : G(q)
  BY <1>1, ReadableIsChain DEF DirPaths
<1>3. Components(Root) = {}
  BY EmptySeq DEF Components, Root
<1>4. CASE path \in {Root, EmptyPath}
  <2>1. p = Root
    BY <1>4 DEF rootNormalised
  <2>2. pathReadable(path, tags)
    BY <1>4 DEF pathReadable, DirectoryExists, DirectoryChain
  <2> QED BY <1>2, <1>3, <2>1, <2>2
<1>5. CASE path \notin {Root, EmptyPath}
  <2>1. p = path /\ path \in Path /\ path # Root
    BY <1>5 DEF rootNormalised, ConfigPath
  <2>2. DirectoryChain(path) = {d \in dirs : d.full \in Components(path)}
    BY <1>5 DEF DirectoryChain
  <2>3. DirectoryExists(path) <=> path \in DirPaths
    BY <1>5 DEF DirectoryExists
  <2>4. ASSUME path \in DirPaths
        PROVE  (\A q \in Components(path) : G(q)) <=>
                  \A d \in DirectoryChain(path) :
                     DirAllows(AclsOf(dirAcl, d.id), tags, "READ")
    <3>1. Components(path) \subseteq DirPaths
      BY <2>4, TreeClosed DEF DirPaths
    <3>2. \A q \in Components(path) : \E d \in dirs : d.full = q
      BY <3>1 DEF DirPaths
    <3>3. \A d, e \in dirs : d.full = e.full => d = e
      BY DEF DirInv, PathsUnique
    <3> QED BY <2>2, <3>2, <3>3 DEF Grants
  <2> QED BY <1>2, <2>1, <2>3, <2>4 DEF pathReadable
<1> QED BY <1>4, <1>5

\* List and GetConfig agree on who may read which config.
LEMMA ListAgrees == IInv => ListAgreesWithGet
<1> SUFFICES ASSUME IInv, NEW tags \in SUBSET Tag, NEW c \in configs
             PROVE  c \in TreeConfigs(tags) <=>
                       /\ ConfigAllows(AclsOf(configAcl, c.id), tags, "READ")
                       /\ pathReadable(c.path, tags)
  BY DEF ListAgreesWithGet
<1>1. c.path \in ConfigPath
  BY DEF IInv, TypeOK, ConfigRow
<1>2. rootNormalised(c.path) \in readableDirectories(dirs, dirAcl, tags)
         <=> pathReadable(c.path, tags)
  BY <1>1, ReadableIsPathReadable DEF IInv
<1> QED BY <1>2 DEF TreeConfigs, AllowedConfigs

\* In every reachable state List shows a caller the configs GetConfig gives it.
THEOREM StoreListing == Spec => []ListAgreesWithGet
  BY ListAgrees, StoreInvariant, PTL

-----------------------------------------------------------------------------
(* What a transaction changes *)

\* Sets of at most one element.
LEMMA AtMostOne ==
    ASSUME NEW S, NEW x, S \subseteq {x}
    PROVE  Cardinality(S) \in {0, 1} /\ Cardinality({}) = 0
<1>1. IsFiniteSet({x}) /\ Cardinality({x}) = 1 /\ Cardinality({}) = 0
  BY FS_Singleton, FS_EmptySet
<1>2. S = {} \/ S = {x}
  OBVIOUS
<1> QED BY <1>1, <1>2

\* What a transaction does not go for stays as it is: row, ACLs and versions.
DirsStay == \A n \in Ids(dirs) : DirState(n)' = DirState(n)
ConfigsStay == \A n \in Ids(configs) : ConfigState(n)' = ConfigState(n)
DirsStayBut(id) == \A n \in Ids(dirs) : n # id => DirState(n)' = DirState(n)
ConfigsStayBut(id) == \A n \in Ids(configs) : n # id => ConfigState(n)' = ConfigState(n)

LEMMA TablesStay ==
    /\ UNCHANGED <<dirs, dirAcl>> => DirsStay
    /\ UNCHANGED <<configs, configAcl, contents>> => ConfigsStay
  BY DEF DirsStay, ConfigsStay, DirState, ConfigState, AclsOf

\* What is in the tables has been numbered.
LEMMA Numbered ==
    ASSUME IInv
    PROVE  /\ inode \in Nat
           /\ \A id \in Ids(dirs) : id \in 1 .. inode
           /\ \A id \in Ids(configs) : id \in 1 .. inode
           /\ \A d \in dirs : d.id \in 1 .. inode
<1>1. /\ inode \in Nat
      /\ \A d \in dirs : d.id \in 1 .. inode
      /\ \A c \in configs : c.id \in 1 .. inode
  BY IdFacts
<1> QED BY <1>1 DEF Ids

LEMMA CreateDirectoryFrame ==
    ASSUME IInv, NEW full \in Path, NEW acls, CreateDirectory(full, acls)
    PROVE  DirsStay /\ ConfigsStay
<1>1. PICK number \in Numberings(Missing(full)) :
         /\ dirs' = dirs \cup
              {[id |-> number[p], full |-> p, parent |-> ParentId(p, number)] :
                  p \in Missing(full)}
         /\ dirAcl' = dirAcl \cup UNION {AclRows(number[p], acls) : p \in Missing(full)}
  BY DEF CreateDirectory
<1>2. inode \in Nat /\ \A id \in Ids(dirs) : id \in 1 .. inode
  BY Numbered
<1>3. \A p \in Missing(full) : number[p] > inode
  BY <1>2, MissingFinite, NumberingFacts
<1>4. \A d \in dirs' : d \in dirs \/ d.id > inode
  BY <1>1, <1>3
<1>5. \A r \in dirAcl' : r \in dirAcl \/ r.owner > inode
  BY <1>1, <1>3 DEF AclRows
<1>6. ASSUME NEW id \in Ids(dirs)
      PROVE  DirState(id)' = DirState(id)
  <2>1. {d \in dirs' : d.id = id} = {d \in dirs : d.id = id}
    BY <1>1, <1>2, <1>4
  <2>2. {r \in dirAcl' : r.owner = id} = {r \in dirAcl : r.owner = id}
    BY <1>1, <1>2, <1>5
  <2> QED BY <2>1, <2>2 DEF DirState, AclsOf
<1>7. ConfigsStay
  BY TablesStay DEF CreateDirectory
<1> QED BY <1>6, <1>7 DEF DirsStay

LEMMA UpdateDirectoryFrame ==
    ASSUME NEW id, NEW acls, UpdateDirectory(id, acls)
    PROVE  DirsStayBut(id) /\ ConfigsStay
<1>1. ConfigsStay /\ dirs' = dirs
  BY TablesStay DEF UpdateDirectory
<1>2. ASSUME NEW n \in Ids(dirs), n # id PROVE DirState(n)' = DirState(n)
  <2>1. {r \in dirAcl' : r.owner = n} = {r \in dirAcl : r.owner = n}
    BY <1>2 DEF UpdateDirectory, ReplaceAcls, Disown, AclRows
  <2> QED BY <1>1, <2>1 DEF DirState, AclsOf
<1> QED BY <1>1, <1>2 DEF DirsStayBut

LEMMA DeleteDirectoryFrame ==
    ASSUME NEW id, DeleteDirectory(id)
    PROVE  DirsStayBut(id) /\ ConfigsStay
<1>1. ConfigsStay
  BY TablesStay DEF DeleteDirectory
<1>2. PICK d \in dirs : d.id = id /\ dirs' = dirs \ {d}
  BY DEF DeleteDirectory
<1>3. ASSUME NEW n \in Ids(dirs), n # id PROVE DirState(n)' = DirState(n)
  <2>1. {r \in dirAcl' : r.owner = n} = {r \in dirAcl : r.owner = n}
    BY <1>3 DEF DeleteDirectory, Disown
  <2>2. {e \in dirs' : e.id = n} = {e \in dirs : e.id = n}
    BY <1>2, <1>3
  <2> QED BY <2>1, <2>2 DEF DirState, AclsOf
<1> QED BY <1>1, <1>3 DEF DirsStayBut

LEMMA InsertFrame ==
    ASSUME IInv, NEW path, NEW name, NEW blob, NEW acls, NEW now,
           Insert(path, name, blob, acls, now)
    PROVE  DirsStay /\ ConfigsStay
<1>1. DirsStay
  BY TablesStay DEF Insert
<1>2. ASSUME NEW id \in Ids(configs)
      PROVE  ConfigState(id)' = ConfigState(id)
  <2>1. id # inode + 1
    BY Numbered
  <2>2. {c \in configs' : c.id = id} = {c \in configs : c.id = id}
    BY <2>1 DEF Insert
  <2>3. {r \in configAcl' : r.owner = id} = {r \in configAcl : r.owner = id}
    BY <2>1 DEF Insert, AclRows
  <2>4. {v \in contents' : v.config = id} = {v \in contents : v.config = id}
    BY <2>1 DEF Insert
  <2> QED BY <2>2, <2>3, <2>4 DEF ConfigState, AclsOf
<1> QED BY <1>1, <1>2 DEF ConfigsStay

LEMMA UpdateFrame ==
    ASSUME IInv, NEW id, NEW path, NEW name, NEW content, NEW acls, NEW now \in Clock,
           Update(id, path, name, content, acls, now)
    PROVE  DirsStay /\ ConfigsStayBut(id) /\ Ids(configs') = Ids(configs)
<1>1. DirsStay
  BY TablesStay DEF Update
<1>2. PICK b \in configs : /\ b.id = id
                           /\ IF content = NoContent THEN SameVersion(b, now)
                              ELSE NewVersion(b, content, now)
  BY DEF Update
<1>3. inode \in Nat /\ b \in ConfigRow
  BY DEF IInv, TypeOK
<1>4. PICK d \in ConfigRow :
         /\ configs' = (configs \ {b}) \cup {d} /\ d.id = b.id
         /\ IF content = NoContent
            THEN UNCHANGED <<inode, contents>>
            ELSE contents' = contents \cup
                   {[id |-> inode + 1, config |-> b.id, blob |-> content,
                     created |-> now]}
  BY <1>2, <1>3, UpdatedRow
<1>5. ASSUME NEW n, n # id
      PROVE  {v \in contents' : v.config = n} = {v \in contents : v.config = n}
  <2>1. CASE content = NoContent
    BY <1>4, <2>1
  <2>2. CASE content # NoContent
    <3> DEFINE v == [id |-> inode + 1, config |-> b.id, blob |-> content,
                     created |-> now]
    <3>1. v.config = id /\ contents' = contents \cup {v}
      BY <1>2, <1>4, <2>2
    <3> HIDE DEF v
    <3> QED BY <1>5, <3>1
  <2> QED BY <2>1, <2>2
<1>6. ASSUME NEW n \in Ids(configs), n # id PROVE ConfigState(n)' = ConfigState(n)
  <2>1. {e \in configs' : e.id = n} = {e \in configs : e.id = n}
    BY <1>2, <1>4, <1>6
  <2>2. {r \in configAcl' : r.owner = n} = {r \in configAcl : r.owner = n}
    BY <1>6 DEF Update, ReplaceAcls, Disown, AclRows
  <2> QED BY <1>5, <1>6, <2>1, <2>2 DEF ConfigState, AclsOf
<1>7. Ids(configs') = Ids(configs)
  BY <1>2, <1>4 DEF Ids
<1> QED BY <1>1, <1>6, <1>7 DEF ConfigsStayBut

LEMMA DeleteFrame ==
    ASSUME NEW id, Delete(id)
    PROVE  DirsStay /\ ConfigsStayBut(id) /\ Ids(configs') \subseteq Ids(configs)
<1>1. DirsStay
  BY TablesStay DEF Delete
<1>2. ASSUME NEW n \in Ids(configs), n # id PROVE ConfigState(n)' = ConfigState(n)
  <2>1. {e \in configs' : e.id = n} = {e \in configs : e.id = n}
    BY <1>2 DEF Delete
  <2>2. {r \in configAcl' : r.owner = n} = {r \in configAcl : r.owner = n}
    BY <1>2 DEF Delete, Disown
  <2>3. {v \in contents' : v.config = n} = {v \in contents : v.config = n}
    BY <1>2 DEF Delete
  <2> QED BY <2>1, <2>2, <2>3 DEF ConfigState, AclsOf
<1>3. Ids(configs') \subseteq Ids(configs)
  BY DEF Delete, Ids
<1> QED BY <1>1, <1>2, <1>3 DEF ConfigsStayBut

\* A transaction changes one object that was there, or none.
LEMMA NextTargetStep == IInv /\ [Next]_vars => [TargetStep]_vars
<1> SUFFICES ASSUME IInv, Next PROVE TargetStep
  OBVIOUS
<1> DEFINE DirsChanged == {id \in Ids(dirs) : DirState(id)' # DirState(id)}
           ConfigsChanged == {id \in Ids(configs) : ConfigState(id)' # ConfigState(id)}
<1>1. TargetStep <=> Cardinality(DirsChanged) + Cardinality(ConfigsChanged)
                        <= IF /\ Ids(dirs)' \subseteq Ids(dirs)
                              /\ Ids(configs)' \subseteq Ids(configs) THEN 1 ELSE 0
  BY DEF TargetStep
<1>2. /\ DirsStay => DirsChanged = {}
      /\ ConfigsStay => ConfigsChanged = {}
      /\ \A id : DirsStayBut(id) => DirsChanged \subseteq {id}
      /\ \A id : ConfigsStayBut(id) => ConfigsChanged \subseteq {id}
  BY DEF DirsStay, ConfigsStay, DirsStayBut, ConfigsStayBut
<1> HIDE DEF DirsChanged, ConfigsChanged
<1>3. ASSUME DirsStay, ConfigsStay PROVE TargetStep
  <2>1. Cardinality({}) = 0
    BY FS_EmptySet
  <2> QED BY <1>1, <1>2, <1>3, <2>1
<1>4. ASSUME NEW x, \/ DirsStayBut(x) /\ ConfigsStay
                    \/ DirsStay /\ ConfigsStayBut(x),
             Ids(dirs') \subseteq Ids(dirs), Ids(configs') \subseteq Ids(configs)
      PROVE  TargetStep
  <2>1. /\ Cardinality(DirsChanged) \in {0, 1} /\ Cardinality(ConfigsChanged) \in {0, 1}
        /\ Cardinality(DirsChanged) = 0 \/ Cardinality(ConfigsChanged) = 0
    BY <1>2, <1>4, AtMostOne
  <2>2. Ids(dirs)' \subseteq Ids(dirs) /\ Ids(configs)' \subseteq Ids(configs)
    BY <1>4 DEF Ids
  <2> QED BY <1>1, <2>1, <2>2
<1>5. CASE \E full \in Path, acls \in AclList : CreateDirectory(full, acls)
  BY <1>3, <1>5, CreateDirectoryFrame
<1>6. CASE \E id \in Ids(dirs), acls \in AclList : UpdateDirectory(id, acls)
  <2>1. PICK id, acls : UpdateDirectory(id, acls)
    BY <1>6
  <2>2. configs' = configs /\ dirs' = dirs
    BY <2>1 DEF UpdateDirectory
  <2>3. DirsStayBut(id) /\ ConfigsStay
    BY <2>1, UpdateDirectoryFrame
  <2> QED BY <1>4, <2>2, <2>3
<1>7. CASE \E id \in Ids(dirs) : DeleteDirectory(id)
  <2>1. PICK id : DeleteDirectory(id)
    BY <1>7
  <2>2. Ids(configs') \subseteq Ids(configs) /\ Ids(dirs') \subseteq Ids(dirs)
    BY <2>1 DEF DeleteDirectory, Ids
  <2>3. DirsStayBut(id) /\ ConfigsStay
    BY <2>1, DeleteDirectoryFrame
  <2> QED BY <1>4, <2>2, <2>3
<1>8. CASE \E path \in ConfigPath, name \in FileName, blob \in Blob,
              acls \in AclList, now \in Clock : Insert(path, name, blob, acls, now)
  BY <1>3, <1>8, InsertFrame
<1>9. CASE \E c \in configs, content \in Blob \cup {NoContent},
              acls \in AclList, now \in Clock :
              Update(c.id, c.path, c.name, content, acls, now)
  <2>1. PICK c \in configs, content \in Blob \cup {NoContent},
             acls \in AclList, now \in Clock :
             Update(c.id, c.path, c.name, content, acls, now)
    BY <1>9
  <2>2. DirsStay /\ ConfigsStayBut(c.id) /\ Ids(configs') = Ids(configs)
    BY <2>1, UpdateFrame
  <2>3. dirs' = dirs
    BY <2>1 DEF Update
  <2> QED BY <1>4, <2>2, <2>3
<1>10. CASE \E id \in Ids(configs) : Delete(id)
  <2>1. PICK id : Delete(id)
    BY <1>10
  <2>2. dirs' = dirs
    BY <2>1 DEF Delete
  <2>3. DirsStay /\ ConfigsStayBut(id) /\ Ids(configs') \subseteq Ids(configs)
    BY <2>1, DeleteFrame
  <2> QED BY <1>4, <2>2, <2>3
<1> QED BY <1>5, <1>6, <1>7, <1>8, <1>9, <1>10 DEF Next

\* A call that creates a directory or a config touches no object that was there,
\* any other call at most one.
THEOREM StoreOneTarget == Spec => OneTarget
  BY NextTargetStep, StoreInvariant, PTL DEF Spec, OneTarget

=============================================================================
