---------------------------- MODULE PulumiProofs ----------------------------
(***************************************************************************)
(* Proofs about Pulumi, for every set of programs and any number of edits, *)
(* changes by others and lost calls.                                       *)
(*                                                                         *)
(* What is under an id never moves, so a resource that is changed and not  *)
(* replaced stays where its arguments say.  The two resources share no     *)
(* table, so a call for one leaves the other as it is.                     *)
(***************************************************************************)
EXTENDS Pulumi, StoreProofs

Deployment == [id: Nat, args: Arguments]

\* The server takes "" for the root of a directory, and keeps the spelling of a
\* config's path.
Place(r, path) == IF r = "dir" THEN rootNormalised(path) ELSE path

\* What is under the id of a resource with state s, if anything, is where its
\* arguments say.
DirectoryHere(s) ==
    \A d \in dirs : d.id = s.id =>
        d.full[Len(d.full)] = s.args.name /\ Parent(d.full) = rootNormalised(s.args.path)
ConfigHere(s) ==
    \A c \in configs : c.id = s.id => c.name = s.args.name /\ c.path = s.args.path
Here(r, s) == /\ s.id \in 1 .. inode
              /\ IF r = "dir" THEN DirectoryHere(s) ELSE ConfigHere(s)

\* It is there, with the contents and the grants of its arguments.
DirectoryCurrent(s) ==
    /\ s.id \in Ids(dirs)
    /\ s.args.data = <<>>
    /\ AclsOf(dirAcl, s.id) = aclsToProto(s.args.acls)
ConfigCurrent(s) ==
    /\ \E c \in configs, v \in contents :
          c.id = s.id /\ v.id = c.current /\ v.blob.data = s.args.data
    /\ AclsOf(configAcl, s.id) = aclsToProto(s.args.acls)
Current(r, s) == IF r = "dir" THEN DirectoryCurrent(s) ELSE ConfigCurrent(s)

\* Everyone sends the sizes of what they send.
Sized == \A v \in contents : v.blob.size = Len(v.blob.data)

PulumiInv ==
    /\ IInv
    /\ Sized
    /\ program \in Programs
    /\ command \in {"none", "refresh", "up"}
    /\ command # "refresh" => unread = {}
    /\ state \in [Resource -> Deployment \cup {Absent}]
    /\ unread \subseteq {r \in Resource : Has(r)}
    /\ \A r \in Resource : Has(r) => Here(r, state[r])
    /\ \A r \in Resource : Has(r) /\ r \notin doubt => Current(r, state[r])

-----------------------------------------------------------------------------
(* Arguments and entries *)

\* Reading entries back as texts loses nothing.
LEMMA RoundTrip ==
  ASSUME NEW acls, acls \subseteq Entry, \A e \in acls : e.acl # "UNKNOWN"
  PROVE  aclsToProto(aclsFromProto(acls)) = acls
<1>1. ASSUME NEW e \in acls
      PROVE  [acl |-> aclLevel([text |-> e.acl, who |-> e.who].text), who |-> e.who] = e
  <2>1. e = [acl |-> e.acl, who |-> e.who] /\ e.acl \in {"READ", "WRITE"}
    BY DEF Entry, Level
  <2>2. aclLevel(e.acl) = e.acl
    BY <2>1 DEF aclLevel
  <2> QED
    BY <2>1, <2>2
<1> DEFINE AsText(e) == [text |-> e.acl, who |-> e.who]
           AsEntry(x) == [acl |-> aclLevel(x.text), who |-> x.who]
<1>2. \A e \in acls : AsEntry(AsText(e)) = e
  BY <1>1
<1>3. aclsFromProto(acls) = {AsText(e) : e \in acls}
  BY DEF aclsFromProto
<1>4. aclsToProto(aclsFromProto(acls)) = {AsEntry(x) : x \in aclsFromProto(acls)}
  BY DEF aclsToProto
<1> HIDE DEF AsText, AsEntry
<1>5. ASSUME NEW e \in acls PROVE e \in {AsEntry(x) : x \in {AsText(f) : f \in acls}}
  BY <1>2
<1>6. ASSUME NEW y \in {AsEntry(x) : x \in {AsText(f) : f \in acls}} PROVE y \in acls
  BY <1>2
<1> QED
  BY <1>3, <1>4, <1>5, <1>6

\* The entries a program with valid levels asks for are all stored.
LEMMA ValidStored ==
  ASSUME NEW args \in Arguments, validateACLs(args.acls)
  PROVE  /\ aclsToProto(args.acls) \subseteq Entry
         /\ Storable(aclsToProto(args.acls)) = aclsToProto(args.acls)
<1>1. ASSUME NEW e \in args.acls
      PROVE  /\ [acl |-> aclLevel(e.text), who |-> e.who] \in Entry
             /\ aclLevel(e.text) \in {"READ", "WRITE"}
  <2>1. aclLevel(e.text) \in {"READ", "WRITE"}
    BY DEF validateACLs, aclLevel
  <2>2. e.who \in Tag \cup {Everyone, Nobody}
    BY DEF Arguments
  <2> QED
    BY <2>1, <2>2 DEF Entry, Level
<1> QED
  BY <1>1 DEF aclsToProto, Storable

\* Any list's grants are entries.
LEMMA FromTable ==
  ASSUME NEW table, table \subseteq AclRow, \A row \in table : row.entry.acl # "UNKNOWN",
         NEW id
  PROVE  /\ AclsOf(table, id) \subseteq Entry
         /\ aclsFromProto(AclsOf(table, id)) \in SUBSET [text: Text, who: Tag \cup {Everyone, Nobody}]
         /\ aclsToProto(aclsFromProto(AclsOf(table, id))) = AclsOf(table, id)
<1> DEFINE acls == AclsOf(table, id)
<1>1. acls \subseteq Entry /\ \A e \in acls : e.acl # "UNKNOWN"
  BY DEF AclsOf, AclRow
<1>2. aclsToProto(aclsFromProto(acls)) = acls
  <2> HIDE DEF acls
  <2> QED
    BY <1>1, RoundTrip
<1>3. \A e \in acls : e.acl \in {"READ", "WRITE"} /\ e.who \in Tag \cup {Everyone, Nobody}
  BY <1>1 DEF Entry, Level
<1>4. ASSUME NEW x \in aclsFromProto(acls)
      PROVE  x \in [text: Text, who: Tag \cup {Everyone, Nobody}]
  <2> HIDE DEF acls
  <2>1. PICK e \in acls : x = [text |-> e.acl, who |-> e.who]
    BY DEF aclsFromProto
  <2>2. e.acl \in Text
    BY <1>3, ProgramAssumption
  <2> QED
    BY <1>3, <2>1, <2>2
<1> QED
  BY <1>1, <1>2, <1>4

\* The two ways a table gets the rows of an owner.
LEMMA NewOwner ==
  ASSUME NEW table, NEW acls, NEW id, \A row \in table : row.owner # id
  PROVE  AclsOf(table \cup AclRows(id, acls), id) = Storable(acls)
<1> DEFINE rows == AclRows(id, acls)
<1>1. \A row \in rows : row.owner = id /\ row.entry \in Storable(acls)
  BY DEF AclRows
<1>2. ASSUME NEW e \in Storable(acls)
      PROVE  \E row \in rows : row.owner = id /\ row.entry = e
  <2>1. [owner |-> id, entry |-> e] \in rows
    BY DEF AclRows
  <2> QED
    BY <2>1
<1> HIDE DEF rows
<1>3. {r \in table \cup rows : r.owner = id} = rows
  BY <1>1
<1>4. {row.entry : row \in rows} = Storable(acls)
  BY <1>1, <1>2
<1> QED
  BY <1>3, <1>4 DEF AclsOf, rows

LEMMA Replaced ==
  ASSUME NEW table, NEW acls, NEW id
  PROVE  AclsOf(ReplaceAcls(table, id, acls), id) = Storable(acls)
<1>1. \A row \in Disown(table, id) : row.owner # id
  BY DEF Disown
<1> QED
  BY <1>1, NewOwner DEF ReplaceAcls

\* The last name and the parent of a full path.
LEMMA FullPathFacts ==
  ASSUME NEW p \in Path \cup {Root}, NEW n, Append(p, n) \in Path
  PROVE  /\ Append(p, n)[Len(Append(p, n))] = n
         /\ Parent(Append(p, n)) = p
<1>1. p \in Seq(Name) /\ Append(p, n) \in Seq(Name)
  <2>1. Root \in Seq(Name)
    BY DEF Root
  <2> QED
    BY <2>1, PathAssumption
<1>2. Len(Append(p, n)) = Len(p) + 1 /\ Len(p) \in Nat /\ Len(Append(p, n)) \in Nat
  <2>1. DOMAIN Append(p, n) = 1 .. Len(p) + 1
    BY <1>1
  <2> QED
    BY <1>1, <2>1, LenProperties
<1>3. Append(p, n)[Len(p) + 1] = n
  BY <1>1, <1>2
<1>4. \A i \in 1 .. Len(p) : Append(p, n)[i] = p[i]
  BY <1>1, <1>2
<1>5. Parent(Append(p, n)) = p
  <2>1. Parent(Append(p, n)) = SubSeq(Append(p, n), 1, Len(p))
    BY <1>2 DEF Parent
  <2>2. SubSeq(Append(p, n), 1, Len(p)) = [i \in 1 .. Len(p) |-> Append(p, n)[i]]
    BY <1>1, <1>2
  <2>3. p = [i \in 1 .. Len(p) |-> p[i]]
    BY <1>1
  <2> QED
    BY <1>4, <2>1, <2>2, <2>3
<1> QED
  BY <1>2, <1>3, <1>5

-----------------------------------------------------------------------------
(* What calls leave alone *)

\* A transaction of the store, in which sizes are right.
Tabled == [Next]_vars /\ Sized'

\* The tables of the other resource.
OtherKept(r) == IF r = "dir" THEN UNCHANGED <<configs, configAcl, contents>>
                             ELSE UNCHANGED <<dirs, dirAcl>>

LEMMA TableFacts ==
  ASSUME IInv, [Next]_vars
  PROVE  /\ IInv'
         /\ inode \in Nat /\ inode' \in Nat /\ inode' >= inode
         /\ \A c \in configs' : c.id > inode \/ \E b \in configs :
                b.id = c.id /\ b.path = c.path /\ b.name = c.name
         /\ \A d \in dirs' : d.id > inode \/ d \in dirs
<1>1. IInv'
  BY NextIInv
<1>2. inode \in Nat /\ inode' \in Nat
  BY <1>1 DEF IInv, TypeOK
<1>3. CASE UNCHANGED vars
  BY <1>1, <1>2, <1>3 DEF vars
<1>4. CASE ~ UNCHANGED vars
  <2>1. IdStep
    BY <1>4, NextIdStep
  <2> QED
    BY <1>1, <1>2, <2>1 DEF IdStep
<1> QED
  BY <1>3, <1>4

LEMMA HereStays ==
  ASSUME IInv, [Next]_vars, NEW r, NEW s, Here(r, s)
  PROVE  Here(r, s)'
<1>1. s.id \in 1 .. inode /\ s.id \in 1 .. inode'
  BY TableFacts DEF Here
<1>2. CASE r = "dir"
  <2>1. ASSUME NEW d \in dirs', d.id = s.id
        PROVE  d.full[Len(d.full)] = s.args.name /\ Parent(d.full) = rootNormalised(s.args.path)
    <3>1. ~ (d.id > inode)
      BY <1>1, <2>1, TableFacts
    <3>2. d \in dirs
      BY <3>1, TableFacts
    <3> QED
      BY <1>2, <2>1, <3>2 DEF Here, DirectoryHere
  <2> QED
    BY <1>1, <1>2, <2>1 DEF Here, DirectoryHere
<1>3. CASE r # "dir"
  <2>1. ASSUME NEW c \in configs', c.id = s.id
        PROVE  c.name = s.args.name /\ c.path = s.args.path
    <3>1. ~ (c.id > inode)
      BY <1>1, <2>1, TableFacts
    <3>2. PICK b \in configs : b.id = c.id /\ b.path = c.path /\ b.name = c.name
      BY <3>1, TableFacts
    <3> QED
      BY <1>3, <2>1, <3>2 DEF Here, ConfigHere
  <2> QED
    BY <1>1, <1>3, <2>1 DEF Here, ConfigHere
<1> QED
  BY <1>2, <1>3

LEMMA CurrentStays ==
  ASSUME NEW r \in Resource, NEW q \in Resource, q # r, OtherKept(q), NEW s, Current(r, s)
  PROVE  Current(r, s)'
<1>1. CASE r = "dir"
  <2>1. UNCHANGED <<dirs, dirAcl>>
    BY <1>1, ProgramAssumption DEF OtherKept
  <2> QED
    BY <1>1, <2>1 DEF Current, DirectoryCurrent, AclsOf, Ids
<1>2. CASE r = "file"
  <2>1. UNCHANGED <<configs, configAcl, contents>>
    BY <1>2, ProgramAssumption DEF OtherKept
  <2> QED
    BY <1>2, <2>1 DEF Current, ConfigCurrent, AclsOf
<1> QED
  BY <1>1, <1>2, ProgramAssumption

\* It stays current if nothing changes.
LEMMA CurrentSame ==
  ASSUME UNCHANGED vars, NEW r, NEW s, Current(r, s)
  PROVE  Current(r, s)'
BY DEF vars, Current, DirectoryCurrent, ConfigCurrent, AclsOf, Ids

-----------------------------------------------------------------------------
(* The ways a step may end *)

\* A call that went well: the state of its resource is what it has left there.
LEMMA RecordKeeps ==
  ASSUME PulumiInv, Tabled, NEW r \in Resource, OtherKept(r), NEW s, Record(r, s),
         UNCHANGED program,
         \/ s = Absent
         \/ s \in Deployment /\ Here(r, s)' /\ Current(r, s)'
  PROVE  PulumiInv'
<1>1. IInv' /\ Sized'
  BY TableFacts DEF PulumiInv, Tabled
<1>2. state' \in [Resource -> Deployment \cup {Absent}] /\ state' = [state EXCEPT ![r] = s]
  BY DEF PulumiInv, Record
<1>3. unread' \subseteq {q \in Resource : Has(q)'}
  BY <1>2 DEF PulumiInv, Record, Has
<1>4. ASSUME NEW q \in Resource, Has(q)' PROVE Here(q, state[q])'
  <2>1. CASE q = r
    <3>1. state'[q] = s /\ s # Absent
      BY <1>2, <1>4, <2>1 DEF PulumiInv, Has
    <3> QED
      BY <2>1, <3>1
  <2>2. CASE q # r
    <3>1. PICK u : u = state[q]
      OBVIOUS
    <3>2. state'[q] = u /\ u # Absent
      BY <1>2, <1>4, <2>2, <3>1 DEF PulumiInv, Has
    <3>3. Here(q, u)
      BY <3>1, <3>2 DEF PulumiInv, Has
    <3>4. Here(q, u)'
      BY <3>3, HereStays DEF PulumiInv, Tabled
    <3> QED
      BY <3>2, <3>4
  <2> QED
    BY <2>1, <2>2
<1>5. ASSUME NEW q \in Resource, Has(q)', q \notin doubt' PROVE Current(q, state[q])'
  <2>1. CASE q = r
    <3>1. state'[q] = s /\ s # Absent
      BY <1>2, <1>5, <2>1 DEF PulumiInv, Has
    <3> QED
      BY <2>1, <3>1
  <2>2. CASE q # r
    <3>1. PICK u : u = state[q]
      OBVIOUS
    <3>2. state'[q] = u /\ u # Absent /\ q \notin doubt
      BY <1>2, <1>5, <2>2, <3>1 DEF PulumiInv, Has, Record
    <3>3. Current(q, u)
      BY <3>1, <3>2 DEF PulumiInv, Has
    <3>4. Current(q, u)'
      BY <2>2, <3>3, CurrentStays
    <3> QED
      BY <3>2, <3>4
  <2> QED
    BY <2>1, <2>2
<1> QED
  BY <1>1, <1>2, <1>3, <1>4, <1>5 DEF PulumiInv, Record

\* A change the stack does not know of: by others, or by a call without a reply.
LEMMA DoubtKeeps ==
  ASSUME PulumiInv, Tabled, NEW r \in Resource, OtherKept(r), UNCHANGED <<program, state>>,
         doubt' = doubt \cup {r},
         \/ UNCHANGED <<command, unread>>
         \/ command' = "none" /\ unread' = {}
  PROVE  PulumiInv'
<1>1. IInv' /\ Sized'
  BY TableFacts DEF PulumiInv, Tabled
<1>2. ASSUME NEW q \in Resource, Has(q)
      PROVE  /\ Here(q, state[q])'
             /\ q \notin doubt' => Current(q, state[q])'
  <2>1. PICK u : u = state[q]
    OBVIOUS
  <2>2. Here(q, u)'
    BY <1>2, <2>1, HereStays DEF PulumiInv, Tabled
  <2>3. ASSUME q \notin doubt' PROVE Current(q, u)'
    <3>1. Current(q, u) /\ q # r
      BY <1>2, <2>1, <2>3 DEF PulumiInv
    <3> QED
      BY <3>1, CurrentStays
  <2> QED
    BY <2>1, <2>2, <2>3
<1> QED
  BY <1>1, <1>2 DEF PulumiInv, Has

\* No call, or one that has changed nothing.
LEMMA IdleKeeps ==
  ASSUME PulumiInv, UNCHANGED <<vars, state, doubt>>, program' \in Programs,
         command' \in {"none", "refresh", "up"},
         command' # "refresh" => unread' = {},
         unread' \subseteq {r \in Resource : Has(r)}
  PROVE  PulumiInv'
<1>1. IInv' /\ Sized'
  BY TableFacts DEF PulumiInv, vars, Sized
<1>2. ASSUME NEW q \in Resource, Has(q)
      PROVE  /\ Here(q, state[q])'
             /\ q \notin doubt => Current(q, state[q])'
  <2>1. PICK u : u = state[q]
    OBVIOUS
  <2>2. Here(q, u)'
    BY <1>2, <2>1, HereStays DEF PulumiInv
  <2>3. ASSUME q \notin doubt PROVE Current(q, u)'
    <3>1. Current(q, u)
      BY <1>2, <2>1, <2>3 DEF PulumiInv
    <3> QED
      BY <3>1, CurrentSame
  <2> QED
    BY <2>1, <2>2, <2>3
<1> QED
  BY <1>1, <1>2 DEF PulumiInv, Has

-----------------------------------------------------------------------------
(* What the calls leave under the id of their resource *)

\* CreateDirectory, and the row the reply is about.
LEMMA DirectoryMade ==
  ASSUME PulumiInv, NEW s, NEW acls,
         FullPath(s.args) \in Path, s.args.data = <<>>,
         rootNormalised(s.args.path) \in Path \cup {Root},
         acls = aclsToProto(s.args.acls), acls \subseteq Entry, Storable(acls) = acls,
         CreateDirectory(FullPath(s.args), acls),
         s.id = (CHOOSE d \in dirs' : d.full = FullPath(s.args)).id
  PROVE  /\ Tabled /\ OtherKept("dir")
         /\ s.id \in Nat /\ Here("dir", s)' /\ Current("dir", s)'
<1>1. PICK full \in Path : full = FullPath(s.args)
  OBVIOUS
<1>2. acls \in AclList
  BY RpcAssumption
<1>3. CreateDirectory(full, acls)
  BY <1>1
<1>4. Next /\ UNCHANGED <<configs, configAcl, contents>>
  BY <1>2, <1>3 DEF Next, CreateDirectory
<1>5. Tabled /\ IInv /\ IInv'
  BY <1>4, TableFacts DEF PulumiInv, Tabled, Sized
<1>6. PICK number \in Numberings(Missing(full)) :
        /\ dirs' = dirs \cup
              {[id |-> number[p], full |-> p, parent |-> ParentId(p, number)] :
                  p \in Missing(full)}
        /\ dirAcl' = dirAcl \cup UNION {AclRows(number[p], acls) : p \in Missing(full)}
  BY <1>3 DEF CreateDirectory
<1>7. full \in Missing(full)
  BY <1>3, ComponentFacts DEF CreateDirectory, CanCreateDirectory, Missing
<1>8. /\ inode \in Nat /\ IsFiniteSet(Missing(full)) /\ Cardinality(Missing(full)) \in Nat
      /\ \A p \in Missing(full) : number[p] \in inode + 1 .. inode + Cardinality(Missing(full))
      /\ \A p, q \in Missing(full) : number[p] = number[q] => p = q
  BY <1>5, MissingFinite, NumberingFacts DEF IInv, TypeOK
<1>9. PICK new \in dirs' : new.full = full /\ new.id = number[full]
  <2>1. [id |-> number[full], full |-> full, parent |-> ParentId(full, number)] \in dirs'
    BY <1>6, <1>7
  <2> QED
    BY <2>1
<1>10. s.id = new.id
  <2>1. \A d \in dirs' : d.full = full => d = new
    BY <1>5, <1>9 DEF IInv, DirInv, PathsUnique
  <2> QED
    BY <1>1, <1>9, <2>1
<1>11. s.id \in 1 .. inode' /\ s.id \in Nat /\ s.id \in Ids(dirs')
  <2>1. inode' = inode + Cardinality(Missing(full)) /\ s.id = number[full]
    BY <1>3, <1>9, <1>10 DEF CreateDirectory
  <2>2. s.id \in 1 .. inode' /\ s.id \in Nat
    BY <1>7, <1>8, <2>1
  <2> QED
    BY <1>9, <1>10, <2>2 DEF Ids
<1>12. AclsOf(dirAcl', s.id) = acls
  <2>1. PICK id : id = s.id
    OBVIOUS
  <2> DEFINE added == UNION {AclRows(number[p], acls) : p \in Missing(full)}
             mine == AclRows(id, acls)
             others == {row \in dirAcl \cup added : row.owner # id}
  <2>2. \A row \in mine : row.owner = id
    BY DEF AclRows
  <2>3. id = number[full] /\ id > inode
    BY <1>7, <1>8, <1>9, <1>10, <2>1
  <2>4. \A row \in dirAcl : row.owner # id
    BY <1>5, <2>3, IdFacts DEF IInv, NoOrphans, Ids
  <2>5. \A row \in added : row.owner = id => row \in mine
    <3>1. ASSUME NEW p \in Missing(full), NEW row \in AclRows(number[p], acls), row.owner = id
          PROVE  row \in mine
      <4>1. row.owner = number[p]
        BY <3>1 DEF AclRows
      <4>2. p = full
        BY <1>7, <1>8, <2>3, <3>1, <4>1
      <4> QED
        BY <2>3, <3>1, <4>2
    <3> QED
      BY <3>1
  <2>6. mine \subseteq added
    BY <1>7, <2>3
  <2>7. dirAcl' = others \cup mine
    BY <1>6, <2>2, <2>4, <2>5, <2>6
  <2>8. AclsOf(others \cup mine, id) = Storable(acls)
    BY NewOwner
  <2> QED
    BY <2>1, <2>7, <2>8
<1>13. Current("dir", s)'
  BY <1>11, <1>12 DEF Current, DirectoryCurrent
<1>14. \A d \in dirs' : d.id = s.id => d = new
  BY <1>5, <1>9, <1>10 DEF IInv, InodesDistinct, UniqueIds
<1>15. full[Len(full)] = s.args.name /\ Parent(full) = rootNormalised(s.args.path)
  BY <1>1, FullPathFacts DEF FullPath
<1>16. Here("dir", s)'
  BY <1>9, <1>11, <1>14, <1>15 DEF Here, DirectoryHere
<1> QED
  BY <1>4, <1>5, <1>11, <1>13, <1>16 DEF OtherKept

\* UpdateDirectory: the row stays where it is.
LEMMA DirectoryChanged ==
  ASSUME PulumiInv, NEW s, NEW acls,
         s.args.data = <<>>, Here("dir", s),
         acls = aclsToProto(s.args.acls), acls \subseteq Entry, Storable(acls) = acls,
         UpdateDirectory(s.id, acls)
  PROVE  /\ Tabled /\ OtherKept("dir")
         /\ Here("dir", s)' /\ Current("dir", s)'
<1>1. acls \in AclList /\ s.id \in Ids(dirs)
  BY RpcAssumption DEF UpdateDirectory
<1>2. Next /\ UNCHANGED <<inode, dirs, configs, configAcl, contents>>
  BY <1>1 DEF Next, UpdateDirectory
<1>3. Tabled /\ IInv
  BY <1>2 DEF PulumiInv, Tabled, Sized
<1>4. Here("dir", s)'
  BY <1>3, HereStays DEF Tabled
<1>5. AclsOf(dirAcl', s.id) = acls
  BY Replaced DEF UpdateDirectory
<1>6. Current("dir", s)'
  BY <1>1, <1>2, <1>5 DEF Current, DirectoryCurrent
<1> QED
  BY <1>2, <1>3, <1>4, <1>6 DEF OtherKept

\* SetConfig without an id.
LEMMA ConfigMade ==
  ASSUME PulumiInv, NEW s, NEW acls, NEW blob \in Blob,
         s.args.path \in ConfigPath, s.args.name \in FileName, s.id = inode + 1,
         blob = blobFromArgs(s.args),
         acls = aclsToProto(s.args.acls), acls \subseteq Entry, Storable(acls) = acls,
         Insert(s.args.path, s.args.name, blob, acls, now)
  PROVE  /\ Tabled /\ OtherKept("file")
         /\ s.id \in Nat /\ Here("file", s)' /\ Current("file", s)'
<1>1. acls \in AclList /\ now \in Clock
  BY RpcAssumption
<1>2. Next /\ UNCHANGED <<dirs, dirAcl>>
  BY <1>1 DEF Next, Insert
<1>3. blob.size = Len(blob.data) /\ blob.data = s.args.data
  BY DEF blobFromArgs
<1>4. \A v \in contents' : v \in contents \/ v.blob.size = Len(v.blob.data)
  BY <1>3 DEF Insert
<1>5. Tabled /\ IInv /\ IInv'
  BY <1>2, <1>4, TableFacts DEF PulumiInv, Tabled, Sized
<1>6. PICK new \in configs' : /\ new.id = inode + 1 /\ new.current = inode + 2
                              /\ new.path = s.args.path /\ new.name = s.args.name
  <2>1. [id |-> inode + 1, path |-> s.args.path, name |-> s.args.name,
         current |-> inode + 2, created |-> now, updated |-> now] \in configs'
    BY DEF Insert
  <2> QED
    BY <2>1
<1>7. PICK v \in contents' : v.id = inode + 2 /\ v.blob = blob
  <2>1. [id |-> inode + 2, config |-> inode + 1, blob |-> blob, created |-> now] \in contents'
    BY DEF Insert
  <2> QED
    BY <2>1
<1>8. inode \in Nat /\ inode' = inode + 2
  BY <1>5 DEF Insert, IInv, TypeOK
<1>9. \A c \in configs' : c.id = s.id => c = new
  BY <1>5, <1>6 DEF IInv, InodesDistinct, UniqueIds
<1>10. Here("file", s)' /\ s.id \in Nat
  BY <1>6, <1>8, <1>9 DEF Here, ConfigHere
<1>11. AclsOf(configAcl', s.id) = acls
  <2>1. PICK id : id = s.id
    OBVIOUS
  <2>2. \A row \in configAcl : row.owner # id
    BY <1>5, <1>8, <2>1, IdFacts DEF IInv, NoOrphans, Ids
  <2>3. configAcl' = configAcl \cup AclRows(id, acls)
    BY <2>1 DEF Insert
  <2> QED
    BY <2>1, <2>2, <2>3, NewOwner
<1>12. Current("file", s)'
  BY <1>3, <1>6, <1>7, <1>11 DEF Current, ConfigCurrent
<1> QED
  BY <1>2, <1>5, <1>10, <1>12 DEF OtherKept

\* SetConfig with the id.
LEMMA ConfigChanged ==
  ASSUME PulumiInv, NEW s, NEW acls, NEW blob \in Blob, Here("file", s),
         blob = blobFromArgs(s.args),
         acls = aclsToProto(s.args.acls), acls \subseteq Entry, Storable(acls) = acls,
         Update(s.id, s.args.path, s.args.name, blob, acls, now)
  PROVE  /\ Tabled /\ OtherKept("file")
         /\ Here("file", s)' /\ Current("file", s)'
<1>1. acls \in AclList /\ now \in Clock /\ blob # NoContent
  BY RpcAssumption, DataAssumption DEF Blob
<1>2. PICK c \in configs : /\ c.id = s.id
                           /\ c.path = s.args.path /\ c.name = s.args.name
                           /\ NewVersion(c, blob, now)
  BY <1>1 DEF Update, CanUpdate
<1>3. Next /\ UNCHANGED <<dirs, dirAcl>>
  BY <1>1, <1>2 DEF Next, Update
<1>4. blob.size = Len(blob.data) /\ blob.data = s.args.data
  BY DEF blobFromArgs
<1>5. \A v \in contents' : v \in contents \/ v.blob.size = Len(v.blob.data)
  BY <1>2, <1>4 DEF NewVersion
<1>6. Tabled /\ IInv
  BY <1>3, <1>5 DEF PulumiInv, Tabled, Sized
<1>7. Here("file", s)'
  BY <1>6, HereStays DEF Tabled
<1>8. PICK new \in configs' : new.id = s.id /\ new.current = inode + 1
  <2>1. c \in ConfigRow
    BY <1>6 DEF IInv, TypeOK
  <2>2. [c EXCEPT !.current = inode + 1, !.updated = now].id = s.id
        /\ [c EXCEPT !.current = inode + 1, !.updated = now].current = inode + 1
    BY <1>2, <2>1 DEF ConfigRow
  <2> QED
    BY <1>2, <2>2 DEF NewVersion
<1>9. PICK v \in contents' : v.id = inode + 1 /\ v.blob = blob
  <2>1. [id |-> inode + 1, config |-> c.id, blob |-> blob, created |-> now] \in contents'
    BY <1>2 DEF NewVersion
  <2> QED
    BY <2>1
<1>10. AclsOf(configAcl', s.id) = acls
  BY Replaced DEF Update
<1>11. Current("file", s)'
  BY <1>4, <1>8, <1>9, <1>10 DEF Current, ConfigCurrent
<1> QED
  BY <1>3, <1>6, <1>7, <1>11 DEF OtherKept

\* Deletes, and the changes of others.
LEMMA Removed ==
  ASSUME PulumiInv, NEW id
  PROVE  /\ DeleteDirectory(id) => Tabled /\ OtherKept("dir")
         /\ id \in Ids(configs) /\ Delete(id) => Tabled /\ OtherKept("file")
<1>1. ASSUME DeleteDirectory(id) PROVE Tabled /\ OtherKept("dir")
  <2>1. Next /\ UNCHANGED <<configs, configAcl, contents>>
    BY <1>1 DEF Next, DeleteDirectory, Ids
  <2> QED
    BY <2>1 DEF PulumiInv, Tabled, Sized, OtherKept
<1>2. ASSUME id \in Ids(configs), Delete(id) PROVE Tabled /\ OtherKept("file")
  <2>1. Next /\ UNCHANGED <<dirs, dirAcl>>
    BY <1>2 DEF Next, Delete
  <2>2. contents' \subseteq contents
    BY <1>2 DEF Delete
  <2> QED
    BY <2>1, <2>2 DEF PulumiInv, Tabled, Sized, OtherKept
<1> QED
  BY <1>1, <1>2

-----------------------------------------------------------------------------
(* The steps *)

LEMMA InputsFacts ==
  ASSUME PulumiInv, NEW r \in Resource, Wanted(r)
  PROVE  /\ Inputs(r) \in Arguments
         /\ rootNormalised(Inputs(r).path) \in Path \cup {Root}
         /\ r = "dir" => FullPath(Inputs(r)) \in Path /\ Inputs(r).data = <<>>
         /\ r = "file" => /\ Inputs(r).name \in FileName /\ Inputs(r).path \in ConfigPath
                          /\ blobFromArgs(Inputs(r)) \in Blob
<1>1. PICK p \in Programs : p = program
  BY DEF PulumiInv
<1>2. p[r] # Absent /\ Inputs(r) = Check(r, p[r])
  BY <1>1 DEF Wanted, Inputs
<1>3. /\ Inputs(r) \in Arguments
      /\ r = "dir" => FullPath(Inputs(r)) \in Path /\ Inputs(r).data = <<>>
      /\ r = "file" => Inputs(r).name \in FileName /\ blobFromArgs(Inputs(r)) \in Blob
  BY <1>2, ProgramAssumption
<1>4. Inputs(r).path \in ConfigPath
  BY <1>3 DEF Arguments
<1>5. rootNormalised(Inputs(r).path) \in Path \cup {Root}
  BY <1>4 DEF rootNormalised, ConfigPath
<1> QED
  BY <1>3, <1>4, <1>5

\* What an operation leaves for the invariant.
Kept == Tabled /\ PulumiInv'

LEMMA CreateKeeps ==
  ASSUME PulumiInv, NEW r \in Resource, Create(r)
  PROVE  Kept
<1>1. Wanted(r) /\ ~ Has(r)
  BY DEF Create, MayWrite
<1>2. PICK args \in Arguments : args = Inputs(r)
  BY <1>1, InputsFacts
<1>3. /\ rootNormalised(args.path) \in Path \cup {Root}
      /\ r = "dir" => FullPath(args) \in Path /\ args.data = <<>>
      /\ r = "file" => /\ args.name \in FileName /\ args.path \in ConfigPath
                       /\ blobFromArgs(args) \in Blob
  BY <1>1, <1>2, InputsFacts
<1>4. CASE validateACLs(args.acls) /\ CanCreate(r)
  <2>1. PICK id, acls, s : /\ id = CreatedId(r)
                           /\ acls = aclsToProto(args.acls)
                           /\ s = [id |-> id, args |-> args]
    OBVIOUS
  <2>2. acls \subseteq Entry /\ Storable(acls) = acls
    BY <1>2, <1>4, <2>1, ValidStored
  <2>3. /\ DoCreate(r)
        /\ \/ Record(r, s) /\ UNCHANGED program
           \/ LoseReply(r)
    BY <1>2, <1>4, <2>1 DEF Create, Keep
  <2>4. Tabled /\ OtherKept(r) /\ s.id \in Nat /\ Here(r, s)' /\ Current(r, s)'
    <3>1. CASE r = "dir"
      <4>1. CreateDirectory(FullPath(s.args), acls)
        BY <1>2, <2>1, <2>3, <3>1 DEF DoCreate, MakeDirectory
      <4>2. s.id = (CHOOSE d \in dirs' : d.full = FullPath(s.args)).id
        BY <1>2, <2>1, <3>1 DEF CreatedId
      <4> QED
        BY <1>3, <2>1, <2>2, <3>1, <4>1, <4>2, DirectoryMade
    <3>2. CASE r = "file"
      <4>1. PICK blob \in Blob : blob = blobFromArgs(args)
        BY <1>3, <3>2
      <4>2. Insert(s.args.path, s.args.name, blob, acls, now)
        BY <1>2, <2>1, <2>3, <3>2, <4>1 DEF DoCreate, SetNew
      <4>3. s.id = inode + 1
        BY <1>2, <2>1, <3>2 DEF CreatedId
      <4> QED
        BY <1>3, <2>1, <2>2, <3>2, <4>1, <4>2, <4>3, ConfigMade
    <3> QED
      BY <3>1, <3>2, ProgramAssumption
  <2>5. s \in Deployment
    BY <2>1, <2>4 DEF Deployment
  <2>6. CASE Record(r, s) /\ UNCHANGED program
    BY <2>4, <2>5, <2>6, RecordKeeps DEF Kept
  <2>7. CASE LoseReply(r)
    <3>1. /\ UNCHANGED <<program, state>>
          /\ doubt' = doubt \cup {r} /\ command' = "none" /\ unread' = {}
      BY <2>7 DEF LoseReply, Fail
    <3> QED
      BY <2>4, <3>1, DoubtKeeps DEF Kept
  <2> QED
    BY <2>3, <2>6, <2>7
<1>5. CASE ~ (validateACLs(args.acls) /\ CanCreate(r))
  <2>1. UNCHANGED <<vars, state, doubt, program>> /\ command' = "none" /\ unread' = {}
    BY <1>2, <1>5 DEF Create, Fail, Keep
  <2> QED
    BY <2>1, IdleKeeps DEF Kept, Tabled, PulumiInv, Sized, vars
<1> QED
  BY <1>4, <1>5

\* A change is not a replacement, so the resource stays at its place.
LEMMA ChangeKeeps ==
  ASSUME PulumiInv, NEW r \in Resource, ChangeResource(r)
  PROVE  Kept
<1>1. Wanted(r) /\ Has(r) /\ ~ Replaces(r)
  BY DEF ChangeResource, MayWrite, Doomed
<1>2. PICK args \in Arguments, u \in Deployment : args = Inputs(r) /\ u = state[r]
  BY <1>1, InputsFacts DEF PulumiInv, Has
<1>3. /\ r = "dir" => args.data = <<>>
      /\ r = "file" => blobFromArgs(args) \in Blob
  BY <1>1, <1>2, InputsFacts
<1>4. PICK acls, s : acls = aclsToProto(args.acls) /\ s = [id |-> u.id, args |-> args]
  OBVIOUS
<1>5. s \in Deployment /\ Here(r, s)
  <2>1. Here(r, u) /\ args.name = u.args.name /\ args.path = u.args.path
    BY <1>1, <1>2 DEF PulumiInv, Replaces
  <2> QED
    BY <1>2, <1>4, <2>1 DEF Here, DirectoryHere, ConfigHere, Deployment
<1>6. CASE validateACLs(args.acls) /\ CanChange(r, u.id)
  <2>1. acls \subseteq Entry /\ Storable(acls) = acls
    BY <1>2, <1>4, <1>6, ValidStored
  <2>2. /\ DoChange(r, u.id)
        /\ \/ Record(r, s) /\ UNCHANGED program
           \/ LoseReply(r)
    BY <1>2, <1>4, <1>6 DEF ChangeResource, Keep
  <2>3. Tabled /\ OtherKept(r) /\ Here(r, s)' /\ Current(r, s)'
    <3>1. CASE r = "dir"
      <4>1. UpdateDirectory(s.id, acls)
        BY <1>2, <1>4, <2>2, <3>1 DEF DoChange, SetDirectory
      <4> QED
        BY <1>3, <1>4, <1>5, <2>1, <3>1, <4>1, DirectoryChanged
    <3>2. CASE r = "file"
      <4>1. PICK blob \in Blob : blob = blobFromArgs(args)
        BY <1>3, <3>2
      <4>2. Update(s.id, s.args.path, s.args.name, blob, acls, now)
        BY <1>2, <1>4, <2>2, <3>2, <4>1 DEF DoChange, Set
      <4> QED
        BY <1>4, <1>5, <2>1, <3>2, <4>1, <4>2, ConfigChanged
    <3> QED
      BY <3>1, <3>2, ProgramAssumption
  <2>4. CASE Record(r, s) /\ UNCHANGED program
    BY <1>5, <2>3, <2>4, RecordKeeps DEF Kept
  <2>5. CASE LoseReply(r)
    <3>1. /\ UNCHANGED <<program, state>>
          /\ doubt' = doubt \cup {r} /\ command' = "none" /\ unread' = {}
      BY <2>5 DEF LoseReply, Fail
    <3> QED
      BY <2>3, <3>1, DoubtKeeps DEF Kept
  <2> QED
    BY <2>2, <2>4, <2>5
<1>7. CASE ~ (validateACLs(args.acls) /\ CanChange(r, u.id))
  <2>1. UNCHANGED <<vars, state, doubt, program>> /\ command' = "none" /\ unread' = {}
    BY <1>2, <1>7 DEF ChangeResource, Fail, Keep
  <2> QED
    BY <2>1, IdleKeeps DEF Kept, Tabled, PulumiInv, Sized, vars
<1> QED
  BY <1>6, <1>7

LEMMA DeleteKeeps ==
  ASSUME PulumiInv, NEW r \in Resource, DeleteResource(r)
  PROVE  Kept
<1>1. PICK id, none : id = state[r].id /\ none = Absent
  OBVIOUS
<1>2. CASE Stored(r, id) = {}
  <2>1. Record(r, none) /\ UNCHANGED program /\ UNCHANGED vars
    BY <1>1, <1>2 DEF DeleteResource, Keep
  <2>2. Tabled /\ OtherKept(r)
    BY <2>1 DEF Tabled, OtherKept, PulumiInv, Sized, vars
  <2> QED
    BY <1>1, <2>1, <2>2, RecordKeeps DEF Kept
<1>3. CASE Stored(r, id) # {} /\ CanDrop(r, id)
  <2>1. /\ DoDrop(r, id)
        /\ \/ Record(r, none) /\ UNCHANGED program
           \/ LoseReply(r)
    BY <1>1, <1>3 DEF DeleteResource, Keep
  <2>2. Tabled /\ OtherKept(r)
    <3>1. CASE r = "dir"
      BY <2>1, <3>1, Removed DEF DoDrop, RemoveDirectory
    <3>2. CASE r = "file"
      BY <2>1, <3>2, Removed DEF DoDrop, DeleteConfig, CanDeleteConfig
    <3> QED
      BY <3>1, <3>2, ProgramAssumption
  <2>3. CASE Record(r, none) /\ UNCHANGED program
    BY <1>1, <2>2, <2>3, RecordKeeps DEF Kept
  <2>4. CASE LoseReply(r)
    <3>1. /\ UNCHANGED <<program, state>>
          /\ doubt' = doubt \cup {r} /\ command' = "none" /\ unread' = {}
      BY <2>4 DEF LoseReply, Fail
    <3> QED
      BY <2>2, <3>1, DoubtKeeps DEF Kept
  <2> QED
    BY <2>1, <2>3, <2>4
<1>4. CASE Stored(r, id) # {} /\ ~ CanDrop(r, id)
  <2>1. UNCHANGED <<vars, state, doubt, program>> /\ command' = "none" /\ unread' = {}
    BY <1>1, <1>4 DEF DeleteResource, Fail, Keep
  <2> QED
    BY <2>1, IdleKeeps DEF Kept, Tabled, PulumiInv, Sized, vars
<1> QED
  BY <1>2, <1>3, <1>4

LEMMA DriftKeeps ==
  ASSUME PulumiInv, NEW r \in Resource, Drift(r)
  PROVE  Kept
<1>1. PICK id : id = state[r].id
  OBVIOUS
<1>2. Open \in AclList /\ now \in Clock
  BY RpcAssumption DEF Open, Entry, Level
<1>3. Tabled /\ OtherKept(r)
  <2>1. CASE r = "dir"
    <3>1. DeleteDirectory(id) \/ UpdateDirectory(id, Open)
      BY <1>1, <2>1 DEF Drift
    <3>2. ASSUME UpdateDirectory(id, Open) PROVE Tabled /\ OtherKept("dir")
      <4>1. Next /\ UNCHANGED <<configs, configAcl, contents>>
        BY <1>2, <3>2 DEF Next, UpdateDirectory
      <4> QED
        BY <4>1 DEF PulumiInv, Tabled, Sized, OtherKept
    <3> QED
      BY <2>1, <3>1, <3>2, Removed
  <2>2. CASE r = "file"
    <3>1. \/ id \in Ids(configs) /\ Delete(id)
          \/ \E c \in configs :
                c.id = id /\ Update(id, c.path, c.name, NoContent, Open, now)
      BY <1>1, <2>2, ProgramAssumption DEF Drift
    <3>2. ASSUME NEW c \in configs, Update(c.id, c.path, c.name, NoContent, Open, now)
          PROVE  Tabled /\ OtherKept("file")
      <4>1. Next /\ UNCHANGED <<dirs, dirAcl>>
        BY <1>2, <3>2 DEF Next, Update
      <4>2. UNCHANGED contents
        BY <3>2 DEF Update, SameVersion
      <4> QED
        BY <4>1, <4>2 DEF PulumiInv, Tabled, Sized, OtherKept
    <3> QED
      BY <2>2, <3>1, <3>2, Removed
  <2> QED
    BY <2>1, <2>2, ProgramAssumption
<1>4. /\ UNCHANGED <<program, state>> /\ UNCHANGED <<command, unread>>
      /\ doubt' = doubt \cup {r}
  BY DEF Drift
<1> QED
  BY <1>3, <1>4, DoubtKeeps DEF Kept

\* What is under an id, as arguments.
LEMMA StoredFacts ==
  ASSUME IInv, NEW r \in Resource, NEW id, NEW x \in Stored(r, id)
  PROVE  /\ x \in Arguments /\ x.path = Place(r, x.path)
         /\ \A s : /\ s = [id |-> id, args |-> x] => Here(r, s) /\ Current(r, s)
                   /\ s.id = id /\ Here(r, s) => /\ x.name = s.args.name
                                                 /\ x.path = Place(r, s.args.path)
                   /\ s.id = id /\ Current(r, s) => /\ x.data = s.args.data
                                                    /\ aclsToProto(x.acls) = aclsToProto(s.args.acls)
<1>1. inode \in Nat /\ TypeOK /\ NoOrphans
  BY DEF IInv, TypeOK
<1>2. CASE r = "dir"
  <2>1. PICK d \in dirs : /\ d.id = id
                          /\ x = [name |-> d.full[Len(d.full)], path |-> Parent(d.full),
                                  data |-> <<>>, acls |-> aclsFromProto(AclsOf(dirAcl, id))]
    BY <1>2 DEF Stored, DirectoryArgs
  <2>2. /\ d.full \in Path /\ d.id \in 1 .. inode
        /\ \A e \in dirs : e.id = id => e = d
    BY <1>1, <2>1, IdFacts DEF TypeOK, DirRow, IInv, InodesDistinct, UniqueIds
  <2>3. /\ d.full[Len(d.full)] \in Name
        /\ Parent(d.full) \in Path \cup {Root}
    <3>1. d.full \in Seq(Name) /\ Len(d.full) \in Nat \ {0}
      BY <2>2, PathAssumption, ComponentFacts
    <3>2. d.full[Len(d.full)] \in Name
      BY <3>1
    <3> QED
      BY <2>2, <3>2, ParentPath
  <2>4. /\ aclsFromProto(AclsOf(dirAcl, id)) \in SUBSET [text: Text, who: Tag \cup {Everyone, Nobody}]
        /\ aclsToProto(aclsFromProto(AclsOf(dirAcl, id))) = AclsOf(dirAcl, id)
    <3>1. dirAcl \subseteq AclRow /\ \A row \in dirAcl : row.entry.acl # "UNKNOWN"
      BY <1>1 DEF TypeOK, NoOrphans
    <3> QED
      BY <3>1, FromTable
  <2>5. x \in Arguments
    BY <2>1, <2>3, <2>4 DEF Arguments, ConfigPath
  <2>6. rootNormalised(x.path) = x.path
    BY <2>1, <2>3, PathAssumption DEF rootNormalised
  <2>7. x.name = d.full[Len(d.full)] /\ x.path = Parent(d.full) /\ x.data = <<>>
        /\ aclsToProto(x.acls) = AclsOf(dirAcl, id)
    BY <2>1, <2>4
  <2>8. ASSUME NEW s, s = [id |-> id, args |-> x]
        PROVE  Here(r, s) /\ Current(r, s)
    <3>1. s.id = id /\ s.args = x
      BY <2>8
    <3>2. DirectoryHere(s)
      BY <2>2, <2>6, <2>7, <3>1 DEF DirectoryHere
    <3>3. DirectoryCurrent(s)
      BY <2>1, <2>7, <3>1 DEF DirectoryCurrent, Ids
    <3> QED
      BY <1>2, <2>1, <2>2, <3>1, <3>2, <3>3 DEF Here, Current
  <2>9. ASSUME NEW s, s.id = id, Here(r, s)
        PROVE  x.name = s.args.name /\ x.path = Place(r, s.args.path)
    BY <1>2, <2>1, <2>7, <2>9 DEF Here, DirectoryHere, Place
  <2>10. ASSUME NEW s, s.id = id, Current(r, s)
         PROVE  x.data = s.args.data /\ aclsToProto(x.acls) = aclsToProto(s.args.acls)
    BY <1>2, <2>7, <2>10 DEF Current, DirectoryCurrent
  <2> QED
    BY <1>2, <2>5, <2>6, <2>8, <2>9, <2>10 DEF Place
<1>3. CASE r = "file"
  <2>1. PICK c \in configs : /\ c.id = id
                             /\ x = [name |-> c.name, path |-> c.path,
                                     data |-> (CHOOSE v \in contents : v.id = c.current).blob.data,
                                     acls |-> aclsFromProto(AclsOf(configAcl, id))]
    BY <1>3 DEF Stored, ConfigArgs
  <2>2. /\ c \in ConfigRow /\ c.id \in 1 .. inode
        /\ \A e \in configs : e.id = id => e = c
    BY <1>1, <2>1, IdFacts DEF TypeOK, IInv, InodesDistinct, UniqueIds
  <2>3. PICK v \in contents : v.id = c.current /\ \A w \in contents : w.id = v.id => w = v
    BY DEF IInv, ConfigInv, CurrentIsLatest, InodesDistinct, UniqueIds
  <2>4. v = CHOOSE w \in contents : w.id = c.current
    BY <2>3
  <2>5. v.blob.data \in Data
    BY <1>1, <2>3 DEF TypeOK, ContentRow, Blob
  <2>6. /\ aclsFromProto(AclsOf(configAcl, id)) \in SUBSET [text: Text, who: Tag \cup {Everyone, Nobody}]
        /\ aclsToProto(aclsFromProto(AclsOf(configAcl, id))) = AclsOf(configAcl, id)
    <3>1. configAcl \subseteq AclRow /\ \A row \in configAcl : row.entry.acl # "UNKNOWN"
      BY <1>1 DEF TypeOK, NoOrphans
    <3> QED
      BY <3>1, FromTable
  <2>7. x.name = c.name /\ x.path = c.path /\ x.data = v.blob.data
        /\ aclsToProto(x.acls) = AclsOf(configAcl, id)
    BY <2>1, <2>4, <2>6
  <2>8. x \in Arguments
    BY <2>1, <2>2, <2>4, <2>5, <2>6 DEF Arguments, ConfigRow
  <2>9. ASSUME NEW s, s = [id |-> id, args |-> x]
        PROVE  Here(r, s) /\ Current(r, s)
    <3>1. s.id = id /\ s.args = x
      BY <2>9
    <3>2. ConfigHere(s)
      BY <2>2, <2>7, <3>1 DEF ConfigHere
    <3>3. ConfigCurrent(s)
      BY <2>1, <2>3, <2>7, <3>1 DEF ConfigCurrent
    <3> QED
      BY <1>3, <2>1, <2>2, <3>1, <3>2, <3>3 DEF Here, Current
  <2>10. ASSUME NEW s, s.id = id, Here(r, s)
         PROVE  x.name = s.args.name /\ x.path = Place(r, s.args.path)
    BY <1>3, <2>1, <2>7, <2>10 DEF Here, ConfigHere, Place
  <2>11. ASSUME NEW s, s.id = id, Current(r, s)
         PROVE  x.data = s.args.data /\ aclsToProto(x.acls) = aclsToProto(s.args.acls)
    <3>1. PICK e \in configs, w \in contents :
             e.id = id /\ w.id = e.current /\ w.blob.data = s.args.data
      BY <1>3, <2>11 DEF Current, ConfigCurrent
    <3>2. e = c /\ w = v
      BY <2>2, <2>3, <3>1
    <3> QED
      BY <1>3, <2>7, <2>11, <3>1, <3>2 DEF Current, ConfigCurrent
  <2> QED
    BY <1>3, <2>8, <2>9, <2>10, <2>11 DEF Place
<1> QED
  BY <1>2, <1>3, ProgramAssumption

\* What is current is there.
LEMMA CurrentStored ==
  ASSUME NEW r \in Resource, NEW s, Current(r, s)
  PROVE  Stored(r, s.id) # {}
<1>1. CASE r = "dir"
  BY <1>1 DEF Current, DirectoryCurrent, Stored, DirectoryArgs, Ids
<1>2. CASE r = "file"
  BY <1>2 DEF Current, ConfigCurrent, Stored, ConfigArgs
<1> QED
  BY <1>1, <1>2, ProgramAssumption

LEMMA ReadKeeps ==
  ASSUME PulumiInv, NEW r \in Resource, Read(r)
  PROVE  Kept
<1>1. PICK u \in Deployment : u = state[r]
  BY DEF Read, PulumiInv, Has
<1>2. Tabled /\ OtherKept(r) /\ UNCHANGED program
  BY DEF Read, Keep, Tabled, OtherKept, PulumiInv, Sized, vars
<1>3. PICK none : none = Absent
  OBVIOUS
<1>4. CASE Record(r, none)
  BY <1>2, <1>3, <1>4, RecordKeeps DEF Kept
<1>5. CASE Stored(r, u.id) # {}
           /\ Record(r, [id |-> u.id, args |-> CHOOSE args \in Stored(r, u.id) : TRUE])
  <2>1. PICK x \in Stored(r, u.id) : x = CHOOSE args \in Stored(r, u.id) : TRUE
    BY <1>5
  <2>2. PICK s : s = [id |-> u.id, args |-> x]
    OBVIOUS
  <2>3. x \in Arguments /\ Here(r, s) /\ Current(r, s)
    BY <2>2, StoredFacts DEF PulumiInv
  <2>4. s \in Deployment
    BY <2>2, <2>3 DEF Deployment
  <2>5. UNCHANGED vars
    BY DEF Read
  <2>6. Here(r, s)' /\ Current(r, s)'
    BY <1>2, <2>3, <2>5, HereStays, CurrentSame DEF Tabled, PulumiInv
  <2> QED
    BY <1>2, <1>5, <2>1, <2>2, <2>4, <2>6, RecordKeeps DEF Kept
<1>6. CASE Fail /\ UNCHANGED doubt
  <2>1. UNCHANGED <<vars, state, doubt, program>> /\ command' = "none" /\ unread' = {}
    BY <1>6 DEF Read, Fail, Keep
  <2> QED
    BY <2>1, IdleKeeps DEF Kept, Tabled, PulumiInv, Sized, vars
<1>7. \/ Record(r, none)
      \/ /\ Stored(r, u.id) # {}
         /\ Record(r, [id |-> u.id, args |-> CHOOSE args \in Stored(r, u.id) : TRUE])
      \/ Fail /\ UNCHANGED doubt
  BY <1>1, <1>3 DEF Read
<1> QED
  BY <1>4, <1>5, <1>6, <1>7

LEMMA OtherKeeps ==
  ASSUME PulumiInv, Start("up") \/ Start("refresh") \/ Finish \/ Unreachable \/ Edit
  PROVE  Kept
<1>1. /\ UNCHANGED <<vars, state, doubt>> /\ program' \in Programs
      /\ command' \in {"none", "refresh", "up"}
      /\ command' # "refresh" => unread' = {}
      /\ unread' \subseteq {r \in Resource : Has(r)}
  <2>1. CASE Start("up") \/ Start("refresh")
    BY <2>1 DEF Start, PulumiInv
  <2>2. CASE Finish
    BY <2>2 DEF Finish, PulumiInv
  <2>3. CASE Unreachable
    BY <2>3 DEF Unreachable, Fail, PulumiInv
  <2>4. CASE Edit
    BY <2>4 DEF Edit, PulumiInv
  <2> QED
    BY <2>1, <2>2, <2>3, <2>4
<1>2. Tabled
  BY <1>1 DEF Tabled, PulumiInv, Sized, vars
<1> QED
  BY <1>1, <1>2, IdleKeeps DEF Kept

LEMMA InitPulumiInv == PulumiInit => PulumiInv
<1> SUFFICES ASSUME PulumiInit PROVE PulumiInv
  OBVIOUS
<1>1. IInv
  BY InitIInv DEF PulumiInit
<1>2. Sized
  BY DEF PulumiInit, Init, Sized
<1>3. \A r \in Resource : ~ Has(r)
  BY DEF PulumiInit, Has
<1> QED
  BY <1>1, <1>2, <1>3 DEF PulumiInit, PulumiInv

LEMMA NextPulumiInv == PulumiInv /\ [PulumiNext]_pulumiVars => [Next]_vars /\ PulumiInv'
<1> SUFFICES ASSUME PulumiInv, [PulumiNext]_pulumiVars PROVE Kept
  BY DEF Kept, Tabled
<1>1. CASE Start("up") \/ Start("refresh") \/ Finish \/ Unreachable \/ Edit
  BY <1>1, OtherKeeps
<1>2. ASSUME NEW r \in Resource, Create(r) PROVE Kept
  BY <1>2, CreateKeeps
<1>3. ASSUME NEW r \in Resource, Read(r) PROVE Kept
  BY <1>3, ReadKeeps
<1>4. ASSUME NEW r \in Resource, ChangeResource(r) PROVE Kept
  BY <1>4, ChangeKeeps
<1>5. ASSUME NEW r \in Resource, DeleteResource(r) PROVE Kept
  BY <1>5, DeleteKeeps
<1>6. ASSUME NEW r \in Resource, Drift(r) PROVE Kept
  BY <1>6, DriftKeeps
<1>7. CASE UNCHANGED pulumiVars
  <2>1. UNCHANGED <<vars, state, doubt, program, command, unread>>
    BY <1>7 DEF pulumiVars, stack
  <2> QED
    BY <2>1, IdleKeeps DEF Kept, Tabled, PulumiInv, Sized, vars
<1> QED
  BY <1>1, <1>2, <1>3, <1>4, <1>5, <1>6, <1>7 DEF PulumiNext, Engine

-----------------------------------------------------------------------------
(* The theorems *)

\* Whatever others do and whichever calls fail, what is under the id of a resource
\* is where the stack has it, and is as the stack has it unless in doubt.
THEOREM PulumiInvariant == PulumiSpec => []PulumiInv
<1> QED
  BY InitPulumiInv, NextPulumiInv, PTL DEF PulumiSpec

\* Every call of the provider is a transaction of Store or changes no table.
THEOREM PulumiImplementsStore == PulumiSpec => [][Next]_vars
<1> QED
  BY PulumiInvariant, NextPulumiInv, PTL DEF PulumiSpec

LEMMA InvStateTrue == PulumiInv => StateTrue
<1> SUFFICES ASSUME PulumiInv, NEW r \in Resource, Has(r), r \notin doubt
             PROVE  /\ \E args \in Stored(r, state[r].id) :
                          /\ SameArgs(r, args, state[r].args)
                          /\ aclsToProto(state[r].args.acls) = aclsToProto(args.acls)
                    /\ r = "file" => \A v \in contents :
                          v.config = state[r].id => v.blob.size = Len(v.blob.data)
  BY DEF StateTrue
<1>1. PICK s : s = state[r]
  OBVIOUS
<1>2. Here(r, s) /\ Current(r, s)
  BY <1>1 DEF PulumiInv
<1>3. PICK x \in Stored(r, s.id) : TRUE
  BY <1>2, CurrentStored
<1>4. /\ x.name = s.args.name /\ x.path = Place(r, s.args.path)
      /\ x.data = s.args.data /\ aclsToProto(x.acls) = aclsToProto(s.args.acls)
  BY <1>2, StoredFacts DEF PulumiInv
<1>5. rootNormalised(x.path) = rootNormalised(s.args.path)
  BY <1>4 DEF Place, rootNormalised
<1> QED
  BY <1>1, <1>4, <1>5 DEF SameArgs, PulumiInv, Sized

\* A state nobody has interfered with is the truth: what the stack has under an id
\* is what the server has under it, with every grant the program asks for.
THEOREM PulumiState == PulumiSpec => []StateTrue
<1> QED
  BY PulumiInvariant, InvStateTrue, PTL

\* A resource is read back.
ReadBack(r) == /\ r \in unread \ unread' /\ command' = command
               /\ r \notin doubt
               /\ Wanted(r)
               /\ EmptyPath \notin {Inputs(r).path, state[r].args.path}

NoDiffStep == \A r \in Resource : ReadBack(r) => /\ Has(r)'
                                                 /\ HasChanges(r)' = HasChanges(r)
                                                 /\ Replaces(r)' = Replaces(r)

\* Only its own Read takes a resource from the unread ones of a command that goes on.
LEMMA OnlyReadReads ==
  ASSUME PulumiInv, [PulumiNext]_pulumiVars, NEW r \in Resource,
         r \in unread \ unread', command' = command
  PROVE  Read(r) /\ \E s : Record(r, s)
<1>1. command = "refresh" /\ command' = "refresh"
  BY DEF PulumiInv
<1>2. ~ (Start("up") \/ Start("refresh") \/ Finish \/ Unreachable \/ Edit)
  BY <1>1 DEF Start, Finish, Unreachable, Fail, Edit
<1>3. ~ UNCHANGED pulumiVars
  BY DEF pulumiVars, stack
<1>4. \A q \in Resource : ~ (Create(q) \/ ChangeResource(q) \/ DeleteResource(q) \/ Drift(q))
  BY <1>1 DEF Create, ChangeResource, DeleteResource, Drift
<1>5. PICK q \in Resource : Read(q)
  BY <1>2, <1>3, <1>4 DEF PulumiNext, Engine
<1>6. PICK s : Record(q, s)
  BY <1>1, <1>5 DEF Read, Fail
<1>7. q = r
  BY <1>6 DEF Record
<1> QED
  BY <1>5, <1>6, <1>7

LEMMA NextNoDiff == PulumiInv /\ [PulumiNext]_pulumiVars => [NoDiffStep]_pulumiVars
<1> SUFFICES ASSUME PulumiInv, [PulumiNext]_pulumiVars, NEW r \in Resource, ReadBack(r)
             PROVE  Has(r)' /\ HasChanges(r)' = HasChanges(r) /\ Replaces(r)' = Replaces(r)
  BY DEF NoDiffStep
<1>1. Read(r) /\ ~ Fail
  BY OnlyReadReads DEF ReadBack, PulumiInv, Fail
<1>2. PICK u \in Deployment : u = state[r] /\ Here(r, u) /\ Current(r, u)
  BY DEF ReadBack, PulumiInv, Has
<1>3. PICK x \in Stored(r, u.id) : x = CHOOSE args \in Stored(r, u.id) : TRUE
  BY <1>2, CurrentStored
<1>4. /\ x \in Arguments
      /\ x.name = u.args.name /\ x.path = Place(r, u.args.path)
      /\ x.data = u.args.data /\ aclsToProto(x.acls) = aclsToProto(u.args.acls)
  BY <1>2, StoredFacts DEF PulumiInv
<1>5. x.path = u.args.path
  BY <1>2, <1>4 DEF ReadBack, Place, rootNormalised
<1>6. PICK s : s = [id |-> u.id, args |-> x]
  OBVIOUS
<1>7. Record(r, s) /\ UNCHANGED program
  BY <1>1, <1>2, <1>3, <1>6 DEF Read, Keep
<1>8. state'[r] = s
  BY <1>7 DEF Record, PulumiInv
<1>9. Has(r)'
  <2>1. s \in Deployment
    BY <1>4, <1>6 DEF Deployment
  <2> QED
    BY <1>8, <2>1, ProgramAssumption DEF Deployment, Has
<1>10. PICK new : new = Inputs(r)
  OBVIOUS
<1>11. Inputs(r)' = new
  BY <1>7, <1>10 DEF Inputs
<1>12. HasChanges(r)' = HasChanges(r) /\ Replaces(r)' = Replaces(r)
  <2>1. state'[r].args = x /\ state[r].args = u.args
    BY <1>2, <1>6, <1>8
  <2>2. Replaces(r) <=> new.name # x.name \/ new.path # x.path
    BY <1>4, <1>5, <1>10, <2>1 DEF Replaces
  <2>3. Replaces(r)' <=> new.name # x.name \/ new.path # x.path
    BY <1>11, <2>1 DEF Replaces
  <2>4. HasChanges(r) <=> \/ new.name # x.name
                          \/ new.path # x.path
                          \/ new.data # x.data
                          \/ aclsToProto(new.acls) # aclsToProto(x.acls)
    BY <1>4, <1>5, <1>10, <2>1 DEF HasChanges, aclsEqual
  <2>5. HasChanges(r)' <=> \/ new.name # x.name
                           \/ new.path # x.path
                           \/ new.data # x.data
                           \/ aclsToProto(new.acls) # aclsToProto(x.acls)
    BY <1>11, <2>1 DEF HasChanges, aclsEqual
  <2>6. /\ HasChanges(r) \in BOOLEAN /\ HasChanges(r)' \in BOOLEAN
        /\ Replaces(r) \in BOOLEAN /\ Replaces(r)' \in BOOLEAN
    BY DEF HasChanges, Replaces
  <2> QED
    BY <2>2, <2>3, <2>4, <2>5, <2>6
<1> QED
  BY <1>9, <1>12

\* A refresh of what nobody has changed asks for no update and no replacement that
\* was not asked for before, whatever the program says.
THEOREM PulumiRead == PulumiSpec => ReadFindsNoDiff
<1>1. ReadFindsNoDiff <=> [][NoDiffStep]_pulumiVars
  BY DEF ReadFindsNoDiff, NoDiffStep, ReadBack
<1> QED
  BY <1>1, NextNoDiff, PulumiInvariant, PTL DEF PulumiSpec

=============================================================================
