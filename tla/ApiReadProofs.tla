--------------------------- MODULE ApiReadProofs ---------------------------
(***************************************************************************)
(* What requests may rely on although their SELECTs see different states:  *)
(* proofs of NoSpuriousRefusal, ListComplete and ListTreeWhole, for any    *)
(* number of handlers, requests and directories.                           *)
(*                                                                         *)
(* The invariant says, for every place a handler can be in, what it has    *)
(* read so far and how that still stands to the tables (ReadInv), and that *)
(* the observer variable seen says of the present state what it promises   *)
(* (Watched).  Two facts carry the argument.  A row that a handler holds   *)
(* and that has gone has no ACL rows any more, and a directory without     *)
(* ACL rows is transparent; and a directory with a config below it cannot  *)
(* go (Pinned), so what a steady config hangs from stays where List saw it.*)
(***************************************************************************)
EXTENDS ApiProofs

-----------------------------------------------------------------------------
(* The invariant *)

\* Where a request may take its handler.
RightPlace(s) ==
    /\ s.at \in {"object", "objectAcl"} => s.req.op \in ConfigOps \cup DirOps
    /\ s.at = "content" => s.req.op = "GetConfig"
    /\ s.at \in {"chain", "chainAcl"} =>
          s.req.op \in CreateOps \cup DirOps \cup {"GetConfig", "UpdateConfig"}
    /\ s.at = "commit" =>
          s.req.op \in CreateOps \cup (DirOps \ ReadOps)
                       \cup {"UpdateConfig", "DeleteConfig"}

\* The directory a List is confined to, and the configs it has found below it.
Confined(s) ==
    /\ s.at \in {"dirs", "dirAcl", "configs", "configAcl"} =>
          /\ \A e \in s.content : e \in DirRow /\ e.id = s.req.id
          /\ s.content = {} <=> s.req.id = NoId
    /\ s.at = "configAcl" =>
          \A c \in s.objs : /\ c \in ConfigRow
                            /\ \A e \in s.content : Under(c.path, e)

\* The answer of a List is one tree.
Listed(s) == s.at = "done" /\ s.req # NoRequest /\ s.req.op = "List" /\ s.code = "OK"
Whole(s) ==
    LET paths == {d.full : d \in s.chain}
        top == IF s.req.id = NoId THEN {Root}
                                  ELSE {d.full : d \in s.content} \cap paths
    IN  /\ \A c \in s.objs : rootNormalised(c.path) \in paths \cup top
        /\ \A d \in s.chain : d.full \in top \/ Parent(d.full) \in paths \cup top

\* The rows of a chain stay true of their ids, as those of the object do.
ChainHeld(s, n, ds) ==
    s.at # "done" =>
        \A d \in s.chain : d.id <= n /\ \A e \in ds : e.id = d.id => e = d

\* They are rows of the path the handler looks up.
OnChain(s) ==
    s.at = "chainAcl" =>
        \A d \in s.chain : /\ d.full \in Components(TargetPath(s))
                           /\ TargetPath(s) \notin {Root, EmptyPath}

\* What a request granted so far has been through.
Smooth(s, granted, vs) ==
    granted /\ s.req.op # "List" =>
        /\ s.at = "done" => s.code = "OK"
        /\ s.at \in {"objectAcl", "content"} /\ s.req.op = "GetConfig" =>
              \A o \in s.objs : \E v \in vs : v.id = o.current /\ v.config = s.req.id
        /\ s.at = "content" =>
              AllowedConfigs(s.objs, s.objAcl, s.req.tags, "READ") # {}
        /\ s.at \in {"chain", "chainAcl"} /\ s.req.op \in DirOps \ ReadOps =>
              DirAllows(AclsOf(s.objAcl, s.req.id), s.req.tags, "WRITE")
        /\ s.at = "chainAcl" /\ s.req.op # "CreateDirectory" =>
              Exists(TargetPath(s), s.chain)

\* What a List has seen of the configs it has had to show so far.
Steady(s, steady, ds, cs) ==
    /\ s.at \in {"dirs", "dirAcl", "configs", "configAcl"} /\ steady # {} =>
          s.content \subseteq ds
    /\ s.at \in {"dirAcl", "configs", "configAcl"} /\ steady # {} =>
          s.content \subseteq s.chain
    /\ s.at = "dirAcl" =>
          \A c \in cs : c.id \in steady =>
             \A d \in ds : d.full \in Components(rootNormalised(c.path)) => d \in s.chain
    /\ s.at \in {"configs", "configAcl"} =>
          \A c \in cs : c.id \in steady =>
             \A q \in Components(rootNormalised(c.path)) :
                Grants(s.chain, s.chainAcl, s.req.tags, q)
    /\ s.at = "configAcl" =>
          \A c \in cs : c.id \in steady => \E o \in s.objs : o.id = c.id /\ o.path = c.path
    /\ Listed(s) => steady \subseteq Ids(s.objs)

\* The observer: granted and steady speak of the present state too.
Watched(s, w) ==
    s.at # "done" => /\ w.granted => Permitted(s.req)
                     /\ w.steady \subseteq Listable(s.req)

\* All of it for one handler s and what was observed for it, the tables spelled out.
ReadInv(s, w, n, ds, cs, vs) ==
    /\ RightPlace(s)
    /\ Confined(s)
    /\ Listed(s) => Whole(s)
    /\ ChainHeld(s, n, ds)
    /\ OnChain(s)
    /\ Smooth(s, w.granted, vs)
    /\ Steady(s, w.steady, ds, cs)

\* A later observation of the same request.
Less(w, v) == /\ w.granted => v.granted
              /\ w.steady \subseteq v.steady

-----------------------------------------------------------------------------
(* Rows and their ACLs *)

\* loadACLs has all ACL rows of each of its rows.
LEMMA LoadedAcls ==
    ASSUME NEW table, NEW rows, NEW id \in Ids(rows)
    PROVE  AclsOf(LoadACLs(table, rows), id) = AclsOf(table, id)
  BY DEF AclsOf, LoadACLs

\* A row goes only when its directory is deleted, empty.
LEMMA DirsGo ==
    ASSUME Next, NEW d \in dirs, d \notin dirs'
    PROVE  CanDeleteDirectory(d) /\ UNCHANGED configs
<1>1. ASSUME NEW id, DeleteDirectory(id)
      PROVE  CanDeleteDirectory(d) /\ UNCHANGED configs
  BY <1>1 DEF DeleteDirectory
<1> QED BY <1>1 DEF Next, CreateDirectory, UpdateDirectory, Insert, Update, Delete

\* A config path below a directory is a full path.
LEMMA UnderPath ==
    ASSUME NEW path \in ConfigPath, NEW e \in DirRow
    PROVE  Under(path, e) <=> e.full \in Components(rootNormalised(path))
<1>1. e.full \in Path /\ e.full \notin {Root, EmptyPath}
  BY PathAssumption DEF DirRow
<1>2. Components(Root) = {}
  BY <1>1, ParentPath
<1>3. CASE path \in {Root, EmptyPath}
  BY <1>1, <1>2, <1>3 DEF Under, rootNormalised
<1>4. CASE path \in Path
  <2>1. path \in Components(path) /\ path # EmptyPath
    BY <1>4, ComponentFacts, PathAssumption
  <2> QED BY <2>1 DEF Under, rootNormalised
<1> QED BY <1>3, <1>4 DEF ConfigPath

\* A directory with a config below it cannot go.
LEMMA Pinned ==
    ASSUME IInv, [Next]_vars, NEW d \in dirs, NEW c \in configs,
           d.full \in Components(rootNormalised(c.path))
    PROVE  d \in dirs'
<1> SUFFICES ASSUME Next, d \notin dirs' PROVE FALSE
  BY DEF vars
<1>1. c \in ConfigRow /\ d \in DirRow /\ d.full \in Path
  BY DEF IInv, TypeOK, DirRow
<1>2. c.path \in Path /\ d.full \in Components(c.path)
  <2>1. Components(Root) = {}
    BY <1>1, ParentPath
  <2>2. c.path \in ConfigPath
    BY <1>1 DEF ConfigRow
  <2> QED BY <2>1, <2>2 DEF ConfigPath, rootNormalised
<1>3. c.path = d.full \/ <<d.full, c.path>> \in LikePath
  BY <1>1, <1>2, LikeAssumption
<1>4. c \in ChildConfigs(d)
  BY <1>3 DEF ChildConfigs
<1> QED BY <1>4, DirsGo DEF CanDeleteDirectory

-----------------------------------------------------------------------------
(* The answer of a List *)

\* With a path all the paths above it are readable.
LEMMA ReadableParent ==
    ASSUME NEW rows, NEW acls, NEW tags, \A d \in rows : d.full \in Path,
           NEW p \in Path, p \in readableDirectories(rows, acls, tags)
    PROVE  Parent(p) \in readableDirectories(rows, acls, tags)
<1>1. \A q : q \in readableDirectories(rows, acls, tags) <=>
                /\ q \in {Root} \cup {d.full : d \in rows}
                /\ \A x \in Components(q) : Grants(rows, acls, tags, x)
  BY ReadableIsChain
<1>2. /\ Parent(p) \in Path \cup {Root}
      /\ Components(p) = Components(Parent(p)) \cup {p}
  BY ParentPath
<1>3. \A x \in Components(Parent(p)) : Grants(rows, acls, tags, x)
  BY <1>1, <1>2
<1>4. CASE Parent(p) = Root
  BY <1>1, <1>3, <1>4
<1>5. CASE Parent(p) \in Path
  <2>1. Parent(p) \in Components(Parent(p))
    BY <1>5, ComponentFacts
  <2>2. Parent(p) \in {d.full : d \in rows}
    BY <1>3, <2>1 DEF Grants
  <2> QED BY <1>1, <1>3, <2>2
<1> QED BY <1>2, <1>4, <1>5

\* The tree List builds from what it has read is whole.
LEMMA WholeTree ==
    ASSUME NEW s \in Handler, s.at = "configAcl", Confined(s),
           NEW t, t.req = s.req, t.objs = ListedConfigs(s),
           t.chain = ListedDirs(s), t.content = s.content
    PROVE  Whole(t)
<1> DEFINE R == readableDirectories(s.chain, s.chainAcl, s.req.tags)
           paths == {d.full : d \in t.chain}
           top == IF t.req.id = NoId THEN {Root}
                                     ELSE {d.full : d \in t.content} \cap paths
<1>1. /\ \A d \in s.chain : d.full \in Path
      /\ \A e \in s.content : e \in DirRow /\ e.full \in Path
      /\ s.content = {} <=> s.req.id = NoId
      /\ \A c \in s.objs : c.path \in ConfigPath /\ \A e \in s.content : Under(c.path, e)
  BY DEF Handler, Confined, DirRow, ConfigRow
<1>2. ASSUME NEW q \in R, q # Root PROVE \E d \in s.chain : d.full = q
  <2>1. q \in {Root} \cup {d.full : d \in s.chain}
    BY <1>1, <1>2, ReadableIsChain
  <2> QED BY <1>2, <2>1
<1>3. ASSUME NEW q \in R, q # Root,
             \A e \in s.content : e \in s.chain /\ e.full \in Components(q)
      PROVE  q \in paths
  <2>1. PICK d \in s.chain : d.full = q
    BY <1>2, <1>3
  <2>2. d \in t.chain
    BY <1>3, <2>1 DEF ListedDirs
  <2> QED BY <2>1, <2>2
<1>4. \A d \in t.chain : /\ d.full \in R /\ d.full \in Path
                         /\ \A e \in s.content : e \in s.chain /\ e.full \in Components(d.full)
  BY <1>1 DEF ListedDirs
<1>5. ASSUME NEW c \in t.objs PROVE rootNormalised(c.path) \in paths \cup top
  <2> DEFINE q == rootNormalised(c.path)
  <2>1. c \in s.objs /\ q \in R /\ s.content \subseteq s.chain
    BY <1>5 DEF ListedConfigs, AllowedConfigs
  <2>2. \A e \in s.content : e.full \in Components(q)
    BY <1>1, <2>1, UnderPath
  <2>3. CASE q # Root
    BY <1>3, <2>1, <2>2, <2>3
  <2>4. CASE q = Root
    <3>1. s.content = {}
      <4> SUFFICES ASSUME NEW e \in s.content PROVE FALSE
        OBVIOUS
      <4>1. Components(Root) = {}
        BY <1>1, ParentPath
      <4> QED BY <2>2, <2>4, <4>1
    <3> QED BY <1>1, <2>4, <3>1
  <2> QED BY <2>3, <2>4
<1>6. ASSUME NEW d \in t.chain
      PROVE  d.full \in top \/ Parent(d.full) \in paths \cup top
  <2>1. /\ Components(d.full) = Components(Parent(d.full)) \cup {d.full}
        /\ Components(Root) = {}
    BY <1>4, <1>6, ParentPath
  <2>2. Parent(d.full) \in R
    BY <1>1, <1>4, <1>6, ReadableParent
  <2>3. d.full \in paths
    BY <1>6
  <2>4. CASE s.req.id = NoId
    BY <1>1, <1>3, <2>2, <2>4
  <2>5. CASE s.req.id # NoId
    <3>1. PICK e \in s.content : TRUE
      BY <1>1, <2>5
    <3>2. CASE \E x \in s.content : x.full = d.full
      BY <2>3, <2>5, <3>2
    <3>3. CASE ~ \E x \in s.content : x.full = d.full
      <4>1. \A x \in s.content : x \in s.chain /\ x.full \in Components(Parent(d.full))
        BY <1>4, <1>6, <2>1, <3>3
      <4>2. Parent(d.full) # Root
        BY <2>1, <3>1, <4>1
      <4> QED BY <1>3, <2>2, <4>1, <4>2
    <3> QED BY <3>2, <3>3
  <2> QED BY <2>4, <2>5
<1> QED BY <1>5, <1>6 DEF Whole

-----------------------------------------------------------------------------
(* The observer *)

\* A request in flight: what is observed holds in the new state, and is no more
\* than was observed before.
LEMMA ObserveOn ==
    ASSUME Observe, NEW p \in Proc, h'[p].at # "done"
    PROVE  /\ Watched(h[p], seen[p])'
           /\ h[p].at # "done" => Less(seen'[p], seen[p])
<1>1. CASE h[p].at = "done"
  <2>1. seen'[p] = [granted |-> Permitted(h[p].req)', steady |-> Listable(h[p].req)']
    BY <1>1 DEF Observe
  <2> QED BY <1>1, <2>1 DEF Watched
<1>2. CASE h[p].at # "done"
  <2> DEFINE g == seen[p].granted /\ Permitted(h[p].req)'
  <2>1. seen'[p] = [granted |-> g, steady |-> seen[p].steady \cap Listable(h[p].req)']
    BY <1>2 DEF Observe
  <2> HIDE DEF g
  <2>2. seen'[p].granted = g
    BY <2>1
  <2>3. seen'[p].steady = seen[p].steady \cap Listable(h[p].req)'
    BY <2>1
  <2> QED BY <2>2, <2>3 DEF Watched, Less, g
<1> QED BY <1>1, <1>2

\* A request that is answered keeps what was observed; one refused at once has
\* nothing.
LEMMA ObserveDone ==
    ASSUME Observe, NEW p \in Proc, h'[p].at = "done"
    PROVE  \/ h[p].at # "done" /\ seen'[p] = seen[p]
           \/ h'[p] = h[p] /\ seen'[p] = seen[p]
           \/ /\ h[p].at = "done"
              /\ ~ seen'[p].granted /\ seen'[p].steady = {}
  BY DEF Observe

-----------------------------------------------------------------------------
(* What a handler has read stands while others commit *)

LEMMA ChainStays ==
    ASSUME TypeOK, TypeOK', [IdStep]_vars, NEW s \in Handler,
           ChainHeld(s, inode, dirs)
    PROVE  ChainHeld(s, inode', dirs')
<1> SUFFICES ASSUME s.at # "done", NEW d \in s.chain
             PROVE  d.id <= inode' /\ \A e \in dirs' : e.id = d.id => e = d
  BY DEF ChainHeld
<1>1. /\ inode \in Nat /\ inode' \in Nat /\ d.id \in Nat
      /\ \A e \in dirs' : e.id \in Nat
  BY DEF TypeOK, DirRow, Handler
<1>2. d.id <= inode /\ \A e \in dirs : e.id = d.id => e = d
  BY DEF ChainHeld
<1>3. inode' >= inode /\ \A e \in dirs' : e.id > inode \/ e \in dirs
  BY <1>1 DEF IdStep, vars
<1> QED BY <1>1, <1>2, <1>3

LEMMA SmoothStays ==
    ASSUME [VersionStep]_vars, NEW s, NEW g, NEW f, g => f,
           Smooth(s, f, contents),
           g /\ s.at # "done" => Permitted(s.req)'
    PROVE  Smooth(s, g, contents')
<1> SUFFICES ASSUME g, s.at \in {"objectAcl", "content"}, s.req.op = "GetConfig",
                    NEW o \in s.objs
             PROVE  \E v \in contents' : v.id = o.current /\ v.config = s.req.id
  BY DEF Smooth
<1>1. PICK v \in contents : v.id = o.current /\ v.config = s.req.id
  BY DEF Smooth
<1>2. s.req.id \in Ids(configs')
  BY DEF Permitted, AllowedConfigs, Ids
<1>3. v \in contents' \/ v.config \notin Ids(configs')
  BY <1>1, <1>2 DEF VersionStep, vars
<1> QED BY <1>1, <1>2, <1>3

\* A steady config is in the tables, all directories on its path too.
LEMMA ListableFacts ==
    ASSUME IInv, NEW r, NEW id \in Listable(r)
    PROVE  /\ r.op = "List"
           /\ \E c \in configs :
                 /\ c.id = id
                 /\ ConfigAllows(AclsOf(configAcl, id), r.tags, "READ")
                 /\ \A d \in dirs : d.id = r.id => Under(c.path, d)
                 /\ \A q \in Components(rootNormalised(c.path)) :
                       Grants(dirs, dirAcl, r.tags, q)
<1>1. r.op = "List" /\ \E c \in TreeConfigs(r.tags) :
                          c.id = id /\ \A d \in dirs : d.id = r.id => Under(c.path, d)
  BY DEF Listable
<1>2. PICK c \in TreeConfigs(r.tags) :
                          c.id = id /\ \A d \in dirs : d.id = r.id => Under(c.path, d)
  BY <1>1
<1>3. /\ c \in configs /\ ConfigAllows(AclsOf(configAcl, id), r.tags, "READ")
      /\ rootNormalised(c.path) \in readableDirectories(dirs, dirAcl, r.tags)
  BY <1>2 DEF TreeConfigs, AllowedConfigs
<1>4. \A d \in dirs : d.full \in Path
  BY DEF IInv, TypeOK, DirRow
<1>5. \A q \in Components(rootNormalised(c.path)) : Grants(dirs, dirAcl, r.tags, q)
  BY <1>3, <1>4, ReadableIsChain
<1> QED BY <1>1, <1>2, <1>3, <1>5

LEMMA SteadyStays ==
    ASSUME IInv, IInv', [Next]_vars, NEW s \in Handler, Confined(s),
           NEW st, NEW was, st \subseteq was, s.at # "done" => was \subseteq Listable(s.req),
           Steady(s, was, dirs, configs)
    PROVE  Steady(s, st, dirs', configs')
<1>1. TypeOK /\ TypeOK' /\ PathsUnique' /\ [IdStep]_vars
  BY NextIdStep DEF IInv, DirInv
<1>2. CASE s.at = "done"
  BY <1>2 DEF Steady
<1>3. CASE s.at # "done"
  <2>1. ASSUME NEW c \in configs', c.id \in st
        PROVE  \E b \in configs : /\ b.id = c.id /\ b.path = c.path /\ b.id \in was
                                  /\ \A q \in Components(rootNormalised(b.path)) :
                                        Grants(dirs, dirAcl, s.req.tags, q)
    <3>1. PICK b \in configs : /\ b.id = c.id
                               /\ \A q \in Components(rootNormalised(b.path)) :
                                    Grants(dirs, dirAcl, s.req.tags, q)
      BY <1>3, <2>1, ListableFacts
    <3>2. c.id \in 1 .. inode /\ inode \in Nat
      BY <3>1, IdFacts
    <3>3. \E e \in configs : e.id = c.id /\ e.path = c.path
      BY <1>1, <3>2 DEF IdStep, vars
    <3>4. UniqueIds(configs)
      BY DEF IInv, InodesDistinct
    <3> QED BY <2>1, <3>1, <3>3, <3>4 DEF UniqueIds
  <2>2. ASSUME s.at \in {"dirs", "dirAcl", "configs", "configAcl"}, st # {},
               NEW e \in s.content
        PROVE  e \in dirs'
    <3>1. e \in dirs /\ e.id = s.req.id
      BY <2>2 DEF Steady, Confined
    <3>2. PICK c \in configs : Under(c.path, e)
      BY <1>3, <2>2, <3>1, ListableFacts
    <3>3. e \in DirRow /\ c.path \in ConfigPath
      BY <1>1, <3>1 DEF TypeOK, ConfigRow
    <3>4. e.full \in Components(rootNormalised(c.path))
      BY <3>2, <3>3, UnderPath
    <3> QED BY <3>1, <3>4, Pinned
  <2>3. ASSUME s.at = "dirAcl", NEW c \in configs', c.id \in st, NEW d \in dirs',
               d.full \in Components(rootNormalised(c.path))
        PROVE  d \in s.chain
    <3>1. PICK b \in configs : /\ b.id = c.id /\ b.path = c.path /\ b.id \in was
                               /\ \A q \in Components(rootNormalised(b.path)) :
                                     Grants(dirs, dirAcl, s.req.tags, q)
      BY <2>1, <2>3
    <3>2. PICK e \in dirs : e.full = d.full
      BY <2>3, <3>1 DEF Grants
    <3>3. e \in dirs'
      BY <2>3, <3>1, <3>2, Pinned
    <3>4. e = d
      BY <1>1, <3>2, <3>3 DEF PathsUnique
    <3> QED BY <2>3, <3>1, <3>2, <3>4 DEF Steady
  <2>4. ASSUME s.at \in {"configs", "configAcl"}, NEW c \in configs', c.id \in st,
               NEW q \in Components(rootNormalised(c.path))
        PROVE  Grants(s.chain, s.chainAcl, s.req.tags, q)
    BY <2>1, <2>4 DEF Steady
  <2>5. ASSUME s.at = "configAcl", NEW c \in configs', c.id \in st
        PROVE  \E o \in s.objs : o.id = c.id /\ o.path = c.path
    BY <2>1, <2>5 DEF Steady
  <2>6. s.at \in {"dirAcl", "configs", "configAcl"} /\ st # {} => s.content \subseteq s.chain
    BY DEF Steady
  <2>7. ~ Listed(s)
    BY <1>3 DEF Listed
  <2> QED BY <2>2, <2>3, <2>4, <2>5, <2>6, <2>7 DEF Steady
<1> QED BY <1>2, <1>3

-----------------------------------------------------------------------------
(* The steps of a request for one object *)

Reads(p) == /\ ReadInv(h[p], seen[p], inode, dirs, configs, contents)
            /\ Watched(h[p], seen[p])

\* An answer without data: it is no tree, and refuses nothing that was granted.
LEMMA AnswerRead ==
    ASSUME NEW s, s.at = "done", s.code = "OK" => s.req.op # "List", NEW w,
           w.granted /\ s.req.op # "List" => s.code = "OK"
    PROVE  \A n, ds, cs, vs : ReadInv(s, w, n, ds, cs, vs)
  BY DEF ReadInv, RightPlace, Confined, Listed, ChainHeld, OnChain, Smooth, Steady

LEMMA AnswerFields ==
    ASSUME h \in [Proc -> Handler], NEW p \in Proc, NEW code, Answer(p, code)
    PROVE  h'[p].at = "done" /\ h'[p].code = code /\ h'[p].req = h[p].req
<1> DEFINE s == [Fresh(h[p].req) EXCEPT !.code = code]
<1>1. h'[p] = s
  BY DEF Answer
<1>2. s.at = "done" /\ s.code = code /\ s.req = h[p].req
  BY DEF Fresh
<1> QED BY <1>1, <1>2

LEMMA BecomeFields ==
    ASSUME h \in [Proc -> Handler], NEW p \in Proc, NEW s, Become(p, s)
    PROVE  h'[p] = s
  BY DEF Become

\* What a handler before its chain query is in: most of the invariant is about
\* later places.
LEMMA EarlyRead ==
    ASSUME NEW s, s.at \in {"object", "objectAcl", "content", "chain", "prefix"},
           NEW w, NEW n, NEW ds, NEW cs, NEW vs,
           RightPlace(s), ChainHeld(s, n, ds), Smooth(s, w.granted, vs)
    PROVE  ReadInv(s, w, n, ds, cs, vs)
  BY DEF ReadInv, Confined, Listed, OnChain, Steady

\* The object of a permitted request is there.
LEMMA PermittedObject ==
    ASSUME NEW r, Permitted(r)
    PROVE  /\ r.op \in ConfigOps => \E c \in configs : c.id = r.id
           /\ r.op \in DirOps => \E d \in dirs : d.id = r.id
  BY DEF Permitted, AllowedConfigs, ConfigOps, DirOps

LEMMA ReadObject ==
    ASSUME ApiInv, NEW p \in Proc, Reads(p), NEW w, Less(w, seen[p]), LoadObject(p)
    PROVE  ReadInv(h'[p], w, inode, dirs, configs, contents)
<1> DEFINE u == h[p]
           table == IF u.req.op \in ConfigOps THEN configs ELSE dirs
           rows == {o \in table : o.id = u.req.id}
           s == [u EXCEPT !.objs = rows, !.at = "objectAcl"]
<1>1. u \in Handler /\ h \in [Proc -> Handler] /\ u.at = "object"
  BY DEF ApiInv, HandlerOK, LoadObject
<1>2. /\ u.req.op \in ConfigOps \cup DirOps /\ ChainHeld(u, inode, dirs)
      /\ w.granted => Permitted(u.req)
  BY <1>1 DEF Reads, ReadInv, RightPlace, Watched, Less
<1>3. u.req.op # "List" /\ (u.req.op \in ConfigOps <=> u.req.op \notin DirOps)
  BY <1>2 DEF ConfigOps, DirOps
<1>4. w.granted => rows # {}
  BY <1>2, <1>3, PermittedObject
<1>5. CASE rows = {}
  <2>1. Answer(p, "NotFound")
    BY <1>5 DEF LoadObject
  <2>2. h'[p].at = "done" /\ h'[p].code = "NotFound" /\ h'[p].req = u.req
    BY <1>1, <2>1, AnswerFields
  <2> QED BY <1>4, <1>5, <2>2, AnswerRead
<1>6. CASE rows # {}
  <2>1. Become(p, s)
    BY <1>6 DEF LoadObject
  <2>2. h'[p] = s
    BY <1>1, <2>1, BecomeFields
  <2>3. u.req.op = "GetConfig" =>
           \A o \in rows : \E v \in contents : v.id = o.current /\ v.config = u.req.id
    <3>1. CurrentIsLatest
      BY DEF ApiInv, IInv, ConfigInv
    <3> QED BY <3>1 DEF CurrentIsLatest, ConfigOps
  <2> HIDE DEF rows
  <2>4. s.at = "objectAcl" /\ s.req = u.req /\ s.objs = rows /\ s.chain = u.chain
    BY <1>1 DEF Handler
  <2> HIDE DEF s, u
  <2>5. RightPlace(s) /\ ChainHeld(s, inode, dirs) /\ Smooth(s, w.granted, contents)
    BY <1>1, <1>2, <2>3, <2>4 DEF RightPlace, ChainHeld, Smooth
  <2> QED BY <2>2, <2>4, <2>5, EarlyRead
<1> QED BY <1>5, <1>6

LEMMA ReadObjectAcl ==
    ASSUME ApiInv, NEW p \in Proc, Reads(p), NEW w, Less(w, seen[p]), LoadObjectAcl(p)
    PROVE  ReadInv(h'[p], w, inode, dirs, configs, contents)
<1> DEFINE u == h[p]
           op == u.req.op
           table == IF op \in ConfigOps THEN configAcl ELSE dirAcl
           acls == LoadACLs(table, u.objs)
           next == IF op = "GetConfig" THEN "content"
                   ELSE IF op = "DeleteConfig" THEN "commit" ELSE "chain"
           s == [u EXCEPT !.objAcl = acls, !.at = next]
           Denied == /\ op \in {"UpdateConfig", "DeleteConfig"}
                     /\ AllowedConfigs(u.objs, acls, u.req.tags, "WRITE") = {}
<1>1. u \in Handler /\ h \in [Proc -> Handler] /\ u.at = "objectAcl" /\ HasObject(u)
  BY DEF ApiInv, HandlerOK, LoadObjectAcl
<1>2. /\ op \in ConfigOps \cup DirOps /\ ChainHeld(u, inode, dirs)
      /\ w.granted => Permitted(u.req) /\ Smooth(u, TRUE, contents)
  BY <1>1 DEF Reads, ReadInv, RightPlace, Watched, Less, Smooth
<1>3. op # "List" /\ (op \in ConfigOps <=> op \notin DirOps)
  BY <1>2 DEF ConfigOps, DirOps
<1>4. u.objs # {} /\ \A o \in u.objs : o.id = u.req.id
  BY <1>1, <1>2 DEF HasObject
<1>5. AclsOf(acls, u.req.id) = AclsOf(table, u.req.id)
  BY <1>4, LoadedAcls DEF Ids
<1>6. ASSUME NEW level, ConfigAllows(AclsOf(table, u.req.id), u.req.tags, level)
      PROVE  AllowedConfigs(u.objs, acls, u.req.tags, level) # {}
  BY <1>4, <1>5, <1>6 DEF AllowedConfigs
<1>7. ASSUME w.granted
      PROVE  /\ op = "GetConfig" => ConfigAllows(AclsOf(table, u.req.id), u.req.tags, "READ")
             /\ op \in {"UpdateConfig", "DeleteConfig"} =>
                   ConfigAllows(AclsOf(table, u.req.id), u.req.tags, "WRITE")
             /\ op \in DirOps \ ReadOps =>
                   DirAllows(AclsOf(table, u.req.id), u.req.tags, "WRITE")
  <2>1. Permitted(u.req)
    BY <1>2, <1>7
  <2> QED BY <2>1 DEF Permitted, AllowedConfigs, ConfigOps, DirOps, ReadOps
<1>8. CASE Denied
  <2>1. Answer(p, "PermissionDenied")
    BY <1>8 DEF LoadObjectAcl
  <2>2. h'[p].at = "done" /\ h'[p].code = "PermissionDenied" /\ h'[p].req = u.req
    BY <1>1, <2>1, AnswerFields
  <2>3. ~ w.granted
    BY <1>6, <1>7, <1>8
  <2> QED BY <2>2, <2>3, AnswerRead
<1>9. CASE ~ Denied
  <2>1. Become(p, s)
    BY <1>9 DEF LoadObjectAcl
  <2>2. h'[p] = s
    BY <1>1, <2>1, BecomeFields
  <2>3. w.granted => /\ op = "GetConfig" => AllowedConfigs(u.objs, acls, u.req.tags, "READ") # {}
                     /\ op \in DirOps \ ReadOps =>
                           DirAllows(AclsOf(acls, u.req.id), u.req.tags, "WRITE")
    BY <1>5, <1>6, <1>7
  <2> HIDE DEF acls
  <2>4. s.at = next /\ s.req = u.req /\ s.objs = u.objs /\ s.objAcl = acls
        /\ s.chain = u.chain
    BY <1>1 DEF Handler
  <2> HIDE DEF s, u
  <2>5. RightPlace(s) /\ ChainHeld(s, inode, dirs)
    BY <1>1, <1>2, <2>4 DEF RightPlace, ChainHeld, ConfigOps, DirOps, ReadOps
  <2>6. Smooth(s, w.granted, contents)
    BY <1>1, <1>2, <2>3, <2>4 DEF Smooth
  <2>7. CASE s.at = "commit"
    BY <2>2, <2>5, <2>6, <2>7
       DEF ReadInv, Confined, Listed, OnChain, Steady
  <2>8. CASE s.at # "commit"
    <3>1. s.at \in {"object", "objectAcl", "content", "chain", "prefix"}
      BY <2>4, <2>8
    <3> QED BY <2>2, <2>5, <2>6, <3>1, EarlyRead
  <2> QED BY <2>7, <2>8
<1> QED BY <1>8, <1>9

LEMMA ReadContent ==
    ASSUME ApiInv, NEW p \in Proc, Reads(p), NEW w, Less(w, seen[p]), LoadContent(p)
    PROVE  ReadInv(h'[p], w, inode, dirs, configs, contents)
<1> DEFINE u == h[p]
           wanted == IF u.req.version = NoId THEN TheObject(u).current
                                             ELSE u.req.version
           rows == {v \in contents : v.id = wanted /\ v.config = u.req.id}
           s == [u EXCEPT !.content = rows, !.at = "chain"]
<1>1. u \in Handler /\ h \in [Proc -> Handler] /\ u.at = "content" /\ HasObject(u)
  BY DEF ApiInv, HandlerOK, LoadContent
<1>2. /\ u.req.op = "GetConfig" /\ ChainHeld(u, inode, dirs)
      /\ w.granted => Permitted(u.req) /\ Smooth(u, TRUE, contents)
  BY <1>1 DEF Reads, ReadInv, RightPlace, Watched, Less, Smooth
<1>3. TheObject(u) \in u.objs
  BY <1>1, <1>2 DEF HasObject, TheObject, ConfigOps
<1>4. ASSUME w.granted
      PROVE  rows # {} /\ AllowedConfigs(u.objs, u.objAcl, u.req.tags, "READ") # {}
  <2>1. Permitted(u.req) /\ Smooth(u, TRUE, contents)
    BY <1>2, <1>4
  <2>2. u.req.version # NoId =>
           \E v \in contents : v.id = u.req.version /\ v.config = u.req.id
    BY <1>2, <2>1 DEF Permitted
  <2>3. /\ \A o \in u.objs : \E v \in contents : v.id = o.current /\ v.config = u.req.id
        /\ AllowedConfigs(u.objs, u.objAcl, u.req.tags, "READ") # {}
    BY <1>1, <1>2, <2>1 DEF Smooth
  <2> QED BY <1>3, <2>2, <2>3
<1>5. CASE \/ rows = {}
           \/ AllowedConfigs(u.objs, u.objAcl, u.req.tags, "READ") = {}
  <2>1. PICK code \in {"NotFound", "PermissionDenied"} : Answer(p, code)
    BY <1>5 DEF LoadContent
  <2>2. h'[p].at = "done" /\ h'[p].code = code /\ h'[p].req = u.req
    BY <1>1, <2>1, AnswerFields
  <2>3. ~ w.granted /\ code # "OK"
    BY <1>4, <1>5, <2>1
  <2> QED BY <2>2, <2>3, AnswerRead
<1>6. CASE /\ rows # {}
           /\ AllowedConfigs(u.objs, u.objAcl, u.req.tags, "READ") # {}
  <2>1. Become(p, s)
    BY <1>6 DEF LoadContent
  <2>2. h'[p] = s
    BY <1>1, <2>1, BecomeFields
  <2> HIDE DEF rows
  <2>3. s.at = "chain" /\ s.req = u.req /\ s.chain = u.chain
    BY <1>1 DEF Handler
  <2> HIDE DEF s, u
  <2>4. RightPlace(s) /\ ChainHeld(s, inode, dirs) /\ Smooth(s, w.granted, contents)
    BY <1>1, <1>2, <2>3 DEF RightPlace, ChainHeld, Smooth, DirOps
  <2> QED BY <2>2, <2>3, <2>4, EarlyRead
<1> QED BY <1>5, <1>6

\* What a permitted request finds at the path it looks up.
LEMMA PermittedTarget ==
    ASSUME ApiInv, NEW p \in Proc, h[p].at \in {"chain", "chainAcl"},
           RightPlace(h[p]), Permitted(h[p].req)
    PROVE  LET u == h[p]
               path == TargetPath(u)
               Allow(d, level) == DirAllows(AclsOf(dirAcl, d.id), u.req.tags, level)
           IN  /\ u.req.op # "CreateDirectory" =>
                     path \in ConfigPath /\ DirectoryExists(path)
               /\ u.req.op \in ReadOps \cup DirOps =>
                     \A d \in DirectoryChain(path) : Allow(d, "READ")
               /\ u.req.op \in {"CreateConfig", "UpdateConfig"} =>
                     \A d \in dirs : d.full = u.req.path => Allow(d, "WRITE")
               /\ u.req.op = "CreateDirectory" =>
                     \A d \in DirectoryChain(path) : Allow(d, "WRITE")
<1> DEFINE u == h[p]
           path == TargetPath(u)
           o == TheObject(u)
           Allow(d, level) == DirAllows(AclsOf(dirAcl, d.id), u.req.tags, level)
<1>1. u \in Handler /\ HasObject(u) /\ Held(u.req, u.objs, inode, dirs, configs) /\ TypeOK
  BY DEF ApiInv, IInv, HandlerOK, HeldRowsTrue, Held
<1>2. u.req.op \in ConfigOps \cup DirOps => o \in u.objs /\ o.id = u.req.id
  BY <1>1 DEF HasObject, TheObject
<1>3. CASE u.req.op = "GetConfig"
  <2>1. PICK c \in configs : c.id = u.req.id /\ pathReadable(c.path, u.req.tags)
    BY <1>3 DEF Permitted, AllowedConfigs
  <2>2. path = c.path
    BY <1>1, <1>2, <1>3, <2>1 DEF TargetPath, Held, ConfigOps
  <2>3. c.path \in ConfigPath
    BY <1>1 DEF TypeOK, ConfigRow
  <2> QED BY <1>3, <2>1, <2>2, <2>3 DEF pathReadable
<1>4. CASE u.req.op \in DirOps
  <2>1. PICK d \in dirs :
           /\ d.id = u.req.id
           /\ pathReadable(IF u.req.op = "GetDirectory" THEN d.full ELSE Parent(d.full),
                           u.req.tags)
    BY <1>4 DEF Permitted, DirOps
  <2>2. o = d
    BY <1>1, <1>2, <1>4, <2>1 DEF Held
  <2>3. path = IF u.req.op = "GetDirectory" THEN d.full ELSE Parent(d.full)
    BY <1>4, <2>2 DEF TargetPath, DirOps
  <2>4. d.full \in Path
    BY <1>1 DEF TypeOK, DirRow
  <2>5. path \in ConfigPath
    BY <2>3, <2>4, ParentPath DEF ConfigPath
  <2> QED BY <1>4, <2>1, <2>3, <2>5 DEF pathReadable, DirOps
<1>5. CASE u.req.op \in {"CreateConfig", "UpdateConfig"}
  <2>1. path = u.req.path /\ ChainWritable(u.req.path, u.req.tags) /\ CanCommit(u.req)
    BY <1>5 DEF TargetPath, Permitted
  <2>2. u.req.path \in ConfigPath
    <3>1. CASE u.req.op = "CreateConfig"
      BY <3>1, RequestAssumption DEF ApiInv, HandlerOK, Serving
    <3>2. CASE u.req.op = "UpdateConfig"
      BY <1>1, <2>1, <3>2 DEF CanCommit, CanUpdate, TypeOK, ConfigRow
    <3> QED BY <1>5, <3>1, <3>2
  <2> QED BY <1>5, <2>1, <2>2 DEF ChainWritable, ReadOps, DirOps
<1>6. CASE u.req.op = "CreateDirectory"
  <2>1. path = Parent(u.req.full)
        /\ AllAllow(DirectoryChain(Parent(u.req.full)), dirAcl, u.req.tags, "WRITE")
    BY <1>6 DEF TargetPath, Permitted
  <2> QED BY <1>6, <2>1 DEF AllAllow, ReadOps, DirOps
<1> QED BY <1>3, <1>4, <1>5, <1>6 DEF RightPlace, CreateOps

LEMMA ReadChain ==
    ASSUME ApiInv, NEW p \in Proc, Reads(p), NEW w, Less(w, seen[p]), LoadChain(p)
    PROVE  ReadInv(h'[p], w, inode, dirs, configs, contents)
<1> DEFINE u == h[p]
           path == TargetPath(u)
           rows == DirectoryChain(path)
           s == [u EXCEPT !.chain = rows, !.at = "chainAcl"]
<1>1. u \in Handler /\ h \in [Proc -> Handler] /\ u.at = "chain" /\ h'[p] = s
  BY BecomeFields DEF ApiInv, HandlerOK, LoadChain
<1>2. /\ RightPlace(u)
      /\ w.granted => Permitted(u.req) /\ Smooth(u, TRUE, contents)
  BY <1>1 DEF Reads, ReadInv, Watched, Less, Smooth
<1>3. rows \subseteq dirs
      /\ \A d \in rows : d.full \in Components(path) /\ path \notin {Root, EmptyPath}
  BY DEF DirectoryChain
<1>4. ASSUME w.granted, u.req.op # "CreateDirectory" PROVE Exists(path, rows)
  <2>1. path \in ConfigPath /\ DirectoryExists(path)
    BY <1>1, <1>2, <1>4, PermittedTarget
  <2>2. CASE path \in {Root, EmptyPath}
    BY <2>2 DEF Exists
  <2>3. CASE path \notin {Root, EmptyPath}
    <3>1. path \in Components(path)
      BY <2>1, <2>3, ComponentFacts DEF ConfigPath
    <3>2. PICK d \in dirs : d.full = path
      BY <2>1, <2>3 DEF DirectoryExists, DirPaths
    <3>3. d \in rows
      BY <2>3, <3>1, <3>2 DEF DirectoryChain
    <3> QED BY <3>2, <3>3 DEF Exists
  <2> QED BY <2>2, <2>3
<1>5. \A d \in rows : d.id <= inode /\ \A e \in dirs : e.id = d.id => e = d
  <2>1. UniqueIds(dirs) /\ \A d \in dirs : d.id \in 1 .. inode
    BY IdFacts DEF ApiInv, IInv, InodesDistinct
  <2> QED BY <1>3, <2>1 DEF UniqueIds
<1> HIDE DEF rows
<1>6. /\ s.at = "chainAcl" /\ s.req = u.req /\ s.objs = u.objs /\ s.objAcl = u.objAcl
      /\ s.chain = rows
  BY <1>1 DEF Handler
<1>7. TargetPath(s) = path
  BY <1>6 DEF TargetPath, TheObject
<1> HIDE DEF s, u, path
<1>8. RightPlace(s) /\ ChainHeld(s, inode, dirs) /\ OnChain(s)
  BY <1>1, <1>2, <1>3, <1>5, <1>6, <1>7 DEF RightPlace, ChainHeld, OnChain
<1>9. Smooth(s, w.granted, contents)
  BY <1>1, <1>2, <1>4, <1>6, <1>7 DEF Smooth
<1> QED BY <1>1, <1>6, <1>8, <1>9 DEF ReadInv, Confined, Listed, Steady

\* A row of the chain that has gone has no ACLs left, and grants everything.
LEMMA GoneIsOpen ==
    ASSUME IInv, NEW s, ChainHeld(s, inode, dirs), s.at # "done",
           NEW d \in s.chain, d \notin dirs
    PROVE  AclsOf(dirAcl, d.id) = {}
<1>1. d.id \notin Ids(dirs)
  BY DEF ChainHeld, Ids
<1> QED BY <1>1 DEF IInv, NoOrphans, AclsOf

LEMMA ReadChainAcl ==
    ASSUME ApiInv, NEW p \in Proc, Reads(p), NEW w, Less(w, seen[p]), LoadChainAcl(p)
    PROVE  ReadInv(h'[p], w, inode, dirs, configs, contents)
<1> DEFINE u == h[p]
           tags == u.req.tags
           path == TargetPath(u)
           acls == LoadACLs(dirAcl, u.chain)
           s == [u EXCEPT !.chainAcl = acls]
           t == [s EXCEPT !.at = "commit"]
           Allow(d, level) == DirAllows(AclsOf(dirAcl, d.id), tags, level)
<1>1. u \in Handler /\ h \in [Proc -> Handler] /\ u.at = "chainAcl" /\ IInv
  BY DEF ApiInv, HandlerOK, LoadChainAcl
<1>2. /\ RightPlace(u) /\ ChainHeld(u, inode, dirs) /\ OnChain(u)
      /\ w.granted => Permitted(u.req) /\ Smooth(u, TRUE, contents)
  BY <1>1 DEF Reads, ReadInv, Watched, Less, Smooth
<1>3. u.req.op \in CreateOps \cup DirOps \cup {"GetConfig", "UpdateConfig"}
  BY <1>1, <1>2 DEF RightPlace
<1>4. \A d \in u.chain : AclsOf(acls, d.id) = AclsOf(dirAcl, d.id)
  BY LoadedAcls DEF Ids
<1>5. ASSUME NEW d \in u.chain, NEW level
      PROVE  /\ d \notin dirs => DirAllows(AclsOf(acls, d.id), tags, level)
             /\ Allow(d, level) => DirAllows(AclsOf(acls, d.id), tags, level)
  BY <1>1, <1>2, <1>4, GoneIsOpen DEF DirAllows
<1>6. \A d \in u.chain : d \in dirs => d \in DirectoryChain(path)
  BY <1>1, <1>2 DEF OnChain, DirectoryChain
<1> HIDE DEF acls
<1>7. /\ s.req = u.req /\ s.objs = u.objs /\ s.objAcl = u.objAcl /\ s.chain = u.chain
      /\ s.chainAcl = acls /\ t.at = "commit" /\ t.req = u.req /\ t.chain = u.chain
  BY <1>1 DEF Handler
<1>8. TargetPath(s) = path
  BY <1>7 DEF TargetPath, TheObject
<1> HIDE DEF s, t, path
<1>9. ASSUME w.granted PROVE Gate(s)
  <2>1. Permitted(u.req) /\ Smooth(u, TRUE, contents)
    BY <1>2, <1>9
  <2>2. /\ u.req.op \in ReadOps \cup DirOps =>
              \A d \in DirectoryChain(path) : Allow(d, "READ")
        /\ u.req.op \in {"CreateConfig", "UpdateConfig"} =>
              \A d \in dirs : d.full = u.req.path => Allow(d, "WRITE")
        /\ u.req.op = "CreateDirectory" =>
              \A d \in DirectoryChain(path) : Allow(d, "WRITE")
    BY <1>1, <1>2, <2>1, PermittedTarget DEF path
  <2>3. /\ u.req.op # "CreateDirectory" => Exists(path, u.chain)
        /\ u.req.op \in DirOps \ ReadOps =>
              DirAllows(AclsOf(u.objAcl, u.req.id), tags, "WRITE")
    BY <1>1, <1>3, <2>1 DEF Smooth, path, CreateOps, DirOps
  <2>4. u.req.op \in ReadOps \cup DirOps =>
           /\ Exists(TargetPath(s), s.chain)
           /\ AllAllow(s.chain, s.chainAcl, tags, "READ")
    <3>1. u.req.op \in ReadOps \cup DirOps => u.req.op # "CreateDirectory"
      BY DEF ReadOps, DirOps
    <3> QED BY <1>5, <1>6, <1>7, <1>8, <2>2, <2>3, <3>1 DEF AllAllow
  <2>5. u.req.op \in {"CreateConfig", "UpdateConfig"} =>
           /\ Exists(u.req.path, s.chain)
           /\ AllAllow({d \in s.chain : d.full = u.req.path}, s.chainAcl, tags, "WRITE")
    <3>1. u.req.op \in {"CreateConfig", "UpdateConfig"} => path = u.req.path
      BY DEF path, TargetPath
    <3> QED BY <1>5, <1>7, <2>2, <2>3, <3>1 DEF AllAllow
  <2>6. u.req.op = "CreateDirectory" =>
           AllAllow(deepestExistingAncestor(s.chain), s.chainAcl, tags, "WRITE")
    BY <1>5, <1>6, <1>7, <2>2 DEF AllAllow, deepestExistingAncestor
  <2> HIDE DEF u
  <2> QED BY <1>7, <2>3, <2>4, <2>5, <2>6 DEF Gate
<1>10. CASE ~ Gate(s)
  <2>1. Answer(p, Refusal(s)) /\ Refusal(s) # "OK"
    BY <1>10 DEF LoadChainAcl, Refusal, s, acls
  <2>2. h'[p].at = "done" /\ h'[p].code = Refusal(s) /\ h'[p].req = u.req
    BY <1>1, <2>1, AnswerFields
  <2>3. ~ w.granted
    BY <1>9, <1>10
  <2> QED BY <2>1, <2>2, <2>3, AnswerRead
<1>11. CASE Gate(s) /\ u.req.op \in ReadOps
  <2>1. Answer(p, "OK")
    BY <1>7, <1>11 DEF LoadChainAcl, s, acls
  <2>2. h'[p].at = "done" /\ h'[p].code = "OK" /\ h'[p].req = u.req
    BY <1>1, <2>1, AnswerFields
  <2>3. u.req.op # "List"
    BY <1>11 DEF ReadOps
  <2> QED BY <2>2, <2>3, AnswerRead
<1>12. CASE Gate(s) /\ u.req.op \notin ReadOps
  <2>1. Become(p, t)
    BY <1>7, <1>12 DEF LoadChainAcl, s, t, acls
  <2>2. h'[p] = t
    BY <1>1, <2>1, BecomeFields
  <2> HIDE DEF u
  <2>3. RightPlace(t) /\ ChainHeld(t, inode, dirs)
    BY <1>1, <1>2, <1>3, <1>7, <1>12 DEF RightPlace, ChainHeld, ReadOps, DirOps
  <2> QED BY <1>7, <2>2, <2>3 DEF ReadInv, Confined, Listed, OnChain, Smooth, Steady
<1> QED BY <1>10, <1>11, <1>12

\* The call that panics is not one that could commit.
LEMMA PanicsAlone == \A r : Panics(r) => ~ CanCommit(r)
  BY DEF Panics, UpdatePanics, CanCommit, Ids

\* The transaction: it commits when the request is permitted.
LEMMA ReadCommit ==
    ASSUME ApiInv, NEW p \in Proc, Reads(p), NEW w, Less(w, seen[p]),
           Commit(p) \/ Rollback(p) \/ Panic(p) \/ CommitLost(p)
    PROVE  \A n, ds, cs, vs : ReadInv(h'[p], w, n, ds, cs, vs)
<1> DEFINE u == h[p]
<1>1. u \in Handler /\ h \in [Proc -> Handler] /\ u.at = "commit"
  BY DEF ApiInv, HandlerOK, Commit, Rollback, Panic, CommitLost
<1>2. /\ u.req.op \in CreateOps \cup (DirOps \ ReadOps) \cup {"UpdateConfig", "DeleteConfig"}
      /\ w.granted => Permitted(u.req)
  BY <1>1 DEF Reads, ReadInv, RightPlace, Watched, Less
<1>3. u.req.op # "List"
  BY <1>2 DEF CreateOps, DirOps
<1>4. Permitted(u.req) => CanCommit(u.req)
  <2>1. CASE u.req.op = "DeleteConfig"
    BY <2>1 DEF CanCommit
  <2>2. CASE u.req.op # "DeleteConfig"
    BY <1>2, <2>2 DEF Permitted, CreateOps, DirOps, ReadOps
  <2> QED BY <2>1, <2>2
<1>5. PICK code : Answer(p, code) /\ (CanCommit(u.req) => code = "OK")
  BY PanicsAlone DEF Commit, Rollback, Panic, CommitLost
<1>6. h'[p].at = "done" /\ h'[p].code = code /\ h'[p].req = u.req
  BY <1>1, <1>5, AnswerFields
<1> QED BY <1>2, <1>3, <1>4, <1>5, <1>6, AnswerRead

\* A request that arrives: nothing is read yet.
LEMMA ReadStart ==
    ASSUME ApiInv, NEW p \in Proc, Reads(p), Observe, Start(p)
    PROVE  ReadInv(h'[p], seen'[p], inode, dirs, configs, contents)
<1>1. h \in [Proc -> Handler] /\ h[p].at = "done"
  BY DEF ApiInv, HandlerOK, Start
<1>2. PICK r \in Request :
         \/ Become(p, [Fresh(r) EXCEPT !.code = "PermissionDenied"])
         \/ Become(p, [Fresh(r) EXCEPT !.at = FirstStep(r.op)])
  BY DEF Start
<1>3. CASE Become(p, [Fresh(r) EXCEPT !.code = "PermissionDenied"])
  <2>1. h'[p].at = "done" /\ h'[p].code = "PermissionDenied"
    BY <1>1, <1>3, BecomeFields DEF Fresh
  <2>2. \/ h'[p] = h[p] /\ seen'[p] = seen[p]
        \/ ~ seen'[p].granted
    BY <1>1, <2>1, ObserveDone
  <2>3. CASE h'[p] = h[p] /\ seen'[p] = seen[p]
    BY <2>3 DEF Reads
  <2>4. CASE ~ seen'[p].granted
    BY <2>1, <2>4, AnswerRead
  <2> QED BY <2>2, <2>3, <2>4
<1>4. CASE Become(p, [Fresh(r) EXCEPT !.at = FirstStep(r.op)])
  <2> DEFINE s == [Fresh(r) EXCEPT !.at = FirstStep(r.op)]
  <2>1. h'[p] = s
    BY <1>1, <1>4, BecomeFields
  <2>2. s.at = FirstStep(r.op) /\ s.req = r /\ s.chain = {}
    BY DEF Fresh
  <2> HIDE DEF s
  <2>3. \/ s.at = "object" /\ r.op \in ConfigOps \cup DirOps
        \/ s.at = "chain" /\ r.op \in CreateOps
        \/ s.at = "prefix"
    BY <2>2 DEF FirstStep
  <2>4. RightPlace(s) /\ ChainHeld(s, inode, dirs)
    BY <2>2, <2>3 DEF RightPlace, ChainHeld
  <2>5. Smooth(s, seen'[p].granted, contents)
    BY <2>2, <2>3 DEF Smooth, CreateOps, DirOps
  <2> QED BY <2>1, <2>3, <2>4, <2>5, EarlyRead
<1> QED BY <1>2, <1>3, <1>4

-----------------------------------------------------------------------------
(* The steps of a List *)

\* A List is never refused by the gates of other requests.
LEMMA ListRead ==
    ASSUME NEW s, s.at \in ListPlaces, s.req.op = "List",
           NEW w, NEW n, NEW ds, NEW cs, NEW vs,
           Confined(s), ChainHeld(s, n, ds), Steady(s, w.steady, ds, cs)
    PROVE  ReadInv(s, w, n, ds, cs, vs)
  BY DEF ReadInv, ListPlaces, RightPlace, Listed, OnChain, Smooth

\* What the steps of a List start from.
LEMMA ListFacts ==
    ASSUME ApiInv, NEW p \in Proc, Reads(p), NEW w, Less(w, seen[p]), h[p].at \in ListPlaces
    PROVE  /\ h[p] \in Handler /\ h \in [Proc -> Handler] /\ h[p].req.op = "List"
           /\ Confined(h[p]) /\ ChainHeld(h[p], inode, dirs)
           /\ Steady(h[p], seen[p].steady, dirs, configs)
           /\ w.steady \subseteq seen[p].steady
           /\ w.steady \subseteq Listable(h[p].req)
<1>1. h[p] \in Handler /\ h \in [Proc -> Handler] /\ h[p].req.op = "List"
  BY DEF ApiInv, HandlerOK, Serving
<1>2. h[p].at # "done"
  BY DEF ListPlaces
<1> QED BY <1>1, <1>2 DEF Reads, ReadInv, Watched, Less

\* A steady config as the tables have it.
LEMMA SteadyConfig ==
    ASSUME IInv, NEW r, NEW c \in configs, c.id \in Listable(r)
    PROVE  /\ ConfigAllows(AclsOf(configAcl, c.id), r.tags, "READ")
           /\ \A d \in dirs : d.id = r.id => Under(c.path, d)
           /\ \A q \in Components(rootNormalised(c.path)) :
                 Grants(dirs, dirAcl, r.tags, q)
<1>1. UniqueIds(configs)
  BY DEF IInv, InodesDistinct
<1> QED BY <1>1, ListableFacts DEF UniqueIds

LEMMA ReadPrefix ==
    ASSUME ApiInv, NEW p \in Proc, Reads(p), NEW w, Less(w, seen[p]), ListPrefix(p)
    PROVE  ReadInv(h'[p], w, inode, dirs, configs, contents)
<1> DEFINE u == h[p]
           rows == {d \in dirs : d.id = u.req.id}
           s == [u EXCEPT !.content = rows, !.at = "dirs"]
<1>1. u.at = "prefix" /\ u.at \in ListPlaces
  BY DEF ListPrefix, ListPlaces
<1>2. u \in Handler /\ h \in [Proc -> Handler] /\ u.req.op = "List"
      /\ ChainHeld(u, inode, dirs)
  BY <1>1, ListFacts
<1>3. CASE ~ (u.req.id = NoId \/ u.req.id \in Ids(dirs))
  <2>1. Answer(p, "NotFound")
    BY <1>3 DEF ListPrefix
  <2>2. h'[p].at = "done" /\ h'[p].code = "NotFound" /\ h'[p].req = u.req
    BY <1>2, <2>1, AnswerFields
  <2> QED BY <1>2, <2>2, AnswerRead
<1>4. CASE u.req.id = NoId \/ u.req.id \in Ids(dirs)
  <2>1. h'[p] = s
    BY <1>2, <1>4, BecomeFields DEF ListPrefix
  <2>2. \A e \in rows : e \in DirRow /\ e \in dirs /\ e.id = u.req.id /\ e.id # NoId
    BY ApiAssumption DEF ApiInv, IInv, TypeOK, DirRow
  <2>3. rows = {} <=> u.req.id = NoId
    BY <1>4, <2>2 DEF Ids
  <2> HIDE DEF rows
  <2>4. s.at = "dirs" /\ s.req = u.req /\ s.content = rows /\ s.chain = u.chain
    BY <1>2 DEF Handler
  <2> HIDE DEF s, u
  <2>5. Confined(s) /\ ChainHeld(s, inode, dirs)
    BY <1>1, <1>2, <2>2, <2>3, <2>4 DEF Confined, ChainHeld
  <2>6. Steady(s, w.steady, dirs, configs)
    BY <2>2, <2>4 DEF Steady, Listed
  <2>7. s.at \in ListPlaces
    BY <2>4 DEF ListPlaces
  <2> QED BY <1>2, <2>1, <2>4, <2>5, <2>6, <2>7, ListRead
<1> QED BY <1>3, <1>4

LEMMA ReadDirs ==
    ASSUME ApiInv, NEW p \in Proc, Reads(p), NEW w, Less(w, seen[p]), ListDirs(p)
    PROVE  ReadInv(h'[p], w, inode, dirs, configs, contents)
<1> DEFINE u == h[p]
           s == [u EXCEPT !.chain = dirs, !.at = "dirAcl"]
<1>1. u.at = "dirs" /\ u.at \in ListPlaces
  BY DEF ListDirs, ListPlaces
<1>2. /\ u \in Handler /\ h \in [Proc -> Handler] /\ u.req.op = "List" /\ Confined(u)
      /\ Steady(u, seen[p].steady, dirs, configs) /\ w.steady \subseteq seen[p].steady
  BY <1>1, ListFacts
<1>3. h'[p] = s
  BY <1>2, BecomeFields DEF ListDirs
<1>4. s.at = "dirAcl" /\ s.req = u.req /\ s.content = u.content /\ s.chain = dirs
  BY <1>2 DEF Handler
<1>5. UniqueIds(dirs) /\ \A d \in dirs : d.id \in 1 .. inode
  BY IdFacts DEF ApiInv, IInv, InodesDistinct
<1> HIDE DEF s, u
<1>6. Confined(s)
  BY <1>1, <1>2, <1>4 DEF Confined
<1>7. ChainHeld(s, inode, dirs)
  BY <1>4, <1>5 DEF ChainHeld, UniqueIds
<1>8. w.steady # {} => u.content \subseteq dirs
  BY <1>1, <1>2 DEF Steady
<1>9. Steady(s, w.steady, dirs, configs)
  BY <1>4, <1>8 DEF Steady, Listed
<1>10. s.at \in ListPlaces
  BY <1>4 DEF ListPlaces
<1> QED BY <1>2, <1>3, <1>4, <1>6, <1>7, <1>9, <1>10, ListRead

LEMMA ReadDirAcl ==
    ASSUME ApiInv, NEW p \in Proc, Reads(p), NEW w, Less(w, seen[p]), ListDirAcl(p)
    PROVE  ReadInv(h'[p], w, inode, dirs, configs, contents)
<1> DEFINE u == h[p]
           acls == LoadACLs(dirAcl, u.chain)
           s == [u EXCEPT !.chainAcl = acls, !.at = "configs"]
<1>1. u.at = "dirAcl" /\ u.at \in ListPlaces
  BY DEF ListDirAcl, ListPlaces
<1>2. /\ u \in Handler /\ h \in [Proc -> Handler] /\ u.req.op = "List" /\ Confined(u)
      /\ ChainHeld(u, inode, dirs)
      /\ Steady(u, seen[p].steady, dirs, configs) /\ w.steady \subseteq seen[p].steady
      /\ w.steady \subseteq Listable(u.req)
  BY <1>1, ListFacts
<1>3. h'[p] = s
  BY <1>2, BecomeFields DEF ListDirAcl
<1>4. \A d \in u.chain : AclsOf(acls, d.id) = AclsOf(dirAcl, d.id)
  BY LoadedAcls DEF Ids
<1> HIDE DEF acls
<1>5. /\ s.at = "configs" /\ s.req = u.req /\ s.content = u.content /\ s.chain = u.chain
      /\ s.chainAcl = acls
  BY <1>2 DEF Handler
<1> HIDE DEF s, u
<1>6. Confined(s) /\ ChainHeld(s, inode, dirs)
  BY <1>1, <1>2, <1>5 DEF Confined, ChainHeld
<1>7. ASSUME NEW c \in configs, c.id \in w.steady,
             NEW q \in Components(rootNormalised(c.path))
      PROVE  Grants(u.chain, acls, u.req.tags, q)
  <2>1. Grants(dirs, dirAcl, u.req.tags, q)
    BY <1>2, <1>7, SteadyConfig DEF ApiInv
  <2>2. PICK d \in dirs : d.full = q /\ DirAllows(AclsOf(dirAcl, d.id), u.req.tags, "READ")
    BY <2>1 DEF Grants
  <2>3. d \in u.chain
    BY <1>1, <1>2, <1>7, <2>2 DEF Steady
  <2> QED BY <1>4, <2>2, <2>3 DEF Grants
<1>8. w.steady # {} => u.content \subseteq dirs /\ u.content \subseteq u.chain
  BY <1>1, <1>2 DEF Steady
<1>9. Steady(s, w.steady, dirs, configs)
  BY <1>5, <1>7, <1>8 DEF Steady, Listed
<1>10. s.at \in ListPlaces
  BY <1>5 DEF ListPlaces
<1> QED BY <1>2, <1>3, <1>5, <1>6, <1>9, <1>10, ListRead

LEMMA ReadConfigs ==
    ASSUME ApiInv, NEW p \in Proc, Reads(p), NEW w, Less(w, seen[p]), ListConfigs(p)
    PROVE  ReadInv(h'[p], w, inode, dirs, configs, contents)
<1> DEFINE u == h[p]
           rows == {c \in configs : \A d \in u.content : Under(c.path, d)}
           s == [u EXCEPT !.objs = rows, !.at = "configAcl"]
<1>1. u.at = "configs" /\ u.at \in ListPlaces
  BY DEF ListConfigs, ListPlaces
<1>2. /\ u \in Handler /\ h \in [Proc -> Handler] /\ u.req.op = "List" /\ Confined(u)
      /\ ChainHeld(u, inode, dirs)
      /\ Steady(u, seen[p].steady, dirs, configs) /\ w.steady \subseteq seen[p].steady
      /\ w.steady \subseteq Listable(u.req)
  BY <1>1, ListFacts
<1>3. h'[p] = s
  BY <1>2, BecomeFields DEF ListConfigs
<1>4. \A c \in rows : c \in ConfigRow /\ \A e \in u.content : Under(c.path, e)
  BY DEF ApiInv, IInv, TypeOK
<1>5. w.steady # {} => u.content \subseteq dirs /\ u.content \subseteq u.chain
  BY <1>1, <1>2 DEF Steady
<1>6. ASSUME NEW c \in configs, c.id \in w.steady PROVE c \in rows
  <2>1. \A d \in dirs : d.id = u.req.id => Under(c.path, d)
    BY <1>2, <1>6, SteadyConfig DEF ApiInv
  <2>2. \A d \in u.content : d \in dirs /\ d.id = u.req.id
    BY <1>1, <1>2, <1>5, <1>6 DEF Confined
  <2> QED BY <2>1, <2>2
<1> HIDE DEF rows
<1>7. /\ s.at = "configAcl" /\ s.req = u.req /\ s.content = u.content /\ s.chain = u.chain
      /\ s.chainAcl = u.chainAcl /\ s.objs = rows
  BY <1>2 DEF Handler
<1> HIDE DEF s, u
<1>8. Confined(s) /\ ChainHeld(s, inode, dirs)
  BY <1>1, <1>2, <1>4, <1>7 DEF Confined, ChainHeld
<1>9. \A c \in configs : c.id \in w.steady =>
         \A q \in Components(rootNormalised(c.path)) :
            Grants(u.chain, u.chainAcl, u.req.tags, q)
  BY <1>1, <1>2 DEF Steady
<1>10. Steady(s, w.steady, dirs, configs)
  BY <1>5, <1>6, <1>7, <1>9 DEF Steady, Listed
<1>11. s.at \in ListPlaces
  BY <1>7 DEF ListPlaces
<1> QED BY <1>2, <1>3, <1>7, <1>8, <1>10, <1>11, ListRead

LEMMA ReadConfigAcl ==
    ASSUME ApiInv, NEW p \in Proc, Reads(p), NEW w, Less(w, seen[p]), ListConfigAcl(p)
    PROVE  ReadInv(h'[p], w, inode, dirs, configs, contents)
<1> DEFINE u == h[p]
           acls == LoadACLs(configAcl, u.objs)
           s == [u EXCEPT !.objAcl = acls]
           t == [Fresh(s.req) EXCEPT !.code = "OK", !.objs = ListedConfigs(s),
                                     !.chain = ListedDirs(s), !.content = s.content]
<1>1. u.at = "configAcl" /\ u.at \in ListPlaces
  BY DEF ListConfigAcl, ListPlaces
<1>2. /\ u \in Handler /\ h \in [Proc -> Handler] /\ u.req.op = "List" /\ Confined(u)
      /\ Steady(u, seen[p].steady, dirs, configs) /\ w.steady \subseteq seen[p].steady
      /\ w.steady \subseteq Listable(u.req)
  BY <1>1, ListFacts
<1>3. CASE MissingDirectory(s)
  <2>1. Answer(p, "Internal")
    BY <1>3 DEF ListConfigAcl
  <2>2. h'[p].at = "done" /\ h'[p].code = "Internal" /\ h'[p].req = u.req
    BY <1>2, <2>1, AnswerFields
  <2> QED BY <1>2, <2>2, AnswerRead
<1>4. CASE ~ MissingDirectory(s)
  <2>1. h'[p] = t
    BY <1>2, <1>4, BecomeFields DEF ListConfigAcl
  <2>2. \A o \in u.objs : AclsOf(acls, o.id) = AclsOf(configAcl, o.id)
    BY LoadedAcls DEF Ids
  <2>3. acls \subseteq AclRow
    BY RowTypes DEF ApiInv, IInv
  <2> HIDE DEF acls
  <2>4. /\ s \in Handler /\ s.at = "configAcl" /\ s.req = u.req /\ s.objs = u.objs
        /\ s.objAcl = acls /\ s.content = u.content /\ s.chain = u.chain
        /\ s.chainAcl = u.chainAcl
    BY <1>1, <1>2, <2>3 DEF Handler
  <2> HIDE DEF s
  <2>5. /\ t.at = "done" /\ t.code = "OK" /\ t.req = s.req
        /\ t.objs = ListedConfigs(s) /\ t.chain = ListedDirs(s) /\ t.content = s.content
    BY DEF Fresh
  <2> HIDE DEF t, u
  <2>6. Confined(s)
    BY <1>1, <1>2, <2>4 DEF Confined
  <2>7. Whole(t)
    BY <2>4, <2>5, <2>6, WholeTree
  <2>8. ASSUME NEW id \in w.steady PROVE id \in Ids(t.objs)
    <3>1. PICK c \in configs : c.id = id
      BY <1>2, <2>8, ListableFacts DEF ApiInv
    <3>2. ConfigAllows(AclsOf(configAcl, id), u.req.tags, "READ")
      BY <1>2, <2>8, <3>1, SteadyConfig DEF ApiInv
    <3>3. PICK o \in u.objs : o.id = id /\ o.path = c.path
      BY <1>1, <1>2, <2>8, <3>1 DEF Steady
    <3>4. o \in AllowedConfigs(s.objs, s.objAcl, s.req.tags, "READ")
      BY <2>2, <2>4, <3>2, <3>3 DEF AllowedConfigs
    <3> DEFINE q == rootNormalised(o.path)
    <3>5. \A x \in Components(q) : Grants(s.chain, s.chainAcl, s.req.tags, x)
      BY <1>1, <1>2, <2>4, <2>8, <3>1, <3>3 DEF Steady
    <3>6. q \in {Root} \cup {d.full : d \in s.chain}
      <4>1. o.path \in ConfigPath
        BY <1>1, <1>2, <3>3 DEF Confined, ConfigRow
      <4>2. CASE q = Root
        BY <4>2
      <4>3. CASE q # Root
        <5>1. q \in Path
          BY <4>1, <4>3 DEF rootNormalised, ConfigPath
        <5>2. q \in Components(q)
          BY <5>1, ComponentFacts
        <5> HIDE DEF q
        <5> QED BY <3>5, <5>2 DEF Grants
      <4> QED BY <4>2, <4>3
    <3>7. \A d \in s.chain : d.full \in Path
      BY <2>4 DEF Handler, DirRow
    <3>8. q \in readableDirectories(s.chain, s.chainAcl, s.req.tags)
      BY <3>5, <3>6, <3>7, ReadableIsChain
    <3>9. s.content \subseteq s.chain
      BY <1>1, <1>2, <2>4, <2>8 DEF Steady
    <3>10. o \in t.objs
      BY <2>5, <3>4, <3>8, <3>9 DEF ListedConfigs
    <3> QED BY <3>3, <3>10 DEF Ids
  <2>9. RightPlace(t) /\ Confined(t) /\ ChainHeld(t, inode, dirs) /\ OnChain(t)
    BY <2>5 DEF RightPlace, Confined, ChainHeld, OnChain
  <2>10. Smooth(t, w.granted, contents) /\ Steady(t, w.steady, dirs, configs)
    BY <1>2, <2>4, <2>5, <2>8 DEF Smooth, Steady
  <2> QED BY <2>1, <2>7, <2>9, <2>10 DEF ReadInv
<1> QED BY <1>3, <1>4

-----------------------------------------------------------------------------
(* The invariant *)

ApiReadInv == ApiInv /\ \A p \in Proc : Reads(p)

\* The handler that takes a step.
LEMMA OwnStep ==
    ASSUME ApiInv, NEW p \in Proc, Reads(p), Step(p), Observe
    PROVE  ReadInv(h'[p], seen'[p], inode', dirs', configs', contents')
<1>1. CASE Start(p)
  <2>1. UNCHANGED <<inode, dirs, configs, contents>>
    BY <1>1 DEF Start, vars
  <2> QED BY <1>1, <2>1, ReadStart
<1>2. CASE ~ Start(p)
  <2>1. h[p].at # "done"
    BY <1>2 DEF Step, LoadObject, LoadObjectAcl, LoadContent, LoadChain, LoadChainAcl,
                ListPrefix, ListDirs, ListDirAcl, ListConfigs, ListConfigAcl,
                Commit, Rollback, Panic, CommitLost
  <2>2. Less(seen'[p], seen[p])
    <3>1. CASE h'[p].at = "done"
      <4>1. seen'[p] = seen[p]
        BY <2>1, <3>1 DEF Observe
      <4> QED BY <4>1 DEF Less
    <3>2. CASE h'[p].at # "done"
      BY <2>1, <3>2, ObserveOn
    <3> QED BY <3>1, <3>2
  <2>3. CASE Commit(p) \/ Rollback(p) \/ Panic(p) \/ CommitLost(p)
    BY <2>2, <2>3, ReadCommit
  <2>4. CASE ~ (Commit(p) \/ Rollback(p) \/ Panic(p) \/ CommitLost(p))
    <3>1. UNCHANGED <<inode, dirs, configs, contents>>
      BY <1>2, <2>4 DEF Step, LoadObject, LoadObjectAcl, LoadContent, LoadChain,
                 LoadChainAcl, ListPrefix, ListDirs, ListDirAcl, ListConfigs,
                 ListConfigAcl, vars
    <3>2. ReadInv(h'[p], seen'[p], inode, dirs, configs, contents)
      BY <1>2, <2>2, <2>4, ReadObject, ReadObjectAcl, ReadContent, ReadChain, ReadChainAcl,
         ReadPrefix, ReadDirs, ReadDirAcl, ReadConfigs, ReadConfigAcl DEF Step
    <3> QED BY <3>1, <3>2
  <2> QED BY <2>3, <2>4
<1> QED BY <1>1, <1>2

\* The others.
LEMMA OtherStep ==
    ASSUME ApiInv, IInv', [Next]_vars, NEW q \in Proc, Reads(q), h'[q] = h[q], Observe
    PROVE  ReadInv(h'[q], seen'[q], inode', dirs', configs', contents')
<1>1. h[q] \in Handler /\ IInv /\ ReadInv(h[q], seen[q], inode, dirs, configs, contents)
  BY DEF ApiInv, HandlerOK, Reads
<1>2. CASE h[q].at = "done"
  <2>1. seen'[q] = seen[q]
    BY <1>2 DEF Observe
  <2> QED BY <1>1, <1>2, <2>1
          DEF ReadInv, Confined, RightPlace, ChainHeld, OnChain, Smooth, Steady
<1>3. CASE h[q].at # "done"
  <2>1. Watched(h[q], seen[q])' /\ Less(seen'[q], seen[q])
    BY <1>3, ObserveOn
  <2>2. TypeOK /\ TypeOK' /\ [IdStep]_vars /\ [VersionStep]_vars
    BY <1>1, NextIdStep, NextVersionStep DEF IInv
  <2>3. ChainHeld(h[q], inode', dirs')
    BY <1>1, <2>2, ChainStays DEF ReadInv
  <2>4. Smooth(h[q], seen'[q].granted, contents')
    <3>1. seen'[q].granted => seen[q].granted
      BY <2>1 DEF Less
    <3>2. seen'[q].granted => Permitted(h[q].req)'
      BY <1>3, <2>1 DEF Watched
    <3>3. Smooth(h[q], seen[q].granted, contents)
      BY <1>1 DEF ReadInv
    <3> QED BY <2>2, <3>1, <3>2, <3>3, SmoothStays
  <2>5. Steady(h[q], seen'[q].steady, dirs', configs')
    <3>1. seen'[q].steady \subseteq seen[q].steady
      BY <2>1 DEF Less
    <3>2. seen[q].steady \subseteq Listable(h[q].req)
      BY <1>3 DEF Reads, Watched
    <3>3. Steady(h[q], seen[q].steady, dirs, configs) /\ Confined(h[q])
      BY <1>1 DEF ReadInv
    <3> QED BY <1>1, <3>1, <3>2, <3>3, SteadyStays
  <2> QED BY <1>1, <2>3, <2>4, <2>5 DEF ReadInv
<1> QED BY <1>2, <1>3

LEMMA ApiReadInit == ApiInit => ApiReadInv
<1> SUFFICES ASSUME ApiInit PROVE ApiReadInv
  OBVIOUS
<1>1. ASSUME NEW p \in Proc PROVE Reads(p)
  <2>1. h[p].at = "done" /\ h[p].code = "none"
    BY DEF ApiInit, Fresh
  <2>2. ~ seen[p].granted
    BY DEF ApiInit
  <2> QED BY <2>1, <2>2, AnswerRead DEF Reads, Watched
<1> QED BY <1>1, ApiInitInv DEF ApiReadInv

LEMMA ApiReadNext == ApiReadInv /\ [ApiNext]_apiVars => ApiReadInv'
<1> SUFFICES ASSUME ApiReadInv, [ApiNext]_apiVars PROVE ApiReadInv'
  OBVIOUS
<1>1. ApiInv /\ ApiInv'
  BY ApiNextInv DEF ApiReadInv
<1>2. CASE UNCHANGED apiVars
  <2>1. UNCHANGED <<inode, dirs, dirAcl, configs, configAcl, contents, h, seen>>
    BY <1>2 DEF apiVars, vars
  <2>2. ASSUME NEW p \in Proc PROVE Reads(p)'
    <3>1. Listable(h[p].req)' = Listable(h[p].req)
      BY <2>1 DEF Listable, TreeConfigs, AllowedConfigs
    <3>2. CanCommit(h[p].req)' <=> CanCommit(h[p].req)
      BY <2>1 DEF CanCommit, CanInsert, CanUpdate, CanCreateDirectory, Missing,
         CanUpdateDirectory, CanDeleteDirectory, ChildDirs, ChildConfigs, DirectoryExists, DirPaths
    <3>3. /\ \A path, tags : pathReadable(path, tags)' <=> pathReadable(path, tags)
          /\ \A path, tags : ChainWritable(path, tags)' <=> ChainWritable(path, tags)
          /\ \A path : DirectoryChain(path)' = DirectoryChain(path)
      BY <2>1 DEF pathReadable, ChainWritable, DirectoryExists, DirectoryChain, DirPaths
    <3>4. Permitted(h[p].req)' <=> Permitted(h[p].req)
      BY <2>1, <3>2, <3>3 DEF Permitted, AllowedConfigs
    <3>5. Watched(h[p], seen[p])' <=> Watched(h[p], seen[p])
      BY <2>1, <3>1, <3>4 DEF Watched
    <3> QED BY <2>1, <3>5 DEF ApiReadInv, Reads
  <2> QED BY <1>1, <2>2 DEF ApiReadInv
<1>3. CASE ApiNext
  <2>1. PICK p \in Proc : Step(p)
    BY <1>3 DEF ApiNext
  <2>2. Observe /\ IInv /\ IInv' /\ HandlerOK /\ HeldRowsTrue /\ Checked
    BY <1>1, <1>3 DEF ApiNext, ApiInv, IInv
  <2>3. [Next]_vars /\ \A q \in Proc : q # p => h'[q] = h[q]
    BY <2>1, <2>2, StepIsNext, HandlerStep
  <2>4. ASSUME NEW q \in Proc PROVE Reads(q)'
    <3>1. Reads(q)
      BY DEF ApiReadInv
    <3>2. ReadInv(h'[q], seen'[q], inode', dirs', configs', contents')
      BY <1>1, <2>1, <2>2, <2>3, <3>1, OwnStep, OtherStep
    <3>3. Watched(h[q], seen[q])'
      <4>1. CASE h'[q].at = "done"
        BY <4>1 DEF Watched
      <4>2. CASE h'[q].at # "done"
        BY <2>2, <4>2, ObserveOn
      <4> QED BY <4>1, <4>2
    <3> QED BY <3>2, <3>3 DEF Reads
  <2> QED BY <1>1, <2>4 DEF ApiReadInv
<1> QED BY <1>2, <1>3

\* What every handler has read stands, in every reachable state, to the tables
\* as ReadInv says.
THEOREM ApiReadInvariant == ApiSpec => []ApiReadInv
  BY ApiReadInit, ApiReadNext, PTL DEF ApiSpec

\* A request that every state from its arrival to its answer would have granted
\* is not refused, whatever other requests do between its queries.
THEOREM ApiNoSpuriousRefusal == ApiSpec => []NoSpuriousRefusal
<1>1. ApiReadInv => NoSpuriousRefusal
  BY DEF ApiReadInv, Reads, ReadInv, Smooth, NoSpuriousRefusal
<1> QED BY <1>1, ApiReadInvariant, PTL

\* List shows every config that was there and readable all the time.
THEOREM ApiListComplete == ApiSpec => []ListComplete
<1>1. ApiReadInv => ListComplete
  BY DEF ApiReadInv, Reads, ReadInv, Steady, Listed, ListComplete, Answered
<1> QED BY <1>1, ApiReadInvariant, PTL

\* What List answers is one tree, although its four queries see four states.
THEOREM ApiListTree == ApiSpec => []ListTreeWhole
<1>1. ApiReadInv => ListTreeWhole
  BY DEF ApiReadInv, Reads, ReadInv, Whole, Listed, ListTreeWhole, Answered
<1> QED BY <1>1, ApiReadInvariant, PTL

=============================================================================
