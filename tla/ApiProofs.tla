----------------------------- MODULE ApiProofs -----------------------------
(***************************************************************************)
(* Proofs about Api, for any number of handlers, any set of requests that  *)
(* satisfies RequestAssumption and every database the store has written.   *)
(*                                                                         *)
(* A handler changes the tables by a transaction of Store or not at all,   *)
(* so the theorems of StoreProofs hold under every interleaving.  Because  *)
(* an id is never given out twice, the rows a handler holds stay true of   *)
(* their ids (HeldRowsTrue), and so the transaction that goes by the id    *)
(* meets the object that was checked.  Passed says which checks a handler  *)
(* has behind it where it is.                                              *)
(***************************************************************************)
EXTENDS Api, StoreProofs

\* The checks behind a handler: the allow-list once it has begun, WRITE on the
\* config once it has its ACLs, the hierarchical gates before the transaction.
Passed(s) ==
    /\ s.at # "done" => s.code = "none"
    /\ s.at # "done" /\ s.req.op \in CreateOps => canCreate(s.req.tags)
    /\ s.at = "content" => s.req.op = "GetConfig"
    /\ s.at \in {"chain", "chainAcl", "commit"}
          /\ s.req.op \in {"UpdateConfig", "DeleteConfig"} =>
             AllowedConfigs(s.objs, s.objAcl, s.req.tags, "WRITE") # {}
    /\ s.at = "commit" /\ s.req.op # "DeleteConfig" => Gate(s)
Checked == \A p \in Proc : Passed(h[p])

\* The inductive invariant.
ApiInv == IInv /\ HandlerOK /\ HeldRowsTrue /\ Checked

-----------------------------------------------------------------------------
(* The tables *)

\* A transaction of a handler is a transaction of the store; deleting a config
\* that has gone changes nothing.
LEMMA TransactionIsNext ==
    ASSUME IInv, NEW r \in Request, CanCommit(r), Transaction(r)
    PROVE  [Next]_vars
<1>1. CASE r.op = "CreateConfig"
  <2>1. PICK now \in Clock : Insert(r.path, r.name, r.content, r.acls, now)
    BY <1>1 DEF Transaction
  <2>2. r.path \in ConfigPath /\ r.name \in FileName /\ r.acls \in AclList
    BY <1>1, RequestAssumption
  <2>3. r.content \in Blob
    BY <1>1, RequestAssumption DEF CanCommit
  <2> QED BY <2>1, <2>2, <2>3 DEF Next
<1>2. CASE r.op = "UpdateConfig"
  <2>1. PICK now \in Clock :
           Update(r.id, r.path, r.name, r.content, r.acls, now)
    BY <1>2 DEF Transaction
  <2>2. PICK c \in configs : c.id = r.id /\ c.path = r.path /\ c.name = r.name
    BY <2>1 DEF Update, CanUpdate
  <2>3. r.content \in Blob \cup {NoContent} /\ r.acls \in AclList
    BY <1>2, RequestAssumption
  <2> QED BY <2>1, <2>2, <2>3 DEF Next
<1>3. CASE r.op = "DeleteConfig"
  <2>1. Delete(r.id)
    BY <1>3 DEF Transaction
  <2>2. CASE r.id \in Ids(configs)
    BY <2>1, <2>2 DEF Next
  <2>3. CASE r.id \notin Ids(configs)
    <3>1. /\ \A x \in configAcl : x.owner # r.id
          /\ \A v \in contents : v.config # r.id
          /\ \A c \in configs : c.id # r.id
      BY <2>3 DEF IInv, NoOrphans, Ids
    <3> QED BY <2>1, <3>1 DEF Delete, Disown, vars
  <2> QED BY <2>2, <2>3
<1>4. CASE r.op = "CreateDirectory"
  <2>1. r.full \in Path /\ r.acls \in AclList
    BY <1>4, RequestAssumption
  <2> QED BY <1>4, <2>1 DEF Transaction, Next
<1>5. CASE r.op = "UpdateDirectory"
  <2>1. UpdateDirectory(r.id, r.acls) /\ r.acls \in AclList
    BY <1>5, RequestAssumption DEF Transaction
  <2>2. r.id \in Ids(dirs)
    BY <2>1 DEF UpdateDirectory
  <2> QED BY <2>1, <2>2 DEF Next
<1>6. CASE r.op = "DeleteDirectory"
  <2>1. DeleteDirectory(r.id)
    BY <1>6 DEF Transaction
  <2>2. r.id \in Ids(dirs)
    BY <2>1 DEF DeleteDirectory, Ids
  <2> QED BY <2>1, <2>2 DEF Next
<1> QED BY <1>1, <1>2, <1>3, <1>4, <1>5, <1>6 DEF Transaction

\* Every step of a handler is a transaction of the store or leaves the tables.
LEMMA StepIsNext ==
    ASSUME IInv, HandlerOK, NEW p \in Proc, Step(p)
    PROVE  [Next]_vars
<1>1. CASE Commit(p)
  <2>1. h[p].req \in Request
    BY <1>1 DEF Commit, HandlerOK, Serving
  <2> QED BY <1>1, <2>1, TransactionIsNext DEF Commit
<1>2. ASSUME UNCHANGED vars PROVE [Next]_vars
  BY <1>2
<1> QED BY <1>1, <1>2 DEF Step, Start, LoadObject, LoadObjectAcl, LoadContent,
             LoadChain, LoadChainAcl, ListPrefix, ListDirs, ListDirAcl,
             ListConfigs, ListConfigAcl, Rollback, Panic, CommitLost

-----------------------------------------------------------------------------
(* The handlers *)

Good(s) == /\ s \in Handler
           /\ Serving(s) /\ HasObject(s) /\ HasDirectory(s)
           /\ Passed(s)

\* Where the objects of a handler s come from that was u before: it has none,
\* keeps those it had, or has just read them; those of a List are its answer.
ObjsFrom(u, s) ==
    \/ s.objs = {}
    \/ s.req = u.req /\ s.objs = u.objs
    \/ s.req.op = "List"
    \/ /\ UNCHANGED vars
       /\ s.req.op \in ConfigOps => s.objs \subseteq configs
       /\ s.req.op \in DirOps => s.objs \subseteq dirs

\* One handler changes its state at a time.
LEMMA BecomeFacts ==
    ASSUME h \in [Proc -> Handler], NEW p \in Proc, NEW s \in Handler,
           h' = [h EXCEPT ![p] = s]
    PROVE  /\ h' \in [Proc -> Handler]
           /\ h'[p] = s
           /\ \A q \in Proc : q # p => h'[q] = h[q]
  OBVIOUS

\* A handler that has answered holds nothing.
LEMMA FreshGood ==
    ASSUME NEW r \in Request \cup {NoRequest}, NEW code \in Codes
    PROVE  /\ Good([Fresh(r) EXCEPT !.code = code])
           /\ [Fresh(r) EXCEPT !.code = code].objs = {}
  BY DEF Good, Handler, Places, ListPlaces, Serving, HasObject, HasDirectory, Passed,
         Fresh

LEMMA StartGood ==
    ASSUME NEW r \in Request, r.op \in CreateOps => canCreate(r.tags)
    PROVE  /\ Good([Fresh(r) EXCEPT !.at = FirstStep(r.op)])
           /\ [Fresh(r) EXCEPT !.at = FirstStep(r.op)].objs = {}
<1> DEFINE s == [Fresh(r) EXCEPT !.at = FirstStep(r.op)]
<1>1. FirstStep(r.op) \in {"object", "chain", "prefix"}
  BY DEF FirstStep
<1>2. /\ s \in Handler /\ s.req = r /\ s.at = FirstStep(r.op) /\ s.objs = {}
      /\ s.code = "none"
  BY <1>1 DEF Handler, Places, Codes, Fresh
<1>3. r.op \in ConfigOps \cup DirOps \cup CreateOps \cup {"List"}
  BY RequestAssumption
<1> HIDE DEF s
<1>4. s.at = "prefix" => r.op = "List"
  BY <1>2, <1>3 DEF FirstStep
<1>5. s.at \in {"object", "chain", "prefix"}
      /\ (r.op \in ConfigOps \cup DirOps => s.at = "object")
  BY <1>1, <1>2 DEF FirstStep
<1>6. Passed(s)
  BY <1>2, <1>5 DEF Passed, ConfigOps
<1>7. Good(s)
  BY <1>2, <1>4, <1>5, <1>6 DEF Good, ListPlaces, Serving, HasObject, HasDirectory
<1> QED BY <1>2, <1>7 DEF s

\* What a handler reads has its type.
LEMMA RowTypes ==
    ASSUME TypeOK
    PROVE  /\ dirs \subseteq DirRow /\ configs \subseteq ConfigRow
           /\ contents \subseteq ContentRow
           /\ \A path : DirectoryChain(path) \subseteq DirRow
           /\ \A rows : LoadACLs(dirAcl, rows) \subseteq AclRow
           /\ \A rows : LoadACLs(configAcl, rows) \subseteq AclRow
  BY DEF TypeOK, LoadACLs, DirectoryChain

\* The steps of a List do not concern the objects of other requests.
LEMMA ListGood ==
    ASSUME NEW u \in Handler, Serving(u), Passed(u), u.at \in ListPlaces,
           NEW s \in Handler, s.req = u.req, s.code = u.code, s.at \in ListPlaces
    PROVE  Good(s) /\ ObjsFrom(u, s)
<1>1. s.req \in Request /\ s.req.op = "List" /\ s.at \notin {"commit", "done"}
  BY DEF Serving, ListPlaces
<1>2. Passed(s)
  BY <1>1 DEF Passed, ListPlaces, CreateOps
<1> QED BY <1>1, <1>2
        DEF Good, Serving, HasObject, HasDirectory, ObjsFrom, ConfigOps, DirOps

\* The handlers Step(p) may leave u as: in order, and not with the status of a
\* panic unless that is what happened.
Reached(p, u, s) ==
    /\ Good(s) /\ ObjsFrom(u, s)
    /\ s.code = "Unknown" => Panic(p) /\ s.req = u.req

\* Each step of a handler leaves it in order.
LEMMA GoodStep ==
    ASSUME TypeOK, HandlerOK, Checked, NEW p \in Proc, Step(p)
    PROVE  \E s : Reached(p, h[p], s) /\ h' = [h EXCEPT ![p] = s]
<1> DEFINE Moves == \E s : Reached(p, h[p], s) /\ h' = [h EXCEPT ![p] = s]
<1>1. PICK u \in Handler : /\ u = h[p]
                           /\ Serving(u) /\ HasObject(u) /\ HasDirectory(u)
                           /\ Passed(u)
  BY DEF HandlerOK, Checked
<1>2. u.req \in Request \cup {NoRequest}
  BY DEF Handler
<1>3. ASSUME NEW s, Good(s), ObjsFrom(u, s), h' = [h EXCEPT ![p] = s],
             s.at # "done" \/ s.code # "Unknown"
      PROVE  Moves
  <2>1. s.code # "Unknown"
    BY <1>3 DEF Good, Passed
  <2> QED BY <1>1, <1>3, <2>1 DEF Reached
<1>4. ASSUME NEW code \in Codes, Answer(p, code), code = "Unknown" => Panic(p)
      PROVE  Moves
  <2> DEFINE s == [Fresh(u.req) EXCEPT !.code = code]
  <2>1. h' = [h EXCEPT ![p] = s]
    BY <1>1, <1>4 DEF Answer
  <2>2. Good(s) /\ ObjsFrom(u, s)
    BY <1>2, FreshGood DEF ObjsFrom
  <2>3. s.code = code /\ s.req = u.req
    BY DEF Fresh
  <2> HIDE DEF s
  <2> QED BY <1>1, <1>4, <2>1, <2>2, <2>3 DEF Reached
<1>5. "OK" \in Codes /\ "NotFound" \in Codes /\ "PermissionDenied" \in Codes
      /\ "Internal" \in Codes
  BY DEF Codes
<1> HIDE DEF Moves
<1> SUFFICES Moves
  BY DEF Moves
<1>6. CASE Start(p)
  <2>1. PICK r \in Request :
           \/ Become(p, [Fresh(r) EXCEPT !.code = "PermissionDenied"])
           \/ /\ r.op \in CreateOps => canCreate(r.tags)
              /\ Become(p, [Fresh(r) EXCEPT !.at = FirstStep(r.op)])
    BY <1>6 DEF Start
  <2>2. /\ Good([Fresh(r) EXCEPT !.code = "PermissionDenied"])
        /\ ObjsFrom(u, [Fresh(r) EXCEPT !.code = "PermissionDenied"])
        /\ [Fresh(r) EXCEPT !.code = "PermissionDenied"].code = "PermissionDenied"
    BY <1>5, FreshGood DEF ObjsFrom, Fresh
  <2>3. /\ [Fresh(r) EXCEPT !.at = FirstStep(r.op)].code = "none"
        /\ (r.op \in CreateOps => canCreate(r.tags)) =>
              /\ Good([Fresh(r) EXCEPT !.at = FirstStep(r.op)])
              /\ ObjsFrom(u, [Fresh(r) EXCEPT !.at = FirstStep(r.op)])
    BY StartGood DEF ObjsFrom, Fresh
  <2>4. CASE Become(p, [Fresh(r) EXCEPT !.code = "PermissionDenied"])
    BY <1>3, <2>2, <2>4 DEF Become
  <2>5. CASE /\ r.op \in CreateOps => canCreate(r.tags)
             /\ Become(p, [Fresh(r) EXCEPT !.at = FirstStep(r.op)])
    BY <1>3, <2>3, <2>5 DEF Become
  <2> QED BY <2>1, <2>4, <2>5
<1>7. CASE LoadObject(p)
  <2> DEFINE table == IF u.req.op \in ConfigOps THEN configs ELSE dirs
             rows == {o \in table : o.id = u.req.id}
             s == [u EXCEPT !.objs = rows, !.at = "objectAcl"]
  <2>1. \/ Answer(p, "NotFound")
        \/ rows # {} /\ h' = [h EXCEPT ![p] = s]
    BY <1>1, <1>7 DEF LoadObject, Become
  <2>2. rows \subseteq ConfigRow \cup DirRow /\ \A o \in rows : o.id = u.req.id
    BY RowTypes
  <2>3. /\ UNCHANGED vars
        /\ u.req.op \in ConfigOps => rows \subseteq configs
        /\ u.req.op \in DirOps => rows \subseteq dirs
    BY <1>7 DEF LoadObject, ConfigOps, DirOps
  <2>4. u.at = "object"
    BY <1>1, <1>7 DEF LoadObject
  <2> HIDE DEF rows
  <2>5. /\ s \in Handler /\ s.req = u.req /\ s.at = "objectAcl"
        /\ s.objs = rows /\ s.code = u.code
    BY <2>2 DEF Handler, Places
  <2> HIDE DEF s
  <2>6. rows # {} => Good(s)
    BY <1>1, <2>2, <2>4, <2>5
       DEF Good, Serving, HasObject, HasDirectory, Passed, ListPlaces
  <2>7. ObjsFrom(u, s)
    BY <2>3, <2>5 DEF ObjsFrom
  <2> QED BY <1>3, <1>4, <1>5, <2>1, <2>5, <2>6, <2>7
<1>8. CASE LoadObjectAcl(p)
  <2> DEFINE op == u.req.op
             acls == LoadACLs(IF op \in ConfigOps THEN configAcl ELSE dirAcl, u.objs)
             next == IF op = "GetConfig" THEN "content"
                     ELSE IF op = "DeleteConfig" THEN "commit" ELSE "chain"
             s == [u EXCEPT !.objAcl = acls, !.at = next]
  <2>1. \/ Answer(p, "PermissionDenied")
        \/ /\ h' = [h EXCEPT ![p] = s]
           /\ op \in {"UpdateConfig", "DeleteConfig"} =>
                 AllowedConfigs(u.objs, acls, u.req.tags, "WRITE") # {}
    BY <1>1, <1>8 DEF LoadObjectAcl, Become
  <2>2. acls \subseteq AclRow
    BY RowTypes
  <2>3. u.at = "objectAcl"
    BY <1>1, <1>8 DEF LoadObjectAcl
  <2>4. next \in {"content", "commit", "chain"}
        /\ (next = "commit" => op = "DeleteConfig")
        /\ (next = "content" => op = "GetConfig")
    OBVIOUS
  <2> HIDE DEF acls, next
  <2>5. /\ s \in Handler /\ s.req = u.req /\ s.at = next /\ s.objs = u.objs
        /\ s.code = u.code /\ s.objAcl = acls
    BY <2>2, <2>4 DEF Handler, Places
  <2> HIDE DEF s
  <2>6. CASE Answer(p, "PermissionDenied")
    BY <1>4, <1>5, <2>6
  <2>7. CASE h' = [h EXCEPT ![p] = s]
             /\ (op \in {"UpdateConfig", "DeleteConfig"} =>
                    AllowedConfigs(u.objs, acls, u.req.tags, "WRITE") # {})
    <3>1. Passed(s)
      BY <1>1, <2>3, <2>4, <2>5, <2>7 DEF Passed
    <3>2. Good(s) /\ ObjsFrom(u, s)
      BY <1>1, <2>3, <2>4, <2>5, <3>1
         DEF Good, Serving, HasObject, HasDirectory, ListPlaces, ObjsFrom
    <3> QED BY <1>3, <2>4, <2>5, <2>7, <3>2
  <2> QED BY <2>1, <2>6, <2>7
<1>9. CASE LoadContent(p)
  <2> DEFINE wanted == IF u.req.version = NoId THEN TheObject(u).current
                                              ELSE u.req.version
             rows == {v \in contents : v.id = wanted /\ v.config = u.req.id}
             s == [u EXCEPT !.content = rows, !.at = "chain"]
  <2>1. \/ Answer(p, "NotFound") \/ Answer(p, "PermissionDenied")
        \/ h' = [h EXCEPT ![p] = s]
    BY <1>1, <1>9 DEF LoadContent, Become
  <2>2. rows \subseteq ContentRow
    BY RowTypes
  <2>3. u.at = "content"
    BY <1>1, <1>9 DEF LoadContent
  <2> HIDE DEF rows
  <2>4. /\ s \in Handler /\ s.req = u.req /\ s.at = "chain" /\ s.objs = u.objs
        /\ s.code = u.code
    BY <2>2 DEF Handler, Places
  <2> HIDE DEF s
  <2>5. Good(s) /\ ObjsFrom(u, s)
    BY <1>1, <2>3, <2>4
       DEF Good, Serving, HasObject, HasDirectory, Passed, CreateOps, ListPlaces, ObjsFrom
  <2> QED BY <1>3, <1>4, <1>5, <2>1, <2>4, <2>5
<1>10. CASE LoadChain(p)
  <2> DEFINE rows == DirectoryChain(TargetPath(u))
             s == [u EXCEPT !.chain = rows, !.at = "chainAcl"]
  <2>1. h' = [h EXCEPT ![p] = s]
    BY <1>1, <1>10 DEF LoadChain, Become
  <2>2. rows \subseteq DirRow
    BY RowTypes
  <2>3. u.at = "chain"
    BY <1>1, <1>10 DEF LoadChain
  <2> HIDE DEF rows
  <2>4. /\ s \in Handler /\ s.req = u.req /\ s.at = "chainAcl" /\ s.objs = u.objs
        /\ s.code = u.code /\ s.objAcl = u.objAcl
    BY <2>2 DEF Handler, Places
  <2> HIDE DEF s
  <2>5. Passed(s)
    BY <1>1, <2>3, <2>4 DEF Passed
  <2>6. Good(s) /\ ObjsFrom(u, s)
    BY <1>1, <2>3, <2>4, <2>5
       DEF Good, Serving, HasObject, HasDirectory, ListPlaces, ObjsFrom
  <2> QED BY <1>3, <2>1, <2>4, <2>6
<1>11. CASE LoadChainAcl(p)
  <2> DEFINE acls == LoadACLs(dirAcl, u.chain)
             s == [u EXCEPT !.chainAcl = acls]
             t == [s EXCEPT !.at = "commit"]
  <2>1. \/ Answer(p, Refusal(s)) \/ Answer(p, "OK")
        \/ Gate(s) /\ h' = [h EXCEPT ![p] = t]
    BY <1>1, <1>11 DEF LoadChainAcl, Become
  <2>2. acls \subseteq AclRow
    BY RowTypes
  <2>3. u.at = "chainAcl"
    BY <1>1, <1>11 DEF LoadChainAcl
  <2> HIDE DEF acls
  <2>4. /\ s.req = u.req /\ s.chain = u.chain
        /\ t \in Handler /\ t.req = u.req /\ t.at = "commit" /\ t.objs = u.objs
        /\ t.chain = u.chain /\ t.code = u.code /\ t.objAcl = u.objAcl
    BY <2>2 DEF Handler, Places
  <2>5. /\ s.objs = t.objs /\ s.objAcl = t.objAcl /\ s.req = t.req
        /\ s.chain = t.chain /\ s.chainAcl = t.chainAcl
    BY DEF Handler
  <2> HIDE DEF s, t
  <2>6. Refusal(s) \in Codes /\ Refusal(s) # "Unknown"
    BY DEF Refusal, Codes
  <2>7. ASSUME Gate(s) PROVE Good(t) /\ ObjsFrom(u, t)
    <3>1. t.req.op \in {"CreateConfig", "UpdateConfig"} => Exists(t.req.path, t.chain)
      BY <2>4, <2>7 DEF Gate
    <3>2. Gate(t)
      BY <2>5, <2>7 DEF Gate, TargetPath, TheObject
    <3>3. Passed(t)
      BY <1>1, <2>3, <2>4, <3>2 DEF Passed
    <3> QED BY <1>1, <2>3, <2>4, <3>1, <3>3
            DEF Good, Serving, HasObject, HasDirectory, ListPlaces, ObjsFrom
  <2> QED BY <1>3, <1>4, <1>5, <2>1, <2>4, <2>6, <2>7
<1>12. CASE ListPrefix(p)
  <2> DEFINE rows == {d \in dirs : d.id = u.req.id}
             s == [u EXCEPT !.content = rows, !.at = "dirs"]
  <2>1. Answer(p, "NotFound") \/ h' = [h EXCEPT ![p] = s]
    BY <1>1, <1>12 DEF ListPrefix, Become
  <2>2. rows \subseteq DirRow
    BY RowTypes
  <2>3. u.at = "prefix"
    BY <1>1, <1>12 DEF ListPrefix
  <2> HIDE DEF rows
  <2>4. s \in Handler /\ s.req = u.req /\ s.at = "dirs" /\ s.code = u.code
    BY <2>2 DEF Handler, Places
  <2> HIDE DEF s
  <2>5. Good(s) /\ ObjsFrom(u, s)
    BY <1>1, <2>3, <2>4, ListGood DEF ListPlaces
  <2> QED BY <1>3, <1>4, <1>5, <2>1, <2>4, <2>5
<1>13. CASE ListDirs(p)
  <2> DEFINE s == [u EXCEPT !.chain = dirs, !.at = "dirAcl"]
  <2>1. h' = [h EXCEPT ![p] = s]
    BY <1>1, <1>13 DEF ListDirs, Become
  <2>2. dirs \subseteq DirRow
    BY RowTypes
  <2>3. u.at = "dirs"
    BY <1>1, <1>13 DEF ListDirs
  <2>4. s \in Handler /\ s.req = u.req /\ s.at = "dirAcl" /\ s.code = u.code
    BY <2>2 DEF Handler, Places
  <2> HIDE DEF s
  <2>5. Good(s) /\ ObjsFrom(u, s)
    BY <1>1, <2>3, <2>4, ListGood DEF ListPlaces
  <2> QED BY <1>3, <2>1, <2>4, <2>5
<1>14. CASE ListDirAcl(p)
  <2> DEFINE acls == LoadACLs(dirAcl, u.chain)
             s == [u EXCEPT !.chainAcl = acls, !.at = "configs"]
  <2>1. h' = [h EXCEPT ![p] = s]
    BY <1>1, <1>14 DEF ListDirAcl, Become
  <2>2. acls \subseteq AclRow
    BY RowTypes
  <2>3. u.at = "dirAcl"
    BY <1>1, <1>14 DEF ListDirAcl
  <2> HIDE DEF acls
  <2>4. s \in Handler /\ s.req = u.req /\ s.at = "configs" /\ s.code = u.code
    BY <2>2 DEF Handler, Places
  <2> HIDE DEF s
  <2>5. Good(s) /\ ObjsFrom(u, s)
    BY <1>1, <2>3, <2>4, ListGood DEF ListPlaces
  <2> QED BY <1>3, <2>1, <2>4, <2>5
<1>15. CASE ListConfigs(p)
  <2> DEFINE rows == {c \in configs : \A d \in u.content : Under(c.path, d)}
             s == [u EXCEPT !.objs = rows, !.at = "configAcl"]
  <2>1. h' = [h EXCEPT ![p] = s]
    BY <1>1, <1>15 DEF ListConfigs, Become
  <2>2. rows \subseteq ConfigRow
    BY RowTypes
  <2>3. u.at = "configs"
    BY <1>1, <1>15 DEF ListConfigs
  <2> HIDE DEF rows
  <2>4. s \in Handler /\ s.req = u.req /\ s.at = "configAcl" /\ s.code = u.code
    BY <2>2 DEF Handler, Places
  <2> HIDE DEF s
  <2>5. Good(s) /\ ObjsFrom(u, s)
    BY <1>1, <2>3, <2>4, ListGood DEF ListPlaces
  <2> QED BY <1>3, <2>1, <2>4, <2>5
<1>16. CASE ListConfigAcl(p)
  <2> DEFINE s == [u EXCEPT !.objAcl = LoadACLs(configAcl, u.objs)]
             objs == ListedConfigs(s)
             chain == ListedDirs(s)
             t == [Fresh(s.req) EXCEPT !.code = "OK", !.objs = objs,
                                       !.chain = chain, !.content = s.content]
  <2>1. Answer(p, "Internal") \/ h' = [h EXCEPT ![p] = t]
    BY <1>1, <1>16 DEF ListConfigAcl, Become
  <2>2. s.req = u.req /\ s.objs = u.objs /\ s.chain = u.chain /\ s.content = u.content
    BY DEF Handler
  <2>3. objs \subseteq u.objs /\ chain \subseteq u.chain
    BY <2>2 DEF ListedConfigs, AllowedConfigs, ListedDirs
  <2> HIDE DEF s, objs, chain
  <2>4. u.req.op = "List"
    BY <1>1, <1>16 DEF ListConfigAcl, Serving, ListPlaces
  <2>5. t \in Handler /\ t.at = "done" /\ t.req = u.req /\ t.code = "OK"
    BY <1>2, <1>5, <2>2, <2>3 DEF Handler, Places, Fresh
  <2> HIDE DEF t
  <2>6. Good(t) /\ ObjsFrom(u, t)
    BY <2>4, <2>5
       DEF Good, Serving, HasObject, HasDirectory, Passed, ListPlaces, ObjsFrom
  <2> QED BY <1>3, <1>4, <1>5, <2>1, <2>5, <2>6
<1>17. CASE Commit(p) \/ Rollback(p) \/ Panic(p) \/ CommitLost(p)
  <2>1. /\ Failure(u.req) \in Codes /\ Failure(u.req) # "Unknown"
        /\ "Unknown" \in Codes
    BY DEF Failure, Codes
  <2>2. \/ Answer(p, "OK") \/ Answer(p, Failure(u.req))
        \/ Panic(p) /\ Answer(p, "Unknown")
    BY <1>1, <1>17 DEF Commit, Rollback, Panic, CommitLost
  <2> QED BY <1>4, <1>5, <2>1, <2>2
<1> QED
  BY <1>6, <1>7, <1>8, <1>9, <1>10, <1>11, <1>12, <1>13, <1>14, <1>15, <1>16, <1>17
     DEF Step

\* An id that has gone stays gone.
LEMMA NilStays ==
    ASSUME TypeOK, TypeOK', [IdStep]_vars, NEW id \in (0 .. inode) \ Ids(configs)
    PROVE  id \in (0 .. inode') \ Ids(configs')
<1>1. inode \in Nat /\ inode' \in Nat /\ \A c \in configs' : c.id \in Nat
  BY DEF TypeOK, ConfigRow
<1>2. CASE UNCHANGED vars
  BY <1>2 DEF vars
<1>3. CASE IdStep
  <2>1. id \in 0 .. inode'
    BY <1>1, <1>3 DEF IdStep
  <2>2. ASSUME NEW c \in configs', c.id = id PROVE FALSE
    <3>1. PICK b \in configs : b.id = id
      BY <1>1, <1>3, <2>2 DEF IdStep
    <3> QED BY <3>1 DEF Ids
  <2> QED BY <2>1, <2>2 DEF Ids
<1> QED BY <1>2, <1>3

\* What holds of handlers holds after the step of one of them.
LEMMA HandlerStep ==
    ASSUME IInv, HandlerOK, HeldRowsTrue, Checked, NEW p \in Proc, Step(p)
    PROVE  /\ HandlerOK' /\ Checked'
           /\ ObjsFrom(h[p], h'[p])
           /\ \A q \in Proc : q # p => h'[q] = h[q]
<1>1. TypeOK /\ TypeOK' /\ [IdStep]_vars
  BY StepIsNext, NextIInv, NextIdStep DEF IInv
<1>2. PICK s : Reached(p, h[p], s) /\ h' = [h EXCEPT ![p] = s]
  BY <1>1, GoodStep
<1>3. h \in [Proc -> Handler] /\ s \in Handler
  BY <1>2 DEF HandlerOK, Reached, Good
<1>4. /\ h' \in [Proc -> Handler]
      /\ h'[p] = s
      /\ \A q \in Proc : q # p => h'[q] = h[q]
  BY <1>2, <1>3, BecomeFacts
<1>5. ASSUME NEW q \in Proc
      PROVE  Serving(h'[q]) /\ HasObject(h'[q]) /\ HasDirectory(h'[q]) /\ Passed(h'[q])
  <2>1. CASE q = p
    BY <1>2, <1>4, <2>1 DEF Reached, Good
  <2>2. CASE q # p
    BY <1>4, <2>2 DEF HandlerOK, Checked
  <2> QED BY <2>1, <2>2
<1>6. ASSUME NEW q \in Proc, h'[q].code = "Unknown"
      PROVE  /\ h'[q].req.op = "UpdateConfig"
             /\ h'[q].req.path = EmptyPath /\ h'[q].req.name = EmptyName
             /\ h'[q].req.id \in (0 .. inode') \ Ids(configs')
  <2>1. CASE q = p
    <3>1. Panic(p) /\ s.req = h[p].req /\ h'[q].req = s.req
      BY <1>2, <1>4, <1>6, <2>1 DEF Reached
    <3>2. PICK r : r = h[p].req
      OBVIOUS
    <3>3. /\ h[p].at = "commit" /\ r.op = "UpdateConfig"
          /\ r.id \notin Ids(configs) /\ r.path = EmptyPath /\ r.name = EmptyName
          /\ inode' = inode /\ configs' = configs
      BY <3>1, <3>2 DEF Panic, Panics, UpdatePanics, vars
    <3>4. PICK o \in h[p].objs : o.id = r.id
      BY <3>2, <3>3 DEF HandlerOK, HasObject, ConfigOps
    <3>5. o.id \in Nat
      BY <3>4 DEF HandlerOK, Handler, ConfigRow, DirRow
    <3>6. o.id <= inode
      BY <3>2, <3>3, <3>4 DEF HeldRowsTrue, ConfigOps
    <3>7. inode \in Nat
      BY <1>1 DEF TypeOK
    <3>8. r.id \in (0 .. inode') \ Ids(configs')
      BY <3>3, <3>4, <3>5, <3>6, <3>7 DEF Ids
    <3> QED BY <3>1, <3>2, <3>3, <3>8
  <2>2. CASE q # p
    <3>1. PICK t : t = h[q] /\ h'[q] = t
      BY <1>4, <2>2
    <3>2. /\ t.req.op = "UpdateConfig"
          /\ t.req.path = EmptyPath /\ t.req.name = EmptyName
          /\ t.req.id \in (0 .. inode) \ Ids(configs)
      BY <1>6, <3>1 DEF HandlerOK, NilWasGone
    <3>3. t.req.id \in (0 .. inode') \ Ids(configs')
      BY <1>1, <3>2, NilStays
    <3> QED BY <3>1, <3>2, <3>3
  <2> QED BY <2>1, <2>2
<1>7. HandlerOK'
  BY <1>4, <1>5, <1>6 DEF HandlerOK, NilWasGone
<1> QED BY <1>2, <1>4, <1>5, <1>7 DEF Reached, Checked

-----------------------------------------------------------------------------
(* The rows a handler holds *)

\* HeldRowsTrue for one handler, its tables spelled out.
Held(req, objs, n, ds, cs) ==
    \A o \in objs :
        /\ req.op \in ConfigOps =>
              /\ o.id <= n /\ o.id \notin Ids(ds)
              /\ \A c \in cs : c.id = o.id =>
                    c.created = o.created /\ c.path = o.path /\ c.name = o.name
        /\ req.op \in DirOps =>
              /\ o.id <= n /\ o.id \notin Ids(cs)
              /\ \A d \in ds : d.id = o.id => d = o

\* A row just read is true of its id.
LEMMA HeldFresh ==
    ASSUME IInv, NEW req, NEW objs,
           req.op \in ConfigOps => objs \subseteq configs,
           req.op \in DirOps => objs \subseteq dirs
    PROVE  Held(req, objs, inode, dirs, configs)
<1>1. InodesDistinct /\ inode \in Nat
  BY DEF IInv, TypeOK
<1>2. ASSUME NEW o \in objs, req.op \in ConfigOps
      PROVE  /\ o.id <= inode /\ o.id \notin Ids(dirs)
             /\ \A c \in configs : c.id = o.id => c = o
  <2>1. o \in configs /\ o.id \in Ids(configs)
    BY <1>2 DEF Ids
  <2> QED BY <1>1, <2>1 DEF InodesDistinct, UniqueIds
<1>3. ASSUME NEW o \in objs, req.op \in DirOps
      PROVE  /\ o.id <= inode /\ o.id \notin Ids(configs)
             /\ \A d \in dirs : d.id = o.id => d = o
  <2>1. o \in dirs /\ o.id \in Ids(dirs)
    BY <1>3 DEF Ids
  <2> QED BY <1>1, <2>1 DEF InodesDistinct, UniqueIds
<1> QED BY <1>2, <1>3 DEF Held

\* It stays true when a transaction commits: the object there is the same, or
\* there is none, and a new one gets a new id.
LEMMA HeldStays ==
    ASSUME TypeOK, TypeOK', [IdStep]_vars, NEW req,
           NEW objs \in SUBSET (ConfigRow \cup DirRow),
           Held(req, objs, inode, dirs, configs)
    PROVE  Held(req, objs, inode', dirs', configs')
<1>1. /\ inode \in Nat /\ inode' \in Nat
      /\ \A c \in configs' : c.id \in Nat
      /\ \A d \in dirs' : d.id \in Nat
      /\ \A o \in objs : o.id \in Nat
  BY DEF TypeOK, ConfigRow, DirRow
<1>2. CASE UNCHANGED vars
  BY <1>2 DEF vars
<1>3. CASE IdStep
  <2>1. ASSUME NEW o \in objs, o.id <= inode PROVE o.id <= inode'
    BY <1>1, <1>3, <2>1 DEF IdStep
  <2>2. ASSUME NEW o \in objs, o.id <= inode, NEW d \in dirs', d.id = o.id
        PROVE  d \in dirs
    BY <1>1, <1>3, <2>2 DEF IdStep
  <2>3. ASSUME NEW o \in objs, o.id <= inode, NEW c \in configs', c.id = o.id
        PROVE  \E b \in configs : /\ b.id = c.id /\ b.created = c.created
                                  /\ b.path = c.path /\ b.name = c.name
    BY <1>1, <1>3, <2>3 DEF IdStep
  <2>4. ASSUME NEW o \in objs, req.op \in ConfigOps
        PROVE  /\ o.id <= inode' /\ o.id \notin Ids(dirs')
               /\ \A c \in configs' : c.id = o.id =>
                     c.created = o.created /\ c.path = o.path /\ c.name = o.name
    <3>1. /\ o.id <= inode /\ o.id \notin Ids(dirs)
          /\ \A c \in configs : c.id = o.id =>
                c.created = o.created /\ c.path = o.path /\ c.name = o.name
      BY <2>4 DEF Held
    <3>2. o.id \notin Ids(dirs')
      BY <2>2, <3>1 DEF Ids
    <3> QED BY <2>1, <2>3, <3>1, <3>2
  <2>5. ASSUME NEW o \in objs, req.op \in DirOps
        PROVE  /\ o.id <= inode' /\ o.id \notin Ids(configs')
               /\ \A d \in dirs' : d.id = o.id => d = o
    <3>1. /\ o.id <= inode /\ o.id \notin Ids(configs)
          /\ \A d \in dirs : d.id = o.id => d = o
      BY <2>5 DEF Held
    <3>2. o.id \notin Ids(configs')
      BY <2>3, <3>1 DEF Ids
    <3> QED BY <2>1, <2>2, <3>1, <3>2
  <2> QED BY <2>4, <2>5 DEF Held
<1> QED BY <1>2, <1>3

-----------------------------------------------------------------------------
(* The invariant *)

LEMMA ApiInitInv == ApiInit => ApiInv
<1> SUFFICES ASSUME ApiInit PROVE ApiInv
  OBVIOUS
<1>1. Fresh(NoRequest) \in Handler /\ Fresh(NoRequest).at = "done"
      /\ Fresh(NoRequest).objs = {} /\ Fresh(NoRequest).code = "none"
  BY DEF Fresh, Handler, Places, Codes
<1>2. h = [p \in Proc |-> Fresh(NoRequest)] /\ IInv
  BY DEF ApiInit
<1>3. HandlerOK /\ Checked
  BY <1>1, <1>2 DEF HandlerOK, Serving, HasObject, HasDirectory, NilWasGone, ListPlaces,
                    Checked, Passed
<1>4. HeldRowsTrue
  BY <1>1, <1>2 DEF HeldRowsTrue
<1> QED BY <1>2, <1>3, <1>4 DEF ApiInv

LEMMA ApiNextInv == ApiInv /\ [ApiNext]_apiVars => ApiInv'
<1> SUFFICES ASSUME ApiInv, [ApiNext]_apiVars PROVE ApiInv'
  OBVIOUS
<1>1. IInv /\ HandlerOK /\ HeldRowsTrue /\ Checked /\ TypeOK
  BY DEF ApiInv, IInv
<1>2. CASE UNCHANGED apiVars
  <2>1. UNCHANGED <<inode, dirs, dirAcl, configs, configAcl, contents, h>>
    BY <1>2 DEF apiVars, vars
  <2>2. IInv'
    BY <1>1, <2>1, NextIInv DEF vars
  <2>3. HandlerOK' /\ Checked'
    BY <1>1, <2>1 DEF HandlerOK, NilWasGone, Checked
  <2>4. HeldRowsTrue'
    BY <1>1, <2>1 DEF HeldRowsTrue
  <2> QED BY <2>2, <2>3, <2>4 DEF ApiInv
<1>3. CASE ApiNext
  <2>1. PICK p \in Proc : Step(p)
    BY <1>3 DEF ApiNext
  <2>2. [Next]_vars
    BY <1>1, <2>1, StepIsNext
  <2>3. IInv' /\ [IdStep]_vars
    BY <1>1, <2>2, NextIInv, NextIdStep
  <2>4. TypeOK'
    BY <2>3 DEF IInv
  <2>5. /\ HandlerOK' /\ Checked'
        /\ ObjsFrom(h[p], h'[p])
        /\ \A q \in Proc : q # p => h'[q] = h[q]
    BY <1>1, <2>1, HandlerStep
  <2>6. \A q \in Proc : Held(h[q].req, h[q].objs, inode', dirs', configs')
    <3> SUFFICES ASSUME NEW q \in Proc
                 PROVE  Held(h[q].req, h[q].objs, inode', dirs', configs')
      OBVIOUS
    <3>1. h[q].objs \in SUBSET (ConfigRow \cup DirRow)
      BY <1>1 DEF HandlerOK, Handler
    <3>2. Held(h[q].req, h[q].objs, inode, dirs, configs)
      BY <1>1 DEF HeldRowsTrue, Held
    <3> QED BY <1>1, <2>3, <2>4, <3>1, <3>2, HeldStays
  <2>7. Held(h'[p].req, h'[p].objs, inode', dirs', configs')
    <3>1. CASE h'[p].objs = {}
      BY <3>1 DEF Held
    <3>2. CASE h'[p].req = h[p].req /\ h'[p].objs = h[p].objs
      BY <2>6, <3>2
    <3>3. CASE h'[p].req.op = "List"
      BY <3>3 DEF Held, ConfigOps, DirOps
    <3>4. CASE /\ UNCHANGED vars
               /\ h'[p].req.op \in ConfigOps => h'[p].objs \subseteq configs
               /\ h'[p].req.op \in DirOps => h'[p].objs \subseteq dirs
      <4>1. Held(h'[p].req, h'[p].objs, inode, dirs, configs)
        BY <1>1, <3>4, HeldFresh
      <4>2. inode' = inode /\ dirs' = dirs /\ configs' = configs
        BY <3>4 DEF vars
      <4> QED BY <4>1, <4>2
    <3> QED BY <2>5, <3>1, <3>2, <3>3, <3>4 DEF ObjsFrom
  <2>8. \A q \in Proc : Held(h'[q].req, h'[q].objs, inode', dirs', configs')
    BY <2>5, <2>6, <2>7
  <2>9. HeldRowsTrue'
    BY <2>8 DEF HeldRowsTrue, Held
  <2> QED BY <2>3, <2>5, <2>9 DEF ApiInv
<1> QED BY <1>2, <1>3

\* Under every interleaving of handlers the tables, the handlers and the rows
\* they hold stay in order.
THEOREM ApiInvariant == ApiSpec => []ApiInv
  BY ApiInitInv, ApiNextInv, PTL DEF ApiSpec

\* Whatever the handlers do, the tables change by transactions of Store only: the
\* server implements it, started on a database that it has written before.
THEOREM ApiImplementsStore == ApiSpec => [][Next]_vars
<1>1. ApiInv /\ [ApiNext]_apiVars => [Next]_vars
  <2> SUFFICES ASSUME ApiInv, [ApiNext]_apiVars PROVE [Next]_vars
    OBVIOUS
  <2>1. CASE ApiNext
    BY <2>1, StepIsNext DEF ApiNext, ApiInv
  <2>2. CASE UNCHANGED apiVars
    BY <2>2 DEF apiVars
  <2> QED BY <2>1, <2>2
<1> QED BY <1>1, ApiInvariant, PTL DEF ApiSpec

\* No interleaving of requests breaks the invariants of the store.
THEOREM ApiStore == ApiSpec => []IInv
<1>1. ApiInv => IInv
  BY DEF ApiInv
<1> QED BY <1>1, ApiInvariant, PTL

\* No handler enters its transaction without the object and the directory it has
\* looked up; inside it Upsert meets a nil only for a config that has gone since.
THEOREM ApiHandlers == ApiSpec => []HandlerOK
<1>1. ApiInv => HandlerOK
  BY DEF ApiInv
<1> QED BY <1>1, ApiInvariant, PTL

\* What a handler has read of an object stays true of its id.
THEOREM ApiHeldRows == ApiSpec => []HeldRowsTrue
<1>1. ApiInv => HeldRowsTrue
  BY DEF ApiInv
<1> QED BY <1>1, ApiInvariant, PTL

-----------------------------------------------------------------------------
(* The transaction meets the object that was checked *)

\* Before its transaction, the handler of a write has made the checks that
\* WriteStep speaks of.
LEMMA ChecksMade ==
    ASSUME ApiInv, NEW s, NEW p \in Proc, s = h[p], s.at = "commit"
    PROVE  /\ s.req.op \in {"UpdateConfig", "DeleteConfig"} =>
                 \A c \in configs : c.id = s.req.id => ConfigChecked(s, c)
           /\ s.req.op \in {"CreateConfig", "UpdateConfig"} =>
                 DirectoryChecked(s, s.req.path)
           /\ s.req.op \in {"UpdateDirectory", "DeleteDirectory"} =>
                 \A d \in dirs : d.id = s.req.id => DirChecked(s, d)
           /\ s.req.op \in CreateOps => canCreate(s.req.tags)
           /\ s.req.op = "CreateDirectory" =>
                 AllAllow(deepestExistingAncestor(s.chain), s.chainAcl, s.req.tags, "WRITE")
<1>1. Passed(s) /\ HasObject(s) /\ Held(s.req, s.objs, inode, dirs, configs)
  BY DEF ApiInv, Checked, HandlerOK, HeldRowsTrue, Held
<1>2. s.req.op # "DeleteConfig" => Gate(s)
  BY <1>1 DEF Passed
<1>3. ASSUME s.req.op \in {"UpdateConfig", "DeleteConfig"},
             NEW c \in configs, c.id = s.req.id
      PROVE  ConfigChecked(s, c)
  <2>1. PICK o \in AllowedConfigs(s.objs, s.objAcl, s.req.tags, "WRITE") : TRUE
    BY <1>1, <1>3 DEF Passed
  <2>2. o \in s.objs
    BY <2>1 DEF AllowedConfigs
  <2>3. o.id = s.req.id
    BY <1>1, <1>3, <2>2 DEF HasObject, ConfigOps
  <2>4. c.created = o.created /\ c.path = o.path /\ c.name = o.name
    BY <1>1, <1>3, <2>2, <2>3 DEF Held, ConfigOps
  <2> QED BY <1>3, <2>1, <2>3, <2>4 DEF ConfigChecked
<1>4. s.req.op \in {"CreateConfig", "UpdateConfig"} => DirectoryChecked(s, s.req.path)
  BY <1>2 DEF Gate, DirectoryChecked
<1>5. ASSUME s.req.op \in {"UpdateDirectory", "DeleteDirectory"},
             NEW d \in dirs, d.id = s.req.id
      PROVE  DirChecked(s, d)
  <2>1. s.objs # {} /\ \A o \in s.objs : o.id = s.req.id
    BY <1>1, <1>5 DEF HasObject, DirOps
  <2>2. \A o \in s.objs : d = o
    BY <1>1, <1>5, <2>1 DEF Held, DirOps
  <2>3. TheObject(s) = d /\ d \in s.objs
    BY <2>1, <2>2 DEF TheObject
  <2>4. TargetPath(s) = Parent(d.full)
    BY <1>5, <2>3 DEF TargetPath
  <2>5. /\ Exists(TargetPath(s), s.chain)
        /\ AllAllow(s.chain, s.chainAcl, s.req.tags, "READ")
        /\ DirAllows(AclsOf(s.objAcl, s.req.id), s.req.tags, "WRITE")
    BY <1>2, <1>5 DEF Gate, DirOps, ReadOps
  <2> QED BY <1>5, <2>3, <2>4, <2>5 DEF DirChecked
<1>6. s.req.op \in CreateOps => canCreate(s.req.tags)
  BY <1>1 DEF Passed
<1>7. s.req.op = "CreateDirectory" =>
         AllAllow(deepestExistingAncestor(s.chain), s.chainAcl, s.req.tags, "WRITE")
  BY <1>2 DEF Gate
<1> QED BY <1>3, <1>4, <1>5, <1>6, <1>7

\* WriteStep for one handler.
Writes(s) ==
    /\ \A c \in configs : ConfigState(c.id)' # ConfigState(c.id) =>
          /\ ConfigChecked(s, c)
          /\ c.id \in Ids(configs') => DirectoryChecked(s, c.path)
    /\ \A c \in configs' : c.id \notin Ids(configs) =>
          canCreate(s.req.tags) /\ DirectoryChecked(s, c.path)
    /\ \A d \in dirs : DirState(d.id)' # DirState(d.id) => DirChecked(s, d)
    /\ \A d \in dirs' : d.id \notin Ids(dirs) => ExtensionChecked(s, d)

\* What the transaction of a handler changes is what the handler has checked.
LEMMA TransactionWrites ==
    ASSUME ApiInv, NEW p \in Proc, NEW s, s = h[p], Commit(p)
    PROVE  Writes(s)
<1> DEFINE r == s.req
<1>1. /\ IInv /\ TypeOK /\ s.at = "commit" /\ Transaction(r) /\ r \in Request
  BY DEF ApiInv, IInv, Commit, HandlerOK, Serving
<1>2. /\ \A c \in configs : c.id \in Ids(configs)
      /\ \A d \in dirs : d.id \in Ids(dirs)
  BY DEF Ids
<1>3. ASSUME DirsStay, dirs' = dirs
      PROVE  /\ \A d \in dirs : DirState(d.id)' = DirState(d.id)
             /\ \A d \in dirs' : d.id \in Ids(dirs)
  BY <1>2, <1>3 DEF DirsStay
<1>4. ASSUME ConfigsStay, configs' = configs
      PROVE  /\ \A c \in configs : ConfigState(c.id)' = ConfigState(c.id)
             /\ \A c \in configs' : c.id \in Ids(configs)
  BY <1>2, <1>4 DEF ConfigsStay
<1>5. CASE r.op = "CreateConfig"
  <2>1. PICK now \in Clock : Insert(r.path, r.name, r.content, r.acls, now)
    BY <1>1, <1>5 DEF Transaction
  <2>2. DirsStay /\ ConfigsStay /\ dirs' = dirs
    BY <1>1, <2>1, InsertFrame DEF Insert
  <2>3. \A c \in configs' : c \in configs \/ c.path = r.path
    BY <2>1 DEF Insert
  <2>4. canCreate(r.tags) /\ DirectoryChecked(s, r.path)
    BY <1>1, <1>5, ChecksMade DEF CreateOps
  <2>5. \A c \in configs : ConfigState(c.id)' = ConfigState(c.id)
    BY <1>2, <2>2 DEF ConfigsStay
  <2>6. \A c \in configs' : c.id \notin Ids(configs) =>
           canCreate(r.tags) /\ DirectoryChecked(s, c.path)
    BY <1>2, <2>3, <2>4
  <2> QED BY <1>3, <2>2, <2>5, <2>6 DEF Writes
<1>6. CASE r.op = "UpdateConfig"
  <2>1. PICK now \in Clock :
           Update(r.id, r.path, r.name, r.content, r.acls, now)
    BY <1>1, <1>6 DEF Transaction
  <2>2. DirsStay /\ dirs' = dirs /\ ConfigsStayBut(r.id) /\ Ids(configs') = Ids(configs)
    BY <1>1, <2>1, UpdateFrame DEF Update
  <2>3. PICK b \in configs : b.id = r.id /\ b.path = r.path
    BY <2>1 DEF Update, CanUpdate
  <2>4. \A c \in configs : c.id = r.id => c = b
    BY <1>1, <2>3 DEF IInv, InodesDistinct, UniqueIds
  <2>5. ConfigChecked(s, b) /\ DirectoryChecked(s, b.path)
    BY <1>1, <1>6, <2>3, ChecksMade
  <2>6. ASSUME NEW c \in configs, ConfigState(c.id)' # ConfigState(c.id)
        PROVE  ConfigChecked(s, c) /\ DirectoryChecked(s, c.path)
    <3>1. c.id = r.id
      BY <1>2, <2>2, <2>6 DEF ConfigsStayBut
    <3>2. c = b
      BY <2>4, <3>1
    <3> QED BY <2>5, <3>2
  <2>7. \A c \in configs' : c.id \in Ids(configs)
    BY <2>2 DEF Ids
  <2> QED BY <1>3, <2>2, <2>6, <2>7 DEF Writes
<1>7. CASE r.op = "DeleteConfig"
  <2>1. Delete(r.id)
    BY <1>1, <1>7 DEF Transaction
  <2>2. DirsStay /\ dirs' = dirs /\ ConfigsStayBut(r.id)
    BY <2>1, DeleteFrame DEF Delete
  <2>3. configs' \subseteq configs /\ r.id \notin Ids(configs')
    BY <2>1 DEF Delete, Ids
  <2>4. ASSUME NEW c \in configs, ConfigState(c.id)' # ConfigState(c.id)
        PROVE  ConfigChecked(s, c) /\ c.id \notin Ids(configs')
    <3>1. c.id = r.id
      BY <1>2, <2>2, <2>4 DEF ConfigsStayBut
    <3> QED BY <1>1, <1>7, <2>3, <3>1, ChecksMade
  <2> QED BY <1>2, <1>3, <2>2, <2>3, <2>4 DEF Writes
<1>8. CASE r.op = "CreateDirectory"
  <2>1. CreateDirectory(r.full, r.acls) /\ r.full \in Path
    BY <1>1, <1>8, RequestAssumption DEF Transaction
  <2>2. DirsStay /\ ConfigsStay /\ configs' = configs
    BY <1>1, <2>1, CreateDirectoryFrame DEF CreateDirectory
  <2>3. \A d \in dirs' : d \in dirs \/ d.full \in Components(r.full)
    BY <2>1 DEF CreateDirectory, Missing
  <2>4. /\ canCreate(r.tags)
        /\ AllAllow(deepestExistingAncestor(s.chain), s.chainAcl, r.tags, "WRITE")
    BY <1>1, <1>8, ChecksMade DEF CreateOps
  <2>5. \A d \in dirs' : d.id \notin Ids(dirs) => ExtensionChecked(s, d)
    BY <1>2, <2>3, <2>4 DEF ExtensionChecked
  <2>6. \A d \in dirs : DirState(d.id)' = DirState(d.id)
    BY <1>2, <2>2 DEF DirsStay
  <2> QED BY <1>4, <2>2, <2>5, <2>6 DEF Writes
<1>9. ASSUME r.op \in {"UpdateDirectory", "DeleteDirectory"},
             DirsStayBut(r.id), ConfigsStay, configs' = configs, dirs' \subseteq dirs
      PROVE  Writes(s)
  <2>1. ASSUME NEW d \in dirs, DirState(d.id)' # DirState(d.id)
        PROVE  DirChecked(s, d)
    <3>1. d.id = r.id
      BY <1>2, <1>9, <2>1 DEF DirsStayBut
    <3> QED BY <1>1, <1>9, <3>1, ChecksMade
  <2>2. \A d \in dirs' : d.id \in Ids(dirs)
    BY <1>2, <1>9
  <2> QED BY <1>4, <1>9, <2>1, <2>2 DEF Writes
<1>10. CASE r.op = "UpdateDirectory"
  <2>1. UpdateDirectory(r.id, r.acls)
    BY <1>1, <1>10 DEF Transaction
  <2>2. DirsStayBut(r.id) /\ ConfigsStay
    BY <2>1, UpdateDirectoryFrame
  <2>3. configs' = configs /\ dirs' \subseteq dirs
    BY <2>1 DEF UpdateDirectory
  <2> QED BY <1>9, <1>10, <2>2, <2>3
<1>11. CASE r.op = "DeleteDirectory"
  <2>1. DeleteDirectory(r.id)
    BY <1>1, <1>11 DEF Transaction
  <2>2. DirsStayBut(r.id) /\ ConfigsStay
    BY <2>1, DeleteDirectoryFrame
  <2>3. configs' = configs /\ dirs' \subseteq dirs
    BY <2>1 DEF DeleteDirectory
  <2> QED BY <1>9, <1>11, <2>2, <2>3
<1> QED BY <1>1, <1>5, <1>6, <1>7, <1>8, <1>10, <1>11 DEF Transaction

LEMMA NextWriteStep == ApiInv /\ [ApiNext]_apiVars => [WriteStep]_apiVars
<1> SUFFICES ASSUME ApiInv, ApiNext, NEW p \in Proc,
                    h[p].at = "commit", h'[p].at = "done"
             PROVE  Writes(h[p])
  BY DEF WriteStep, Writes
<1>1. PICK q \in Proc : Step(q)
  BY DEF ApiNext
<1>2. q = p
  <2>1. IInv /\ HandlerOK /\ HeldRowsTrue /\ Checked
    BY DEF ApiInv
  <2>2. \A x \in Proc : x # q => h'[x] = h[x]
    BY <1>1, <2>1, HandlerStep
  <2> QED BY <2>2
<1>3. Commit(p) \/ Rollback(p) \/ Panic(p) \/ CommitLost(p)
  BY <1>1, <1>2 DEF Step, Start, LoadObject, LoadObjectAcl, LoadContent, LoadChain,
     LoadChainAcl, ListPrefix, ListDirs, ListDirAcl, ListConfigs, ListConfigAcl
<1>4. CASE Commit(p)
  BY <1>4, TransactionWrites
<1>5. CASE Rollback(p) \/ Panic(p) \/ CommitLost(p)
  <2>1. UNCHANGED <<dirs, dirAcl, configs, configAcl, contents>>
    BY <1>5 DEF Rollback, Panic, CommitLost, vars
  <2>2. DirsStay /\ ConfigsStay
    BY <2>1, TablesStay
  <2>3. /\ \A c \in configs : c.id \in Ids(configs)
        /\ \A d \in dirs : d.id \in Ids(dirs)
    BY DEF Ids
  <2> QED BY <2>1, <2>2, <2>3 DEF Writes, DirsStay, ConfigsStay
<1> QED BY <1>3, <1>4, <1>5

\* Whatever a write changes, in a row, an ACL list or the versions, is an object
\* on which its handler had found WRITE, at a place whose directories it had
\* checked, however many requests run at once.
THEOREM ApiWrites == ApiSpec => WrittenWasChecked
  BY ApiInvariant, NextWriteStep, PTL DEF ApiSpec, WrittenWasChecked

=============================================================================
