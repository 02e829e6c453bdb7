------------------------------ MODULE StoreTx ------------------------------
(***************************************************************************)
(* The transactions of internal/store/sqlite/store.go, statement by        *)
(* statement, on the one connection of the pool.                           *)
(*                                                                         *)
(* A call first runs a SELECT on the pool, then the operation's            *)
(* transaction: withTx borrows the connection until finish.  Module Store  *)
(* has each transaction in one step; Implements says that this one does    *)
(* nothing else to the committed database, although statements fail,       *)
(* callers go away, COMMITs fail and the server is killed in between.      *)
(*                                                                         *)
(* database/sql and SQLite are external: the pool hands the connection to  *)
(* any of the callers waiting for it, a goroutine of each transaction      *)
(* rolls it back when its caller's context ends, and what is not committed *)
(* is gone after a restart.                                                *)
(***************************************************************************)
EXTENDS Store

CONSTANTS Proc,      \* handler goroutines
          NoProc, Abandoned,
          Request,   \* the writes clients ask for, and "read"
          NoRequest

ASSUME ProcAssumption == NoProc \notin Proc /\ Abandoned \notin Proc \cup {NoProc}

\* The fields of a request that end up in a table.
ASSUME TxRequestAssumption ==
    \A r \in Request :
        /\ r.op \in {"read", "CreateDirectory", "UpdateDirectory", "DeleteDirectory",
                     "CreateConfig", "UpdateConfig", "DeleteConfig"}
        /\ r.op \in {"CreateConfig", "UpdateConfig"} =>
              r.content \in Blob \cup {NoContent} /\ r.acls \in AclList
        /\ r.op = "CreateConfig" => r.path \in ConfigPath /\ r.name \in FileName
        /\ r.op = "CreateDirectory" => r.full \in Path
        /\ r.op \in {"CreateDirectory", "UpdateDirectory"} => r.acls \in AclList

\* The variables of Store are the committed tables.
VARIABLES work,     \* the tables as the connection sees them
          conn,     \* who has borrowed the connection, or NoProc, or Abandoned:
                    \* a transaction whose handler has panicked
          call,     \* per handler: its request and where it is
          gone,     \* the handlers whose context has ended
          \* for the properties, of each handler's last call:
          changed,  \* a step of it has changed the committed database
          failed    \* one of its statements has reported an error

txVars == <<vars, work, conn, call, gone, changed, failed>>

Tables(n, ds, da, cs, ca, ct) ==
    [inode |-> n, dirs |-> ds, dirAcl |-> da, configs |-> cs, configAcl |-> ca,
     contents |-> ct]

\* The committed database, and how a new one gets there.
disk == Tables(inode, dirs, dirAcl, configs, configAcl, contents)
Persist(t) == /\ inode' = t.inode
              /\ dirs' = t.dirs
              /\ dirAcl' = t.dirAcl
              /\ configs' = t.configs
              /\ configAcl' = t.configAcl
              /\ contents' = t.contents

\* The database a transaction in progress sees.
W == INSTANCE Store WITH inode <- work.inode, dirs <- work.dirs,
        dirAcl <- work.dirAcl, configs <- work.configs,
        configAcl <- work.configAcl, contents <- work.contents

\* A handler: the statements it has still to run, the inodes it has got and the
\* clock reading it stamps rows with.
Fresh(r) == [req |-> r, at |-> "query", todo |-> <<>>, got |-> <<>>, now |-> 0,
             code |-> "none"]
Idle(code) == [Fresh(NoRequest) EXCEPT !.at = "idle", !.code = code]

Become(p, c) == call' = [call EXCEPT ![p] = c]

TxInit == /\ Init
          /\ work = disk
          /\ conn = NoProc
          /\ call = [p \in Proc |-> Idle("none")]
          /\ gone = {}
          /\ changed = {}
          /\ failed = {}

-----------------------------------------------------------------------------
(* The connection *)

Start(p, r) ==
    /\ call[p].at = "idle"
    /\ Become(p, Fresh(r))
    /\ changed' = changed \ {p}
    /\ failed' = failed \ {p}
    /\ UNCHANGED <<vars, work, conn, gone>>

\* The caller hangs up, or its deadline passes.
Cancel(p) ==
    /\ call[p].at # "idle"
    /\ p \notin gone
    /\ gone' = gone \cup {p}
    /\ UNCHANGED <<vars, work, conn, call, changed, failed>>

\* The pool gives the connection to a waiting caller.
Acquire(p) ==
    /\ conn = NoProc
    /\ call[p].at \in {"query", "begin"}
    /\ conn' = p
    /\ UNCHANGED <<vars, work, call, gone, changed, failed>>

\* A caller who has gone gets an error instead of the connection, or gives it
\* back unused.
GiveUp(p) ==
    /\ p \in gone
    /\ call[p].at \in {"query", "begin"}
    /\ Become(p, Idle("Error"))
    /\ conn' = IF conn = p THEN NoProc ELSE conn
    /\ gone' = gone \ {p}
    /\ UNCHANGED <<vars, work, failed>>

\* A SELECT on the pool: the connection goes back with its result.
Query(p) ==
    /\ call[p].at = "query"
    /\ conn = p
    /\ conn' = NoProc
    /\ IF call[p].req.op = "read"
       THEN Become(p, Idle("OK")) /\ gone' = gone \ {p}
       ELSE Become(p, [call[p] EXCEPT !.at = "begin"]) /\ UNCHANGED gone
    /\ UNCHANGED <<vars, work, failed>>

\* Altered form: the goroutine returns the connection with the work on it.
AwaitDone_KeepsWork(p) ==
    /\ p \in gone
    /\ conn = p
    /\ call[p].at \in {"tx", "finish"}
    /\ conn' = NoProc
    /\ UNCHANGED <<vars, work, call, gone, changed, failed>>

\* The goroutine of the transaction rolls it back when the context ends, while
\* the handler is somewhere between two statements and does not know.
AwaitDone(p) ==
    /\ p \in gone
    /\ conn = p
    /\ call[p].at \in {"tx", "finish"}
    /\ work' = disk
    /\ conn' = NoProc
    /\ UNCHANGED <<vars, call, gone, changed, failed>>

\* The same for a handler that panicked: the interceptor has answered for it and
\* its context has ended with that, but finish never runs.
Reap ==
    /\ conn = Abandoned
    /\ work' = disk
    /\ conn' = NoProc
    /\ UNCHANGED <<vars, call, gone, changed, failed>>

\* Altered form: the statement goes to the pool.
OnConnection_Pool(p) == conn = NoProc

\* querier: inside a transaction a statement runs on its connection.
OnConnection(p) == conn = p

-----------------------------------------------------------------------------
(* The statements *)

\* What the SELECTs at the start of the transaction let pass.
Passes(r) ==
    CASE r.op = "CreateDirectory" -> r.full \notin W!DirPaths
      [] r.op = "UpdateDirectory" -> W!CanUpdateDirectory(r.id, r.full)
      [] r.op = "DeleteDirectory" ->
             \E d \in work.dirs : d.id = r.id /\ W!CanDeleteDirectory(d)
      [] r.op = "CreateConfig" ->
             /\ W!DirectoryExists(r.path)
             /\ ~ \E c \in work.configs : c.path = r.path /\ c.name = r.name
      [] r.op = "UpdateConfig" ->
             \E c \in work.configs : c.id = r.id /\ W!CanUpdate(c, r.path, r.name)
      [] OTHER -> TRUE

\* The statements that follow, in the order of the code.
Program(r) ==
    CASE r.op = "CreateDirectory" ->
             IF W!Missing(r.full) = {} THEN <<"reload">>
                                       ELSE <<"inode", "directory", "acls">>
      [] r.op = "UpdateDirectory" -> <<"dropAcls", "acls", "reload">>
      [] r.op = "DeleteDirectory" -> <<"dropAcls", "dropDirectory">>
      [] r.op = "CreateConfig" ->
             <<"inode", "inode", "config", "version", "acls", "reload">>
      [] r.op = "UpdateConfig" ->
             IF r.content = NoContent
             THEN <<"touchConfig", "dropAcls", "acls", "reload">>
             ELSE <<"inode", "version", "touchConfig", "dropAcls", "acls", "reload">>
      [] OTHER -> <<"dropAcls", "dropVersions", "dropConfig">>

\* What is left after the next one; createDirectory is called again as long as
\* a level is missing.
Rest(c) == IF c.todo = <<"acls">> THEN Program(c.req) ELSE Tail(c.todo)

\* The operation's ACL table, and the tables with that one replaced.
OnDirectory(r) == r.op \in {"CreateDirectory", "UpdateDirectory", "DeleteDirectory"}
AclTable(r) == IF OnDirectory(r) THEN work.dirAcl ELSE work.configAcl
WithAcls(r, rows) == IF OnDirectory(r) THEN [work EXCEPT !.dirAcl = rows]
                                       ELSE [work EXCEPT !.configAcl = rows]

\* The object a statement is about: the one named, or the one being made.
Owner(c) == CASE c.req.op = "CreateConfig" -> c.got[1]
              [] c.req.op = "CreateDirectory" -> c.got[Len(c.got)]
              [] OTHER -> c.req.id

\* The shallowest level that has no row yet; its parent has one by now.
Level1(full) == CHOOSE q \in W!Missing(full) :
                    \A m \in W!Missing(full) : Len(q) <= Len(m)
RowOf(full) == IF Len(full) = 1 THEN NoParent
               ELSE (CHOOSE d \in work.dirs : d.full = Parent(full)).id

\* The tables after the next statement of c.
Effect(c) ==
    LET stmt == Head(c.todo)
        r == c.req
        last == c.got[Len(c.got)]
        touched(row) ==
            [row EXCEPT !.updated = c.now,
                        !.current = IF r.content = NoContent THEN @ ELSE last]
    IN  CASE stmt = "inode" -> [work EXCEPT !.inode = @ + 1]
          [] stmt = "directory" ->
               LET full == Level1(r.full)
               IN  [work EXCEPT !.dirs = @ \cup
                      {[id |-> last, full |-> full, parent |-> RowOf(full)]}]
          [] stmt = "acls" -> WithAcls(r, AclTable(r) \cup AclRows(Owner(c), r.acls))
          [] stmt = "dropAcls" -> WithAcls(r, Disown(AclTable(r), Owner(c)))
          [] stmt = "dropDirectory" ->
               [work EXCEPT !.dirs = {d \in @ : d.id # r.id}]
          [] stmt = "config" ->
               [work EXCEPT !.configs = @ \cup
                  {[id |-> c.got[1], path |-> r.path, name |-> r.name,
                    current |-> c.got[2], created |-> c.now, updated |-> c.now]}]
          [] stmt = "version" ->
               [work EXCEPT !.contents = @ \cup
                  {[id |-> last, config |-> Owner(c), blob |-> r.content,
                    created |-> c.now]}]
          [] stmt = "touchConfig" ->
               [work EXCEPT !.configs =
                  {IF row.id = r.id THEN touched(row) ELSE row : row \in @}]
          [] stmt = "dropVersions" ->
               [work EXCEPT !.contents = {v \in @ : v.config # r.id}]
          [] stmt = "dropConfig" ->
               [work EXCEPT !.configs = {row \in @ : row.id # r.id}]
          [] OTHER -> work

\* An INSERT finds no room (MaxInode bounds the model's ids); content is NOT NULL.
Refused(c) == \/ Head(c.todo) = "inode" /\ work.inode >= MaxInode
              \/ Head(c.todo) = "version" /\ c.req.content = NoContent

-----------------------------------------------------------------------------
(* The transaction *)

\* Upsert goes on with the nil that GetConfigByID gives it.
Panics(r) == r.op = "UpdateConfig" /\ W!UpdatePanics(r.id, r.path, r.name)

\* The server's interceptor recovers the handler; nobody ends the transaction.
Panic(p) ==
    /\ call[p].at = "begin"
    /\ conn = p
    /\ Panics(call[p].req)
    /\ Become(p, Idle("Error"))
    /\ conn' = Abandoned
    /\ gone' = gone \ {p}
    /\ UNCHANGED <<vars, work, failed>>

\* BEGIN and the SELECTs that check; an early return goes to finish with an
\* error.
Check(p) ==
    /\ call[p].at = "begin"
    /\ conn = p
    /\ ~ Panics(call[p].req)
    /\ \E now \in Clock :
          Become(p, IF Passes(call[p].req)
                    THEN [call[p] EXCEPT !.at = "tx", !.now = now,
                                         !.todo = Program(call[p].req)]
                    ELSE [call[p] EXCEPT !.at = "finish", !.code = "Error"])
    /\ UNCHANGED <<vars, work, conn, gone, failed>>

\* Altered form: each statement commits by itself.
Statement_AutoCommit(p) ==
    LET c == call[p]
    IN  /\ c.at = "tx"
        /\ OnConnection(p)
        /\ p \notin gone
        /\ ~ Refused(c)
        /\ work' = Effect(c)
        /\ Persist(Effect(c))
        /\ Become(p, [c EXCEPT !.todo = Rest(c),
                               !.at = IF Rest(c) = <<>> THEN "finish" ELSE @,
                               !.code = IF Rest(c) = <<>> THEN "OK" ELSE @,
                               !.got = IF Head(c.todo) = "inode"
                                       THEN Append(@, work.inode + 1) ELSE @])
        /\ UNCHANGED <<conn, gone, failed>>

\* The next statement; after the last one the operation goes to finish.
Statement(p) ==
    LET c == call[p]
    IN  /\ c.at = "tx"
        /\ OnConnection(p)
        /\ p \notin gone
        /\ ~ Refused(c)
        /\ work' = Effect(c)
        /\ Become(p, [c EXCEPT !.todo = Rest(c),
                               !.at = IF Rest(c) = <<>> THEN "finish" ELSE @,
                               !.code = IF Rest(c) = <<>> THEN "OK" ELSE @,
                               !.got = IF Head(c.todo) = "inode"
                                       THEN Append(@, work.inode + 1) ELSE @])
        /\ UNCHANGED <<vars, conn, gone, failed>>

\* Altered form: the error does not get to finish.
StatementFails_Lost(p) ==
    /\ call[p].at = "tx"
    /\ p \in gone \/ OnConnection(p)
    /\ Become(p, [call[p] EXCEPT !.at = "finish", !.code = "OK"])
    /\ failed' = failed \cup {p}
    /\ UNCHANGED <<vars, work, conn, gone>>

\* A statement reports an error: a constraint, the disk, or that the context has
\* ended, in which case it does not get to the connection.
StatementFails(p) ==
    /\ call[p].at = "tx"
    /\ p \in gone \/ OnConnection(p)
    /\ Become(p, [call[p] EXCEPT !.at = "finish", !.code = "Error"])
    /\ failed' = failed \cup {p}
    /\ UNCHANGED <<vars, work, conn, gone>>

\* finish ends the transaction if nobody else has, and the handler answers.
Finish(p, tables) ==
    /\ work' = IF conn = p THEN tables ELSE work
    /\ conn' = IF conn = p THEN NoProc ELSE conn
    /\ Become(p, Idle(call[p].code))
    /\ gone' = gone \ {p}

Commit(p) ==
    /\ call[p].at = "finish"
    /\ call[p].code = "OK"
    /\ conn = p
    /\ p \notin gone
    /\ Persist(work)
    /\ Finish(p, work)
    /\ UNCHANGED failed

\* COMMIT fails, or the context has ended before: logged, and answered OK.
CommitFails(p) ==
    /\ call[p].at = "finish"
    /\ call[p].code = "OK"
    /\ Finish(p, disk)
    /\ UNCHANGED <<vars, failed>>

Rollback(p) ==
    /\ call[p].at = "finish"
    /\ call[p].code = "Error"
    /\ Finish(p, disk)
    /\ UNCHANGED <<vars, failed>>

\* The server is killed and started again on the file it has left.
Restart ==
    /\ \E p \in Proc : call[p].at # "idle"
    /\ work' = disk
    /\ conn' = NoProc
    /\ call' = [p \in Proc |-> Idle("none")]
    /\ gone' = {}
    /\ changed' = {}
    /\ failed' = {}
    /\ UNCHANGED vars

-----------------------------------------------------------------------------

\* A handler's step, and whether the committed database is another after it.
Handler(p) ==
    /\ \/ GiveUp(p) \/ Query(p) \/ Panic(p) \/ Check(p)
       \/ Statement(p) \/ StatementFails(p)
       \/ Commit(p) \/ CommitFails(p) \/ Rollback(p)
    /\ changed' = IF disk' = disk THEN changed ELSE changed \cup {p}

TxNext == \/ \E p \in Proc : \/ \E r \in Request : Start(p, r)
                             \/ Cancel(p) \/ Acquire(p) \/ AwaitDone(p)
                             \/ Handler(p)
          \/ Reap
          \/ Restart

\* A handler that can go on does, and so does the goroutine of a transaction:
\* the context of a call ends when it is answered.
\* database/sql picks the next caller at random: one that waits is picked in the
\* end.  Nothing makes a client call or hang up, or the server fall over.
Fairness == /\ \A p \in Proc : /\ WF_txVars(Handler(p))
                               /\ WF_txVars(AwaitDone(p))
                               /\ SF_txVars(Acquire(p))
            /\ WF_txVars(Reap)

TxSpec == TxInit /\ [][TxNext]_txVars /\ Fairness

-----------------------------------------------------------------------------
(* Properties *)

\* The committed database changes by whole transactions of Store only, whatever
\* statement fails, whoever hangs up and wherever the server is killed.
Implements == Spec

\* What is not committed is seen by nobody but the transaction that wrote it:
\* the connection is handed on clean, also by the goroutine that rolls back
\* behind the handler's back, so a SELECT on the pool reads committed rows.
Isolated ==
    /\ conn \in Proc \cup {NoProc, Abandoned}
    /\ work # disk => /\ conn \in Proc
                      /\ call[conn].at \in {"tx", "finish"}

\* A call that answers with an error, or one of whose statements failed whatever
\* it answers, has left the committed database as it was: no step of it changed a
\* table, neither a statement by itself nor finish, to which the error has to
\* come through every return in between.
ErrorMeansNothing ==
    \A p \in Proc : call[p].at = "idle" /\ (call[p].code = "Error" \/ p \in failed)
                    => p \notin changed

\* Nobody waits for ever: not for the connection, which every borrower returns, or
\* which is taken back from a handler that panicked, and not for itself, since a
\* transaction's statements do not go to the pool.
CallsAnswered == \A p \in Proc : call[p].at # "idle" ~> call[p].at = "idle"

=============================================================================
