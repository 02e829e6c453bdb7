------------------------------- MODULE Server -------------------------------
(***************************************************************************)
(* The server process of cmd/server/main.go: opening the database, joining *)
(* one tailnet and, in the background, a second one, serving both, and     *)
(* stopping on a signal.  Each tailnet has its own gRPC server behind the  *)
(* interceptors of internal/api/server.go, over one store.                 *)
(*                                                                         *)
(* Whoever started the process starts it again when it ends.  Signals,     *)
(* crashes and failures of the tailnets draw on one budget, MaxFaults.     *)
(***************************************************************************)
EXTENDS Migration

CONSTANTS Addr,       \* addresses of peers, the same ones in both tailnets
          WhoIs,      \* per tailnet and address: tags and user, or NoPeer
          NoPeer,
          Claims,     \* the acl_tags clients send along
          MaxFaults,
          MaxWrites   \* versions written while serving

ASSUME ClaimsAssumption == Claims \subseteq SUBSET Tag

Tailnet == {"first", "second"}

VARIABLES flags,      \* the networking the command line asks for
          main,       \* where run() is
          srv,        \* per tailnet: the goroutine that serves it
          quit,       \* the tailnets whose gRPC server was told to stop
          signalled,  \* a signal has arrived
          groupErr,   \* a goroutine of the errgroup has returned an error
          calls,      \* calls in flight: where from, their metadata, how far they are
          cut,        \* for the properties: tailnets whose calls an exit has cut
          broken,     \* for the properties: tailnets whose listener has failed
          faults, writes

procVars == <<flags, main, srv, quit, signalled, groupErr, calls, cut, broken>>
serverVars == <<migrationVars, procVars, faults, writes>>

Fault == faults < MaxFaults /\ faults' = faults + 1

\* The context of run: cancelled by a signal or by the errgroup.
CtxDone == signalled \/ groupErr

\* The process is gone, by itself or not.
Gone == /\ main' = "down"
        /\ srv' = [n \in Tailnet |-> "off"]
        /\ quit' = {}
        /\ signalled' = FALSE
        /\ groupErr' = FALSE
        /\ calls' = {}
        /\ broken' = {}
        /\ Close
        /\ UNCHANGED <<flags, writes>>

-----------------------------------------------------------------------------
(* Start-up: run() before the errgroup *)

Connect == /\ main = "down"
           /\ main' = "boot"
           /\ Open
           /\ UNCHANGED <<flags, srv, quit, signalled, groupErr, calls, cut, broken,
                          faults, writes>>

Boot == /\ main = "boot"
        /\ NewStore
        /\ main' = IF stage' = "ready" THEN "join" ELSE "boot"
        /\ UNCHANGED <<flags, srv, quit, signalled, groupErr, calls, cut, broken,
                       faults, writes>>

\* NewStore returns an error: FatalfCtx.  One that is in the database comes for
\* certain, and at every start; any other is a fault.
BootFails ==
    /\ main = "boot"
    /\ IF Stuck THEN UNCHANGED faults ELSE Fault
    /\ Gone
    /\ UNCHANGED cut

\* joinTailnet for the first tailnet; with kernel networking there is none.  Up
\* fails when the context has ended.
JoinFirst ==
    /\ main = "join"
    /\ flags = "kernel" \/ ~ signalled
    /\ main' = "listen"
    /\ UNCHANGED <<migrationVars, flags, srv, quit, signalled, groupErr, calls, cut,
                   broken, faults, writes>>

JoinFirstFails ==
    /\ main = "join"
    /\ flags # "kernel"
    /\ (signalled /\ UNCHANGED faults) \/ Fault
    /\ Gone
    /\ UNCHANGED cut

\* The listener, and the goroutines of the group.
Listen ==
    /\ main = "listen"
    /\ main' = "run"
    /\ srv' = [srv EXCEPT !["first"] = "starting",
                          !["second"] = IF flags = "two" THEN "joining" ELSE "off"]
    /\ UNCHANGED <<migrationVars, flags, quit, signalled, groupErr, calls, cut, broken,
                   faults, writes>>

ListenFails == main = "listen" /\ Fault /\ Gone /\ UNCHANGED cut

-----------------------------------------------------------------------------
(* The goroutines *)

Turn(n, state) == /\ srv' = [srv EXCEPT ![n] = state]
                  /\ UNCHANGED <<migrationVars, flags, main, signalled, calls, cut, writes>>

\* The second tailnet is joined.  Up fails when the context has ended.
JoinSecond == /\ srv["second"] = "joining"
              /\ ~ CtxDone
              /\ Turn("second", "listening")
              /\ UNCHANGED <<quit, groupErr, broken, faults>>

\* Altered form: the goroutine returns the error to the group.
SecondFails_Returned ==
    /\ srv["second"] \in {"joining", "listening"}
    /\ (CtxDone /\ srv["second"] = "joining" /\ UNCHANGED faults) \/ Fault
    /\ groupErr' = TRUE
    /\ Turn("second", "returned")
    /\ UNCHANGED <<quit, broken>>

\* Joining or listening fails: logged, and the goroutine returns nil.
SecondFails ==
    /\ srv["second"] \in {"joining", "listening"}
    /\ (CtxDone /\ srv["second"] = "joining" /\ UNCHANGED faults) \/ Fault
    /\ Turn("second", "returned")
    /\ UNCHANGED <<quit, groupErr, broken>>

ListenSecond == /\ srv["second"] = "listening"
                /\ Turn("second", "starting")
                /\ UNCHANGED <<quit, groupErr, broken, faults>>

\* Serve begins, or finds that the server was stopped before it began; the
\* first one's ErrServerStopped goes to the group, the second one's does not.
Serve(n) ==
    /\ srv[n] = "starting"
    /\ IF n \in quit
       THEN Turn(n, "returned") /\ groupErr' = (groupErr \/ n = "first")
       ELSE Turn(n, "serving") /\ UNCHANGED groupErr
    /\ UNCHANGED <<quit, broken, faults>>

\* The listener fails and Serve returns its error.  That of the first tailnet
\* ends the group's context, that of the second is logged and its node closed,
\* which cuts its calls off.
ServeFails(n) ==
    /\ srv[n] = "serving"
    /\ n \notin quit
    /\ Fault
    /\ groupErr' = (groupErr \/ n = "first")
    /\ srv' = [srv EXCEPT ![n] = "returned"]
    /\ calls' = IF n = "second" THEN {c \in calls : c.net # n} ELSE calls
    /\ broken' = broken \cup {n}
    /\ UNCHANGED <<migrationVars, flags, main, quit, signalled, cut, writes>>

\* Altered form: nobody stops the second server.
StopSecond_Missing == FALSE /\ UNCHANGED serverVars

\* The goroutine beside the second server calls GracefulStop.
StopSecond ==
    /\ srv["second"] \in {"starting", "serving"}
    /\ CtxDone
    /\ "second" \notin quit
    /\ quit' = quit \cup {"second"}
    /\ UNCHANGED <<migrationVars, flags, main, srv, signalled, groupErr, calls, cut,
                   broken, faults, writes>>

\* GracefulStop of the first server, called by run().
StopFirst ==
    /\ main = "run"
    /\ CtxDone
    /\ main' = "stop"
    /\ quit' = quit \cup {"first"}
    /\ UNCHANGED <<migrationVars, flags, srv, signalled, groupErr, calls, cut, broken,
                   faults, writes>>

\* Serve returns when GracefulStop is through: no call of the server is left.
Drained(n) ==
    /\ srv[n] = "serving"
    /\ n \in quit
    /\ \A c \in calls : c.net # n
    /\ Turn(n, "returned")
    /\ UNCHANGED <<quit, groupErr, broken, faults>>

\* GracefulStop of the first server returns.
Stopped ==
    /\ main = "stop"
    /\ srv["first"] # "serving"
    /\ \A c \in calls : c.net # "first"
    /\ main' = "wait"
    /\ UNCHANGED <<migrationVars, flags, srv, quit, signalled, groupErr, calls, cut,
                   broken, faults, writes>>

\* Altered form: run() does not wait for the group.
GroupDone_Always == TRUE

\* g.Wait: the goroutines of the group have returned.
GroupDone == \A n \in Tailnet : srv[n] \in {"off", "returned"}

\* run() returns; the nodes are closed, whatever they still carry.
Exit ==
    /\ main = "wait"
    /\ GroupDone
    /\ cut' = cut \cup {c.net : c \in calls}
    /\ Gone
    /\ UNCHANGED faults

-----------------------------------------------------------------------------
(* Calls *)

\* A call comes in, with the metadata the client sends along.
Arrive(n, addr, claimed) ==
    /\ srv[n] = "serving"
    /\ n \notin quit
    /\ \A c \in calls : c.net # n
    /\ calls' = calls \cup {[net |-> n, addr |-> addr, md |-> [acl_tags |-> claimed],
                             at |-> "intercept"]}
    /\ UNCHANGED <<migrationVars, flags, main, srv, quit, signalled, groupErr, cut,
                   broken, faults, writes>>

\* identitiesFromWhoIs: the tags of a tagged node, else its user.
identitiesFromWhoIs(resp) ==
    IF resp.tags # {} THEN resp.tags ELSE resp.user

\* Altered form: the server shared by the tailnets asks the first one's node.
LocalClient_Shared(n) == "first"

\* The client of the node a gRPC server was made with: of its own tailnet.
LocalClient(n) == n

\* Altered form: md.Set leaves what the client sent when there is nothing to set.
Overwrite_Set(md, idents) ==
    IF idents = {} THEN md ELSE [md EXCEPT !.acl_tags = idents]

\* The assignment md["acl_tags"] = idents.
Overwrite(md, idents) == [md EXCEPT !.acl_tags = idents]

\* StripACLTagsInterceptor deletes the acl_tags the client has sent;
\* TailscaleAuthenticationInterceptor overwrites them with the identities of the
\* peer, and ends the call when there is no such peer or the node does not tell.
Intercept(n) ==
    \E c \in calls :
        LET resp == WhoIs[LocalClient(n)][c.addr]
            pass(md) == calls' = (calls \ {c}) \cup {[c EXCEPT !.md = md,
                                                               !.at = "handler"]}
        IN  /\ c.net = n
            /\ c.at = "intercept"
            /\ IF flags = "kernel" THEN pass([c.md EXCEPT !.acl_tags = {}])
               ELSE \/ resp # NoPeer /\ pass(Overwrite(c.md, identitiesFromWhoIs(resp)))
                    \/ calls' = calls \ {c}
            /\ UNCHANGED <<migrationVars, flags, main, srv, quit, signalled, groupErr,
                           cut, broken, faults, writes>>

\* A call is answered.
Return(n) ==
    /\ \E c \in calls : c.net = n /\ c.at # "intercept"
    /\ calls' = {c \in calls : c.net # n}
    /\ UNCHANGED <<migrationVars, flags, main, srv, quit, signalled, groupErr, cut,
                   broken, faults, writes>>

\* The config and the directory it is in grant WRITE to the tags (SetConfig; all of
\* it in Api).
Writable(config, tags) ==
    LET Acls(table, id) == {row.entry : row \in {r \in table : r.owner = id}}
    IN  /\ ConfigAllows(Acls(db.configAcl, config.id), tags, "WRITE")
        /\ \A d \in db.dirs :
              d.full = config.path => DirAllows(Acls(db.dirAcl, d.id), tags, "WRITE")

\* A handler writes a new version (NewVersion of Store), for the acl_tags it finds
\* in its metadata.
Write(n, config, data, now) ==
    \E c \in calls :
        /\ c.net = n
        /\ c.at = "handler"
        /\ Writable(config, c.md.acl_tags)
        /\ writes < MaxWrites
        /\ db.inode < MaxInode
        /\ LET id == db.inode + 1
           IN  /\ db' = [db EXCEPT !.inode = id,
                            !.configs = (@ \ {config}) \cup
                                {[config EXCEPT !.current = id, !.updated = now]},
                            !.contents = @ \cup {[id |-> id, config |-> config.id,
                                 data |-> data, size |-> Len(data),
                                 created |-> now]}]
               /\ ever' = ever \cup {[id |-> id, config |-> config.id, data |-> data]}
        /\ writes' = writes + 1
        /\ calls' = (calls \ {c}) \cup {[c EXCEPT !.at = "written"]}
        /\ UNCHANGED <<work, stage, todo, flags, main, srv, quit, signalled, groupErr,
                       cut, broken, faults>>

-----------------------------------------------------------------------------
(* Faults from outside *)

Signal == /\ main # "down"
          /\ ~ signalled
          /\ Fault
          /\ signalled' = TRUE
          /\ UNCHANGED <<migrationVars, flags, main, srv, quit, groupErr, calls, cut,
                         broken, writes>>

\* The process is killed.
Crash == main # "down" /\ Fault /\ Gone /\ UNCHANGED cut

-----------------------------------------------------------------------------

ServerInit == /\ MigrationInit
              /\ flags \in {"kernel", "one", "two"}
              /\ main = "down"
              /\ srv = [n \in Tailnet |-> "off"]
              /\ quit = {}
              /\ signalled = FALSE
              /\ groupErr = FALSE
              /\ calls = {}
              /\ cut = {}
              /\ broken = {}
              /\ faults = 0
              /\ writes = 0

\* What the process does by itself.
Process == \/ Connect \/ Boot \/ BootFails
           \/ JoinFirst \/ Listen
           \/ signalled /\ JoinFirstFails
           \/ StopFirst \/ Stopped \/ Exit

Goroutine(n) == \/ Serve(n) \/ Drained(n)
                \/ n = "second" /\ (JoinSecond \/ ListenSecond \/ StopSecond)
                \/ n = "second" /\ CtxDone /\ SecondFails

ServerNext ==
    \/ Process
    \/ JoinFirstFails \/ ListenFails \/ SecondFails
    \/ \E n \in Tailnet :
          \/ Goroutine(n) \/ ServeFails(n) \/ Intercept(n) \/ Return(n)
          \/ \E addr \in Addr, claimed \in Claims : Arrive(n, addr, claimed)
          \/ \E config \in db.configs, data \in Data, now \in Clock :
                Write(n, config, data, now)
    \/ Signal \/ Crash

\* The process and its goroutines run, the first tailnet can be joined and
\* handlers return (CallsAnswered of StoreTx).  Nobody has to call.
ServerFairness ==
    /\ WF_serverVars(Process)
    /\ \A n \in Tailnet : WF_serverVars(Goroutine(n)) /\ WF_serverVars(Intercept(n))
                                                    /\ WF_serverVars(Return(n))

ServerSpec == ServerInit /\ [][ServerNext]_serverVars /\ ServerFairness

-----------------------------------------------------------------------------
(* Properties *)

\* Whatever database the server was given and wherever earlier starts were cut
\* off, the one it serves has the current schema and is one Store could have
\* written, so all that is shown of Store and Api applies to it.
ServesSound ==
    stage = "ready" =>
        /\ db.configColumns = ConfigColumns
        /\ db.contentColumns = ContentColumns
        /\ M(db)!IInv

\* No content is ever lost on the way, in any of the schemas between; once the
\* store is ready each belongs to its config and has its length for a size.
ContentsKept ==
    \A e \in ever : \E v \in db.contents :
        /\ v.id = e.id
        /\ v.data = e.data
        /\ stage = "ready" => v.config = e.config /\ v.size = Len(v.data)

\* Whom the node of tailnet n knows at addr; nobody without a tailnet.
Peer(n, addr) ==
    IF flags = "kernel" \/ WhoIs[n][addr] = NoPeer THEN {}
    ELSE IF WhoIs[n][addr].tags # {} THEN WhoIs[n][addr].tags
    ELSE WhoIs[n][addr].user

\* Every new version is written by a call of a peer whom its config lets write,
\* as the tailnet the call came in by knows that peer: not by a peer of the other
\* tailnet with the same address, and not for whom the client says it is, from its
\* metadata through the interceptor and the ACL check to the table.
WrittenByPeer ==
    \A e \in ever' \ ever :
        \E c \in calls \ calls', config \in db.configs :
            config.id = e.config /\ Writable(config, Peer(c.net, c.addr))
WritesAuthorised == [][WrittenByPeer]_serverVars

\* "A second tailnet that cannot join must not take them down with it": only a
\* signal and the first tailnet end the context everything hangs on.
OnlyFirstStops ==
    groupErr => "first" \in broken \/ signalled

\* run() does not return under a call: GracefulStop and g.Wait see all of them
\* out, on either tailnet.
NoCallCut == cut = {}

\* Told to stop, the process stops, wherever in its start-up or with whatever
\* half-joined tailnet the signal meets it.
StopsWhenTold == signalled ~> main = "down"

\* From every generation of the database and however often it was cut off, the
\* server comes up and serves its first tailnet in the end.
ComesUp == <>[](srv["first"] = "serving")

=============================================================================
