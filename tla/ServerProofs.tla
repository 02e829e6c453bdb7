---------------------------- MODULE ServerProofs ----------------------------
(***************************************************************************)
(* Proofs about Server, for any tailnets, peers, databases and numbers of  *)
(* faults and writes.                                                      *)
(***************************************************************************)
EXTENDS Server, TLAPS, SequenceTheorems

-----------------------------------------------------------------------------
(* The process *)

MainPlaces == {"down", "boot", "join", "listen", "run", "stop", "wait"}
SrvPlaces == {"off", "joining", "listening", "starting", "serving", "returned"}

\* A call of the second tailnet has its server; one of the first may outlive it
\* until GracefulStop has returned.
CallServed(c) == /\ c.net \in Tailnet
                 /\ \/ srv[c.net] = "serving"
                    \/ c.net = "first" /\ main # "wait"

\* A call that is past the interceptor carries the tags of its peer.
Identified(c) ==
    /\ c = [net |-> c.net, addr |-> c.addr, md |-> [acl_tags |-> c.md.acl_tags],
            at |-> c.at]
    /\ c.at \in {"intercept", "handler", "written"}
    /\ c.at = "handler" => c.md.acl_tags = Peer(c.net, c.addr)

ProcInv ==
    /\ main \in MainPlaces
    /\ srv \in [Tailnet -> SrvPlaces]
    /\ quit \subseteq Tailnet
    /\ main \notin {"run", "stop", "wait"} =>
          calls = {} /\ \A n \in Tailnet : srv[n] = "off"
    /\ main \in {"join", "listen", "run", "stop", "wait"} => stage = "ready"
    /\ main \in {"stop", "wait"} => "first" \in quit
    /\ main = "wait" => srv["first"] # "serving"
    /\ \A c \in calls : CallServed(c) /\ Identified(c)
    /\ "first" \in quit => "first" \in broken \/ signalled
    /\ OnlyFirstStops
    /\ NoCallCut

LEMMA GoneKeeps ==
  ASSUME ProcInv, Gone, UNCHANGED cut
  PROVE  ProcInv'
BY DEF ProcInv, Gone, MainPlaces, SrvPlaces, OnlyFirstStops, NoCallCut, CallServed, Identified, Peer

\* The process while it comes up and goes down.
LEMMA ProcessKeeps ==
  ASSUME ProcInv, Process \/ JoinFirstFails \/ ListenFails \/ Crash
  PROVE  ProcInv'
<1> USE DEF MainPlaces, SrvPlaces, Tailnet
<1>1. CASE Connect
  BY <1>1 DEF Connect, ProcInv, OnlyFirstStops, NoCallCut, CallServed, Identified, Peer
<1>2. CASE Boot
  BY <1>2 DEF Boot, ProcInv, OnlyFirstStops, NoCallCut, CallServed, Identified, Peer
<1>3. CASE BootFails \/ JoinFirstFails \/ ListenFails \/ Crash
  BY <1>3, GoneKeeps DEF BootFails, JoinFirstFails, ListenFails, Crash
<1>4. CASE JoinFirst
  BY <1>4 DEF JoinFirst, migrationVars, ProcInv, OnlyFirstStops, NoCallCut, CallServed, Identified, Peer
<1>5. CASE Listen
  BY <1>5 DEF Listen, migrationVars, ProcInv, OnlyFirstStops, NoCallCut, CallServed, Identified, Peer
<1>6. CASE StopFirst
  BY <1>6 DEF StopFirst, CtxDone, migrationVars, ProcInv, OnlyFirstStops, NoCallCut, CallServed, Identified, Peer
<1>7. CASE Stopped
  BY <1>7 DEF Stopped, migrationVars, ProcInv, OnlyFirstStops, NoCallCut, CallServed, Identified, Peer
<1>8. CASE Exit
  <2>1. calls = {}
    BY <1>8 DEF Exit, GroupDone, ProcInv, CallServed
  <2>2. UNCHANGED cut
    BY <1>8, <2>1 DEF Exit
  <2> QED
    BY <1>8, <2>2, GoneKeeps DEF Exit
<1> QED
  BY <1>1, <1>2, <1>3, <1>4, <1>5, <1>6, <1>7, <1>8 DEF Process

\* The goroutines of the errgroup.
LEMMA GoroutineKeeps ==
  ASSUME ProcInv, NEW n \in Tailnet, Goroutine(n) \/ SecondFails \/ ServeFails(n)
  PROVE  ProcInv'
<1> USE DEF MainPlaces, SrvPlaces, Tailnet
<1>1. CASE Serve(n)
  BY <1>1 DEF Serve, Turn, migrationVars, ProcInv, OnlyFirstStops, NoCallCut, CallServed, Identified, Peer
<1>2. CASE Drained(n)
  BY <1>2 DEF Drained, Turn, migrationVars, ProcInv, OnlyFirstStops, NoCallCut, CallServed, Identified, Peer
<1>3. CASE JoinSecond
  BY <1>3 DEF JoinSecond, Turn, migrationVars, ProcInv, OnlyFirstStops, NoCallCut, CallServed, Identified, Peer
<1>4. CASE ListenSecond
  BY <1>4 DEF ListenSecond, Turn, migrationVars, ProcInv, OnlyFirstStops, NoCallCut, CallServed, Identified, Peer
<1>5. CASE StopSecond
  BY <1>5 DEF StopSecond, migrationVars, ProcInv, OnlyFirstStops, NoCallCut, CallServed, Identified, Peer
<1>6. CASE SecondFails
  BY <1>6 DEF SecondFails, Turn, migrationVars, ProcInv, OnlyFirstStops, NoCallCut, CallServed, Identified, Peer
<1>7. CASE ServeFails(n)
  BY <1>7 DEF ServeFails, migrationVars, ProcInv, OnlyFirstStops, NoCallCut, CallServed, Identified, Peer
<1> QED
  BY <1>1, <1>2, <1>3, <1>4, <1>5, <1>6, <1>7 DEF Goroutine

\* A call takes the place of the one it goes on from, or is new.
LEMMA CallGoesOn ==
  ASSUME ProcInv, main \in {"run", "stop", "wait"},
         NEW c, CallServed(c), Identified(c), calls' \subseteq calls \cup {c},
         UNCHANGED <<stage, flags, main, srv, quit, signalled, groupErr, cut, broken>>
  PROVE  ProcInv'
<1>1. \A d \in calls' : CallServed(d)' /\ Identified(d)'
  BY DEF ProcInv, CallServed, Identified, Peer
<1> QED
  BY <1>1 DEF ProcInv, OnlyFirstStops, NoCallCut

LEMMA CallUpdated ==
  ASSUME NEW c, Identified(c), NEW md, NEW at
  PROVE  [c EXCEPT !.md = md, !.at = at] =
            [net |-> c.net, addr |-> c.addr, md |-> md, at |-> at]
<1>1. PICK d : d = [net |-> c.net, addr |-> c.addr, md |-> md, at |-> c.at]
  OBVIOUS
<1>2. [c EXCEPT !.md = md] = d
  BY <1>1 DEF Identified
<1>3. [d EXCEPT !.at = at] = [net |-> c.net, addr |-> c.addr, md |-> md, at |-> at]
  BY <1>1
<1>4. [c EXCEPT !.md = md, !.at = at] = [[c EXCEPT !.md = md] EXCEPT !.at = at]
  OBVIOUS
<1> QED
  BY <1>2, <1>3, <1>4

LEMMA CallKeeps ==
  ASSUME ProcInv, NEW n \in Tailnet,
         \/ Signal \/ Intercept(n) \/ Return(n)
         \/ \E addr \in Addr, claimed \in Claims : Arrive(n, addr, claimed)
         \/ \E config \in db.configs, data \in Data, now \in Clock :
               Write(n, config, data, now)
  PROVE  ProcInv'
<1> USE DEF MainPlaces, SrvPlaces, Tailnet
<1>1. CASE Signal
  BY <1>1 DEF Signal, migrationVars, ProcInv, OnlyFirstStops, NoCallCut, CallServed, Identified, Peer
<1>2. CASE Return(n)
  BY <1>2 DEF Return, migrationVars, ProcInv, OnlyFirstStops, NoCallCut, CallServed, Identified, Peer
<1>3. ASSUME NEW addr \in Addr, NEW claimed \in Claims, Arrive(n, addr, claimed)
      PROVE  ProcInv'
  <2>1. PICK c : c = [net |-> n, addr |-> addr, md |-> [acl_tags |-> claimed],
                      at |-> "intercept"]
    OBVIOUS
  <2>2. calls' = calls \cup {c}
    BY <1>3, <2>1 DEF Arrive
  <2>3. CallServed(c) /\ Identified(c) /\ main \in {"run", "stop", "wait"}
    BY <1>3, <2>1 DEF Arrive, CallServed, Identified, ProcInv
  <2>4. UNCHANGED <<stage, flags, main, srv, quit, signalled, groupErr, cut, broken>>
    BY <1>3 DEF Arrive, migrationVars
  <2> QED
    BY <2>2, <2>3, <2>4, CallGoesOn
<1>4. CASE Intercept(n)
  <2>1. PICK c \in calls :
           LET resp == WhoIs[LocalClient(n)][c.addr]
               pass(md) == calls' = (calls \ {c}) \cup {[c EXCEPT !.md = md,
                                                                  !.at = "handler"]}
           IN  /\ c.net = n
               /\ c.at = "intercept"
               /\ IF flags = "kernel" THEN pass([c.md EXCEPT !.acl_tags = {}])
                  ELSE \/ resp # NoPeer /\ pass(Overwrite(c.md, identitiesFromWhoIs(resp)))
                       \/ calls' = calls \ {c}
               /\ UNCHANGED <<migrationVars, flags, main, srv, quit, signalled, groupErr,
                              cut, broken, faults, writes>>
    BY <1>4 DEF Intercept
  <2>2. CallServed(c) /\ Identified(c) /\ c.net = n /\ main \in {"run", "stop", "wait"}
    BY <2>1 DEF ProcInv
  <2>3. UNCHANGED <<stage, flags, main, srv, quit, signalled, groupErr, cut, broken>>
    BY <2>1 DEF migrationVars
  <2>4. CASE calls' = calls \ {c}
    BY <2>2, <2>3, <2>4, CallGoesOn
  <2>5. CASE calls' # calls \ {c}
    <3>1. PICK d : d = [net |-> n, addr |-> c.addr,
                        md |-> [acl_tags |-> Peer(n, c.addr)], at |-> "handler"]
      OBVIOUS
    <3>2. calls' = (calls \ {c}) \cup {d}
      <4>1. PICK m : m = [acl_tags |-> Peer(n, c.addr)]
        OBVIOUS
      <4>2. [c EXCEPT !.md = m, !.at = "handler"] = d
        BY <2>2, <3>1, <4>1, CallUpdated
      <4>3. CASE flags = "kernel"
        <5>1. calls' = (calls \ {c}) \cup {[c EXCEPT !.md = [c.md EXCEPT !.acl_tags = {}],
                                                     !.at = "handler"]}
          BY <2>1, <4>3
        <5>2. [c.md EXCEPT !.acl_tags = {}] = m
          BY <2>2, <4>1, <4>3 DEF Identified, Peer
        <5> QED
          BY <4>2, <5>1, <5>2
      <4>4. CASE flags # "kernel"
        <5>1. WhoIs[n][c.addr] # NoPeer
          BY <2>1, <2>5, <4>4 DEF LocalClient
        <5>2. Peer(n, c.addr) = identitiesFromWhoIs(WhoIs[n][c.addr])
          BY <4>4, <5>1 DEF Peer, identitiesFromWhoIs
        <5>3. calls' = (calls \ {c}) \cup
                 {[c EXCEPT !.md = Overwrite(c.md, identitiesFromWhoIs(WhoIs[n][c.addr])),
                            !.at = "handler"]}
          BY <2>1, <2>5, <4>4 DEF LocalClient
        <5>4. Overwrite(c.md, identitiesFromWhoIs(WhoIs[n][c.addr])) = m
          BY <2>2, <4>1, <5>2 DEF Identified, Overwrite
        <5> QED
          BY <4>2, <5>3, <5>4
      <4> QED
        BY <4>3, <4>4
    <3>3. CallServed(d) /\ Identified(d)
      BY <2>2, <3>1 DEF CallServed, Identified
    <3>4. calls' \subseteq calls \cup {d}
      BY <3>2
    <3> QED
      BY <2>2, <2>3, <3>3, <3>4, CallGoesOn
  <2> QED
    BY <2>4, <2>5
<1>5. ASSUME NEW config \in db.configs, NEW data \in Data, NEW now \in Clock,
             Write(n, config, data, now)
      PROVE  ProcInv'
  <2>1. PICK c \in calls : calls' = (calls \ {c}) \cup {[c EXCEPT !.at = "written"]}
    BY <1>5 DEF Write
  <2>2. CallServed(c) /\ Identified(c) /\ main \in {"run", "stop", "wait"}
    BY DEF ProcInv
  <2>3. PICK d : d = [net |-> c.net, addr |-> c.addr,
                      md |-> [acl_tags |-> c.md.acl_tags], at |-> "written"]
    OBVIOUS
  <2>4. [c EXCEPT !.at = "written"] = d
    BY <2>2, <2>3 DEF Identified
  <2>5. CallServed(d) /\ Identified(d)
    BY <2>2, <2>3 DEF CallServed, Identified
  <2>6. UNCHANGED <<stage, flags, main, srv, quit, signalled, groupErr, cut, broken>>
    BY <1>5 DEF Write
  <2>7. calls' \subseteq calls \cup {d}
    BY <2>1, <2>4
  <2> QED
    BY <2>2, <2>5, <2>6, <2>7, CallGoesOn
<1> QED
  BY <1>1, <1>2, <1>3, <1>4, <1>5

LEMMA ProcInvInit == ServerInit => ProcInv
BY DEF ServerInit, ProcInv, MainPlaces, SrvPlaces, Tailnet, OnlyFirstStops, NoCallCut, CallServed, Identified, Peer

LEMMA ProcInvStep == ProcInv /\ [ServerNext]_serverVars => ProcInv'
<1> SUFFICES ASSUME ProcInv, [ServerNext]_serverVars PROVE ProcInv'
  OBVIOUS
<1>1. CASE UNCHANGED serverVars
  BY <1>1 DEF serverVars, migrationVars, procVars, ProcInv, OnlyFirstStops, NoCallCut, CallServed, Identified, Peer
<1>2. CASE Process \/ JoinFirstFails \/ ListenFails \/ Crash
  BY <1>2, ProcessKeeps
<1>3. CASE SecondFails
  BY <1>3, GoroutineKeeps DEF Tailnet
<1>4. CASE \E n \in Tailnet : Goroutine(n) \/ ServeFails(n)
  BY <1>4, GoroutineKeeps
<1>5. CASE Signal
  BY <1>5, CallKeeps DEF Tailnet
<1>6. ASSUME NEW n \in Tailnet,
             \/ Intercept(n) \/ Return(n)
             \/ \E addr \in Addr, claimed \in Claims : Arrive(n, addr, claimed)
             \/ \E config \in db.configs, data \in Data, now \in Clock :
                   Write(n, config, data, now)
      PROVE  ProcInv'
  BY <1>6, CallKeeps, Zenon
<1> QED
  BY <1>1, <1>2, <1>3, <1>4, <1>5, <1>6, Zenon DEF ServerNext

\* What is true of the process at every moment of its life.
THEOREM ServerInvariant == ServerSpec => []ProcInv
BY ProcInvInit, ProcInvStep, PTL DEF ServerSpec

\* Only a handler adds a version.
LEMMA OnlyWrites ==
  ASSUME [ServerNext]_serverVars
  PROVE  \/ UNCHANGED ever
         \/ \E n \in Tailnet, config \in db.configs, data \in Data, now \in Clock :
               Write(n, config, data, now)
<1>1. CASE UNCHANGED migrationVars
  BY <1>1 DEF migrationVars
<1>2. CASE UNCHANGED serverVars
  BY <1>1, <1>2 DEF serverVars
<1>3. CASE Connect
  BY <1>3 DEF Connect, Open
<1>4. CASE Boot
  BY <1>4 DEF Boot, NewStore, ExecSchema, ExecFlat, Inspect, ExecInTx, CommitTx, CreateIndex
<1>5. CASE BootFails \/ JoinFirstFails \/ ListenFails \/ Exit \/ Crash
  BY <1>5 DEF BootFails, JoinFirstFails, ListenFails, Exit, Crash, Gone, Close
<1>6. CASE JoinFirst \/ Listen \/ StopFirst \/ Stopped \/ Signal
  BY <1>1, <1>6 DEF JoinFirst, Listen, StopFirst, Stopped, Signal
<1>7. CASE SecondFails
  BY <1>1, <1>7 DEF SecondFails, Turn
<1>8. CASE \E n \in Tailnet : \/ Goroutine(n) \/ ServeFails(n) \/ Intercept(n) \/ Return(n)
                              \/ \E addr \in Addr, claimed \in Claims : Arrive(n, addr, claimed)
  BY <1>1, <1>8 DEF Goroutine, Serve, Drained, JoinSecond, ListenSecond, StopSecond,
                    SecondFails, Turn, ServeFails, Intercept, Return, Arrive
<1>9. CASE \E n \in Tailnet, config \in db.configs, data \in Data, now \in Clock :
             Write(n, config, data, now)
  BY <1>9
<1> QED
  BY <1>2, <1>3, <1>4, <1>5, <1>6, <1>7, <1>8, <1>9, Zenon DEF ServerNext, Process

LEMMA WriteByPeer ==
  ASSUME ProcInv, NEW n \in Tailnet, NEW config \in db.configs, NEW data, NEW now,
         Write(n, config, data, now)
  PROVE  WrittenByPeer
<1>1. PICK c \in calls :
         /\ c.at = "handler" /\ Writable(config, c.md.acl_tags)
         /\ calls' = (calls \ {c}) \cup {[c EXCEPT !.at = "written"]}
  BY DEF Write
<1>2. Identified(c) /\ Writable(config, Peer(c.net, c.addr))
  BY <1>1 DEF ProcInv, Identified
<1>3. [c EXCEPT !.at = "written"] # c
  BY <1>1, <1>2 DEF Identified
<1>4. c \in calls \ calls'
  BY <1>1, <1>3
<1>5. ever' = ever \cup {[id |-> db.inode + 1, config |-> config.id, data |-> data]}
  BY DEF Write
<1> QED
  BY <1>2, <1>4, <1>5 DEF WrittenByPeer

\* Whoever calls by whichever tailnet, and whatever the client claims to be, a new
\* version is one the peer that tailnet knows was allowed to write.
THEOREM ServerWrites == ServerSpec => WritesAuthorised
<1>1. ProcInv /\ [ServerNext]_serverVars => [WrittenByPeer]_serverVars
  <2> SUFFICES ASSUME ProcInv, [ServerNext]_serverVars PROVE WrittenByPeer
    OBVIOUS
  <2>1. CASE UNCHANGED ever
    BY <2>1 DEF WrittenByPeer
  <2>2. CASE \E n \in Tailnet, config \in db.configs, data \in Data, now \in Clock :
               Write(n, config, data, now)
    BY <2>2, WriteByPeer
  <2> QED
    BY <2>1, <2>2, OnlyWrites
<1> QED
  BY <1>1, ServerInvariant, PTL DEF ServerSpec, WritesAuthorised

\* What the second tailnet runs into never ends the context of the first.
THEOREM ServerOnlyFirstStops == ServerSpec => []OnlyFirstStops
<1>1. ProcInv => OnlyFirstStops
  BY DEF ProcInv
<1> QED
  BY <1>1, ServerInvariant, PTL

\* run() returns only when the calls of both tailnets are out.
THEOREM ServerNoCallCut == ServerSpec => []NoCallCut
<1>1. ProcInv => NoCallCut
  BY DEF ProcInv
<1> QED
  BY <1>1, ServerInvariant, PTL

-----------------------------------------------------------------------------
(* The contents, from the oldest schema to the current one *)

\* Database d has every version ever stored.  Before the rebuild a content has
\* the id of its config.
Has(d, e) == \E v \in d.contents :
                /\ v.id = e.id
                /\ v.data = e.data
                /\ IF "config_id" \in d.contentColumns THEN v.config = e.config
                                                       ELSE e.config = e.id
Holds(d) == IsDatabase(d) /\ \A e \in ever : Has(d, e)

Creates == {Create(t) : t \in {"inode", "config", "directory", "config_content",
                               "config_acl", "directory_acl"}}
Flat == {Add(t, c) : t \in {"config", "config_content"},
                     c \in {"created_at", "updated_at", "current_content_id"}}
        \cup {Do("backfillCurrent")}

Stages == {"closed", "schema", "flat", "inspectVersions", "versions", "inspectSize",
           "size", "index", "ready"}

\* The table is there once the schema has been executed.
TableMade ==
    \/ stage = "closed"
    \/ "config_content" \in db.tables
    \/ stage = "schema" /\ \E i \in 1 .. Len(todo) : todo[i] = Create("config_content")

\* The columns each stage relies on.
ColumnsMade ==
    /\ stage = "versions" => "config_id" \notin db.contentColumns
    /\ stage \in {"inspectSize", "size", "index", "ready"} =>
          "config_id" \in db.contentColumns
    /\ stage = "size" => "content_size" \notin db.contentColumns
    /\ stage \in {"index", "ready"} => "content_size" \in db.contentColumns

\* What the transaction of a migration has done to the contents so far.
Rebuilding ==
    LET versioned == ContentColumns \ {"content_size"}
        copied == {[v EXCEPT !.config = v.id] : v \in db.contents}
    IN  \/ todo = versionStatements /\ work = db
        \/ /\ todo = <<Do("createVersioned"), Do("copy"), Do("dropLegacy")>>
           /\ work.legacy = db.contents
        \/ /\ todo = <<Do("copy"), Do("dropLegacy")>>
           /\ work.legacy = db.contents
           /\ work.contentColumns = versioned
        \/ /\ todo \in {<<Do("dropLegacy")>>, <<>>}
           /\ work.contents = copied
           /\ work.contentColumns = versioned
Resizing ==
    LET columns == db.contentColumns \cup {"content_size"}
    IN  \/ todo = sizeStatements /\ work = db
        \/ /\ todo = <<Do("backfillSize"), Do("dropSize")>>
           /\ work.contents = db.contents
           /\ work.contentColumns = columns
        \/ /\ todo \in {<<Do("dropSize")>>, <<>>}
           /\ work.contents = {[v EXCEPT !.size = Len(v.data)] : v \in db.contents}
           /\ work.contentColumns = columns

MigrationInv ==
    /\ stage \in Stages
    /\ stage = "schema" => todo \in Seq(Creates)
    /\ stage = "flat" => todo \in Seq(Flat)
    /\ Holds(db)
    /\ TableMade
    /\ ColumnsMade
    /\ IsFile(work)
    /\ work.tables = db.tables \/ stage \notin {"versions", "size"}
    /\ stage = "versions" => Rebuilding
    /\ stage = "size" => Resizing

\* CREATE TABLE IF NOT EXISTS loses nothing: a table that is not there has no rows.
LEMMA CreateHolds ==
  ASSUME Holds(db), NEW t, db' = CreateTable(db, t), ever' = ever
  PROVE  /\ Holds(db)'
         /\ db'.tables = db.tables \cup {t}
<1>1. CASE t \in db.tables
  BY <1>1 DEF CreateTable, Holds, Has
<1>2. CASE t \notin db.tables
  <2>1. IsFile(db')
    BY <1>2 DEF CreateTable, Holds, IsDatabase, IsFile
  <2>2. /\ db'.contents = db.contents
        /\ db'.tables = db.tables \cup {t}
        /\ t # "config_content" => db'.contentColumns = db.contentColumns
    BY <1>2 DEF CreateTable, Holds, IsDatabase, IsFile
  <2>3. CASE t = "config_content"
    <3>1. db.contents = {}
      BY <1>2, <2>3 DEF Holds, IsDatabase
    <3>2. ever = {}
      BY <3>1 DEF Holds, Has
    <3> QED
      BY <2>1, <2>2, <3>1, <3>2 DEF Holds, IsDatabase
  <2>4. CASE t # "config_content"
    BY <2>1, <2>2, <2>4 DEF Holds, Has, IsDatabase
  <2> QED
    BY <2>3, <2>4
<1> QED
  BY <1>1, <1>2

\* Nor do the flat migrations, none of which adds a column the contents depend on.
LEMMA FlatHolds ==
  ASSUME Holds(db), NEW s \in Flat, db' = Result(s, db), ever' = ever
  PROVE  /\ Holds(db)'
         /\ db'.tables = db.tables
<1>1. CASE s = Do("backfillCurrent")
  <2>1. db' = BackfillCurrent(db)
    BY <1>1 DEF Do, Result
  <2>2. IsFile(db') /\ db'.contents = db.contents /\ db'.tables = db.tables
        /\ db'.contentColumns = db.contentColumns
    BY <2>1 DEF BackfillCurrent, Holds, IsDatabase, IsFile
  <2> QED
    BY <2>2 DEF Holds, Has, IsDatabase
<1>2. ASSUME NEW t \in {"config", "config_content"},
             NEW c \in {"created_at", "updated_at", "current_content_id"},
             s = Add(t, c)
      PROVE  Holds(db)' /\ db'.tables = db.tables
  <2>1. db' = AddColumn(db, t, c)
    BY <1>2 DEF Add, Result
  <2>2. IsFile(db') /\ db'.contents = db.contents /\ db'.tables = db.tables
    BY <2>1 DEF AddColumn, Holds, IsDatabase, IsFile
  <2>3. db'.contentColumns \in {db.contentColumns, db.contentColumns \cup {c}}
    BY <2>1 DEF AddColumn, Holds, IsDatabase, IsFile
  <2>4. /\ "config_id" \in db'.contentColumns <=> "config_id" \in db.contentColumns
        /\ "content_size" \in db'.contentColumns <=> "content_size" \in db.contentColumns
    BY <2>3
  <2> QED
    BY <2>2, <2>4 DEF Holds, Has, IsDatabase
<1> QED
  BY <1>1, <1>2 DEF Flat

\* The file a migration commits: with the columns it set out to make.
LEMMA RebuiltHolds ==
  ASSUME Holds(db), "config_id" \notin db.contentColumns, IsFile(work),
         work.tables = db.tables,
         work.contents = {[v EXCEPT !.config = v.id] : v \in db.contents},
         work.contentColumns = ContentColumns \ {"content_size"}
  PROVE  Holds(work) /\ "config_id" \in work.contentColumns
<1>1. /\ "config_id" \in work.contentColumns
      /\ "content_size" \notin work.contentColumns
  BY DEF ContentColumns
<1>2. \A v \in db.contents :
         /\ IsRow([v EXCEPT !.config = v.id])
         /\ [v EXCEPT !.config = v.id].id = v.id
         /\ [v EXCEPT !.config = v.id].data = v.data
         /\ [v EXCEPT !.config = v.id].config = v.id
  BY DEF Holds, IsDatabase, IsRow
<1>3. IsDatabase(work)
  BY <1>1, <1>2 DEF Holds, IsDatabase
<1>4. ASSUME NEW e \in ever PROVE Has(work, e)
  <2>1. PICK v \in db.contents : v.id = e.id /\ v.data = e.data /\ e.config = e.id
    BY DEF Holds, Has
  <2>2. [v EXCEPT !.config = v.id] \in work.contents
    OBVIOUS
  <2> QED
    BY <1>1, <1>2, <2>1, <2>2 DEF Has
<1> QED
  BY <1>1, <1>3, <1>4 DEF Holds

LEMMA ResizedHolds ==
  ASSUME Holds(db), "config_id" \in db.contentColumns, IsFile(work),
         work.tables = db.tables,
         work.contents = {[v EXCEPT !.size = Len(v.data)] : v \in db.contents},
         work.contentColumns = db.contentColumns \cup {"content_size"}
  PROVE  /\ Holds(work)
         /\ "config_id" \in work.contentColumns
         /\ "content_size" \in work.contentColumns
<1>1. /\ "config_id" \in work.contentColumns
      /\ "content_size" \in work.contentColumns
  OBVIOUS
<1>2. \A v \in db.contents :
         /\ IsRow([v EXCEPT !.size = Len(v.data)])
         /\ [v EXCEPT !.size = Len(v.data)].id = v.id
         /\ [v EXCEPT !.size = Len(v.data)].data = v.data
         /\ [v EXCEPT !.size = Len(v.data)].config = v.config
         /\ [v EXCEPT !.size = Len(v.data)].size = Len(v.data)
  BY DEF Holds, IsDatabase, IsRow
<1>3. IsDatabase(work)
  <2>1. \A v \in work.contents : IsRow(v) /\ v.size = Len(v.data)
    BY <1>2
  <2>2. work.contents # {} => db.contents # {}
    OBVIOUS
  <2> QED
    BY <2>1, <2>2 DEF Holds, IsDatabase
<1>4. ASSUME NEW e \in ever PROVE Has(work, e)
  <2>1. PICK v \in db.contents : v.id = e.id /\ v.data = e.data /\ v.config = e.config
    BY DEF Holds, Has
  <2>2. [v EXCEPT !.size = Len(v.data)] \in work.contents
    OBVIOUS
  <2> QED
    BY <1>1, <1>2, <2>1, <2>2 DEF Has
<1> QED
  BY <1>1, <1>3, <1>4 DEF Holds

LEMMA OpenKeeps ==
  ASSUME MigrationInv, Open
  PROVE  MigrationInv'
<1>1. schema \in Seq(Creates) /\ Len(schema) = 6 /\ schema[4] = Create("config_content")
  BY DEF schema, Creates
<1>2. UNCHANGED <<db, ever>> /\ work' = db /\ stage' = "schema" /\ todo' = schema
  BY DEF Open, Goto
<1>3. TableMade'
  BY <1>1, <1>2 DEF TableMade
<1> QED
  BY <1>1, <1>2, <1>3
  DEF MigrationInv, Holds, Has, IsDatabase, ColumnsMade, Stages

LEMMA CloseKeeps ==
  ASSUME MigrationInv, Close
  PROVE  MigrationInv'
BY DEF Close, Goto, MigrationInv, Holds, Has, IsDatabase, ColumnsMade, TableMade, Stages

LEMMA CreateFacts ==
  ASSUME NEW s, NEW t, s = Create(t), NEW d
  PROVE  s.table = t /\ Result(s, d) = CreateTable(d, t)
BY DEF Create, Result

LEMMA SchemaKeeps ==
  ASSUME MigrationInv, ExecSchema
  PROVE  MigrationInv'
<1>1. todo \in Seq(Creates) /\ stage = "schema" /\ Holds(db)
  BY DEF ExecSchema, MigrationInv
<1>2. CASE todo = <<>>
  <2>1. stage' = "flat" /\ todo' = migrations /\ UNCHANGED <<db, work, ever>>
    BY <1>2 DEF ExecSchema, Goto
  <2>2. migrations \in Seq(Flat)
    BY DEF migrations, Flat
  <2>3. "config_content" \in db.tables
    BY <1>1, <1>2 DEF MigrationInv, TableMade
  <2> QED
    BY <2>1, <2>2, <2>3 DEF MigrationInv, Holds, Has, ColumnsMade, TableMade, Stages
<1>3. CASE todo # <<>>
  <2>1. /\ stage' = "schema" /\ todo' = Tail(todo) /\ db' = Result(Head(todo), db)
        /\ UNCHANGED <<work, ever>>
    BY <1>3 DEF ExecSchema, Goto
  <2>2. Head(todo) \in Creates /\ Tail(todo) \in Seq(Creates) /\ Head(todo) = todo[1]
        /\ Len(Tail(todo)) = Len(todo) - 1
        /\ \A i \in 1 .. Len(Tail(todo)) : Tail(todo)[i] = todo[i + 1]
    BY <1>1, <1>3, HeadTailProperties, EmptySeq
  <2>3. PICK t \in {"inode", "config", "directory", "config_content", "config_acl",
                   "directory_acl"} : Head(todo) = Create(t)
    BY <2>2 DEF Creates
  <2>4. db' = CreateTable(db, t)
    BY <2>1, <2>3, CreateFacts
  <2>5. Holds(db)' /\ db'.tables = db.tables \cup {t}
    BY <1>1, <2>1, <2>4, CreateHolds
  <2>6. TableMade'
    <3>1. CASE "config_content" \in db.tables
      BY <2>5, <3>1 DEF TableMade
    <3>2. CASE "config_content" \notin db.tables
      <4>1. PICK i \in 1 .. Len(todo) : todo[i] = Create("config_content")
        BY <1>1, <3>2 DEF MigrationInv, TableMade
      <4>2. CASE i = 1
        BY <2>2, <2>3, <2>5, <4>1, <4>2, CreateFacts DEF TableMade
      <4>3. CASE i # 1
        <5>1. i - 1 \in 1 .. Len(Tail(todo)) /\ Tail(todo)[i - 1] = todo[i]
          BY <1>1, <2>2, <4>1, <4>3
        <5> QED
          BY <2>1, <4>1, <5>1 DEF TableMade
      <4> QED
        BY <4>2, <4>3
    <3> QED
      BY <3>1, <3>2
  <2> QED
    BY <2>1, <2>2, <2>5, <2>6 DEF MigrationInv, ColumnsMade, Stages
<1> QED
  BY <1>2, <1>3

LEMMA FlatKeeps ==
  ASSUME MigrationInv, ExecFlat
  PROVE  MigrationInv'
<1>1. todo \in Seq(Flat) /\ stage = "flat" /\ Holds(db) /\ "config_content" \in db.tables
  BY DEF ExecFlat, MigrationInv, TableMade
<1>2. CASE todo = <<>>
  <2>1. stage' = "inspectVersions" /\ todo' = <<>> /\ UNCHANGED <<db, work, ever>>
    BY <1>2 DEF ExecFlat, Goto
  <2> QED
    BY <1>1, <2>1 DEF MigrationInv, Holds, Has, ColumnsMade, TableMade, Stages
<1>3. CASE todo # <<>>
  <2>1. /\ stage' = "flat" /\ todo' = Tail(todo)
        /\ db' = db \/ db' = Result(Head(todo), db)
        /\ UNCHANGED <<work, ever>>
    BY <1>3 DEF ExecFlat, Goto
  <2>2. Head(todo) \in Flat /\ Tail(todo) \in Seq(Flat)
    BY <1>1, <1>3, HeadTailProperties, EmptySeq
  <2>3. Holds(db)' /\ db'.tables = db.tables
    <3>1. CASE db' = db
      BY <1>1, <2>1, <3>1 DEF Holds, Has
    <3>2. CASE db' = Result(Head(todo), db)
      BY <1>1, <2>1, <2>2, <3>2, FlatHolds
    <3> QED
      BY <2>1, <3>1, <3>2
  <2> QED
    BY <1>1, <2>1, <2>2, <2>3 DEF MigrationInv, ColumnsMade, TableMade, Stages
<1> QED
  BY <1>2, <1>3

LEMMA InspectKeeps ==
  ASSUME MigrationInv, Inspect
  PROVE  MigrationInv'
<1>1. /\ "config_content" \in db.tables
      /\ UNCHANGED <<db, ever>> /\ work' = db
  BY DEF Inspect, MigrationInv, TableMade
<1>2. Holds(db)' /\ IsFile(work)'
  BY <1>1 DEF MigrationInv, Holds, Has, IsDatabase
<1>3. \/ stage' = "inspectSize" /\ "config_id" \in db.contentColumns
      \/ /\ stage' = "versions" /\ todo' = versionStatements
         /\ "config_id" \notin db.contentColumns
      \/ /\ stage' = "index" /\ "config_id" \in db.contentColumns
         /\ "content_size" \in db.contentColumns
      \/ /\ stage' = "size" /\ todo' = sizeStatements /\ "config_id" \in db.contentColumns
         /\ "content_size" \notin db.contentColumns
  BY DEF Inspect, Goto, MigrationInv, ColumnsMade
<1> QED
  BY <1>1, <1>2, <1>3
  DEF MigrationInv, ColumnsMade, TableMade, Stages, Rebuilding, Resizing

\* The statements of the two transactions, on the file they see.
LEMMA RebuildFacts ==
  ASSUME NEW d, IsFile(d), NEW s
  PROVE  /\ s = Do("rename") =>
              /\ IsFile(Result(s, d)) /\ Result(s, d).tables = d.tables
              /\ Result(s, d).legacy = d.contents
         /\ s = Do("createVersioned") =>
              /\ IsFile(Result(s, d)) /\ Result(s, d).tables = d.tables
              /\ Result(s, d).legacy = d.legacy
              /\ Result(s, d).contentColumns = ContentColumns \ {"content_size"}
         /\ s = Do("copy") =>
              /\ IsFile(Result(s, d)) /\ Result(s, d).tables = d.tables
              /\ Result(s, d).contentColumns = d.contentColumns
              /\ Result(s, d).contents = {[v EXCEPT !.config = v.id] : v \in d.legacy}
         /\ s = Do("dropLegacy") =>
              /\ IsFile(Result(s, d)) /\ Result(s, d).tables = d.tables
              /\ Result(s, d).contentColumns = d.contentColumns
              /\ Result(s, d).contents = d.contents
<1>1. CASE s = Do("rename")
  BY <1>1 DEF Do, Result, IsFile
<1>2. CASE s = Do("createVersioned")
  BY <1>2 DEF Do, Result, IsFile
<1>3. CASE s = Do("copy")
  BY <1>3 DEF Do, Result, IsFile
<1>4. CASE s = Do("dropLegacy")
  BY <1>4 DEF Do, Result, IsFile
<1> QED
  BY <1>1, <1>2, <1>3, <1>4

LEMMA ResizeFacts ==
  ASSUME NEW d, IsFile(d), NEW s
  PROVE  /\ s = Add("config_content", "content_size") =>
              /\ IsFile(Result(s, d)) /\ Result(s, d).tables = d.tables
              /\ Result(s, d).contents = d.contents
              /\ Result(s, d).contentColumns = d.contentColumns \cup {"content_size"}
         /\ s = Do("backfillSize") =>
              /\ IsFile(Result(s, d)) /\ Result(s, d).tables = d.tables
              /\ Result(s, d).contentColumns = d.contentColumns
              /\ Result(s, d).contents = {[v EXCEPT !.size = Len(v.data)] : v \in d.contents}
         /\ s = Do("dropSize") =>
              /\ IsFile(Result(s, d)) /\ Result(s, d).tables = d.tables
              /\ Result(s, d).contentColumns = d.contentColumns
              /\ Result(s, d).contents = d.contents
<1>1. CASE s = Add("config_content", "content_size")
  <2>1. Result(s, d) = AddColumn(d, "config_content", "content_size")
    BY <1>1 DEF Add, Result
  <2>2. Result(s, d) = [d EXCEPT !.contentColumns = @ \cup {"content_size"}]
    BY <2>1 DEF AddColumn
  <2> QED
    BY <1>1, <2>2 DEF IsFile, Add, Do
<1>2. CASE s = Do("backfillSize")
  BY <1>2 DEF Do, Add, Result, IsFile
<1>3. CASE s = Do("dropSize")
  BY <1>3 DEF Do, Add, Result, IsFile
<1> QED
  BY <1>1, <1>2, <1>3

LEMMA RebuildKeeps ==
  ASSUME MigrationInv, ExecInTx, stage = "versions"
  PROVE  IsFile(work)' /\ (work.tables = db.tables)' /\ Rebuilding'
<1>1. /\ IsFile(work) /\ work.tables = db.tables /\ Rebuilding /\ Holds(db)
      /\ UNCHANGED <<db, ever>> /\ todo # <<>>
      /\ work' = Result(Head(todo), work) /\ todo' = Tail(todo)
  BY DEF MigrationInv, ExecInTx
<1>2. CASE todo = versionStatements /\ work = db
  <2>1. /\ Head(todo) = Do("rename")
        /\ todo' = <<Do("createVersioned"), Do("copy"), Do("dropLegacy")>>
    BY <1>1, <1>2 DEF versionStatements
  <2> QED
    BY <1>1, <1>2, <2>1, RebuildFacts DEF Rebuilding
<1>3. CASE /\ todo = <<Do("createVersioned"), Do("copy"), Do("dropLegacy")>>
           /\ work.legacy = db.contents
  <2>1. Head(todo) = Do("createVersioned") /\ todo' = <<Do("copy"), Do("dropLegacy")>>
    BY <1>1, <1>3
  <2> QED
    BY <1>1, <1>3, <2>1, RebuildFacts DEF Rebuilding
<1>4. CASE /\ todo = <<Do("copy"), Do("dropLegacy")>>
           /\ work.legacy = db.contents
           /\ work.contentColumns = ContentColumns \ {"content_size"}
  <2>1. Head(todo) = Do("copy") /\ todo' = <<Do("dropLegacy")>>
    BY <1>1, <1>4
  <2> QED
    BY <1>1, <1>4, <2>1, RebuildFacts DEF Rebuilding
<1>5. CASE /\ todo = <<Do("dropLegacy")>>
           /\ work.contents = {[v EXCEPT !.config = v.id] : v \in db.contents}
           /\ work.contentColumns = ContentColumns \ {"content_size"}
  <2>1. Head(todo) = Do("dropLegacy") /\ todo' = <<>>
    BY <1>1, <1>5
  <2> QED
    BY <1>1, <1>5, <2>1, RebuildFacts DEF Rebuilding
<1> QED
  BY <1>1, <1>2, <1>3, <1>4, <1>5 DEF Rebuilding

LEMMA ResizeKeeps ==
  ASSUME MigrationInv, ExecInTx, stage = "size"
  PROVE  IsFile(work)' /\ (work.tables = db.tables)' /\ Resizing'
<1>1. /\ IsFile(work) /\ work.tables = db.tables /\ Resizing /\ Holds(db)
      /\ UNCHANGED <<db, ever>> /\ todo # <<>>
      /\ work' = Result(Head(todo), work) /\ todo' = Tail(todo)
  BY DEF MigrationInv, ExecInTx
<1>2. CASE todo = sizeStatements /\ work = db
  <2>1. /\ Head(todo) = Add("config_content", "content_size")
        /\ todo' = <<Do("backfillSize"), Do("dropSize")>>
    BY <1>1, <1>2 DEF sizeStatements
  <2> QED
    BY <1>1, <1>2, <2>1, ResizeFacts DEF Resizing
<1>3. CASE /\ todo = <<Do("backfillSize"), Do("dropSize")>>
           /\ work.contents = db.contents
           /\ work.contentColumns = db.contentColumns \cup {"content_size"}
  <2>1. Head(todo) = Do("backfillSize") /\ todo' = <<Do("dropSize")>>
    BY <1>1, <1>3
  <2> QED
    BY <1>1, <1>3, <2>1, ResizeFacts DEF Resizing
<1>4. CASE /\ todo = <<Do("dropSize")>>
           /\ work.contents = {[v EXCEPT !.size = Len(v.data)] : v \in db.contents}
           /\ work.contentColumns = db.contentColumns \cup {"content_size"}
  <2>1. Head(todo) = Do("dropSize") /\ todo' = <<>>
    BY <1>1, <1>4
  <2> QED
    BY <1>1, <1>4, <2>1, ResizeFacts DEF Resizing
<1> QED
  BY <1>1, <1>2, <1>3, <1>4 DEF Resizing

LEMMA InTxKeeps ==
  ASSUME MigrationInv, ExecInTx
  PROVE  MigrationInv'
<1>1. stage \in {"versions", "size"} /\ UNCHANGED <<db, stage, ever>>
  BY DEF ExecInTx
<1>2. /\ IsFile(work)' /\ (work.tables = db.tables)'
      /\ stage = "versions" => Rebuilding'
      /\ stage = "size" => Resizing'
  BY <1>1, RebuildKeeps, ResizeKeeps
<1> QED
  BY <1>1, <1>2 DEF MigrationInv, Holds, Has, ColumnsMade, TableMade, Stages

LEMMA CommitKeeps ==
  ASSUME MigrationInv, CommitTx
  PROVE  MigrationInv'
<1>1. /\ todo = <<>> /\ db' = work /\ UNCHANGED <<work, ever>>
      /\ IsFile(work) /\ work.tables = db.tables /\ Holds(db)
      /\ "config_content" \in db.tables
  BY DEF CommitTx, MigrationInv, TableMade
<1>2. CASE stage = "versions"
  <2>1. stage' = "inspectSize"
    BY <1>2 DEF CommitTx, Goto
  <2>2. /\ work.contents = {[v EXCEPT !.config = v.id] : v \in db.contents}
        /\ work.contentColumns = ContentColumns \ {"content_size"}
    BY <1>1, <1>2 DEF MigrationInv, Rebuilding, versionStatements
  <2>3. Holds(work) /\ "config_id" \in work.contentColumns
    BY <1>1, <1>2, <2>2, RebuiltHolds DEF MigrationInv, ColumnsMade
  <2>4. Holds(db)'
    BY <1>1, <2>3 DEF Holds, Has
  <2> QED
    BY <1>1, <2>1, <2>3, <2>4 DEF MigrationInv, ColumnsMade, TableMade, Stages
<1>3. CASE stage = "size"
  <2>1. stage' = "index"
    BY <1>3 DEF CommitTx, Goto
  <2>2. /\ work.contents = {[v EXCEPT !.size = Len(v.data)] : v \in db.contents}
        /\ work.contentColumns = db.contentColumns \cup {"content_size"}
    BY <1>1, <1>3 DEF MigrationInv, Resizing, sizeStatements
  <2>3. /\ Holds(work) /\ "config_id" \in work.contentColumns
        /\ "content_size" \in work.contentColumns
    BY <1>1, <1>3, <2>2, ResizedHolds DEF MigrationInv, ColumnsMade
  <2>4. Holds(db)'
    BY <1>1, <2>3 DEF Holds, Has
  <2> QED
    BY <1>1, <2>1, <2>3, <2>4 DEF MigrationInv, ColumnsMade, TableMade, Stages
<1> QED
  BY <1>2, <1>3 DEF CommitTx

LEMMA IndexKeeps ==
  ASSUME MigrationInv, CreateIndex
  PROVE  MigrationInv'
BY DEF CreateIndex, Goto, MigrationInv, Holds, Has, ColumnsMade, TableMade, Stages

LEMMA WriteKeeps ==
  ASSUME MigrationInv, ProcInv, NEW n, NEW config, NEW data, NEW now,
         Write(n, config, data, now)
  PROVE  MigrationInv'
<1>1. stage = "ready" /\ UNCHANGED <<work, stage, todo>>
  BY DEF Write, ProcInv
<1>2. PICK new : new = [id |-> db.inode + 1, config |-> config.id, data |-> data,
                        size |-> Len(data), created |-> now]
  OBVIOUS
<1>3. /\ IsFile(db)' /\ db'.contents = db.contents \cup {new}
      /\ db'.tables = db.tables /\ db'.contentColumns = db.contentColumns
  BY <1>2 DEF Write, MigrationInv, Holds, IsDatabase, IsFile
<1>4. PICK e : e = [id |-> db.inode + 1, config |-> config.id, data |-> data]
  OBVIOUS
<1>5. ever' = ever \cup {e}
  BY <1>4 DEF Write
<1>6. /\ IsRow(new) /\ new.size = Len(new.data) /\ new.id = e.id /\ new.data = e.data
      /\ new.config = e.config
  BY <1>2, <1>4 DEF IsRow
<1>7. /\ Holds(db) /\ "config_content" \in db.tables /\ "config_id" \in db.contentColumns
      /\ "content_size" \in db.contentColumns
  BY <1>1 DEF MigrationInv, TableMade, ColumnsMade
<1>8. IsDatabase(db)'
  BY <1>3, <1>6, <1>7 DEF Holds, IsDatabase
<1>9. \A f \in ever' : Has(db, f)'
  BY <1>3, <1>5, <1>6, <1>7 DEF Holds, Has
<1>10. Holds(db)'
  BY <1>8, <1>9 DEF Holds
<1> QED
  BY <1>1, <1>3, <1>7, <1>10 DEF MigrationInv, TableMade, ColumnsMade, Stages

LEMMA MigrationInvInit == ServerInit => MigrationInv
<1> SUFFICES ASSUME ServerInit PROVE MigrationInv
  OBVIOUS
<1>1. IsDatabase(db) /\ work = db /\ stage = "closed" /\ todo = <<>>
  BY GenerationAssumption DEF ServerInit, MigrationInit
<1>2. ASSUME NEW e \in ever PROVE Has(db, e)
  <2>1. PICK v \in db.contents :
           e = [id |-> v.id, data |-> v.data,
                config |-> IF "config_id" \in db.contentColumns THEN v.config ELSE v.id]
    BY DEF ServerInit, MigrationInit
  <2> QED
    BY <2>1 DEF Has
<1> QED
  BY <1>1, <1>2 DEF MigrationInv, Holds, IsDatabase, ColumnsMade, TableMade, Stages

LEMMA MigrationInvStep == MigrationInv /\ ProcInv /\ [ServerNext]_serverVars => MigrationInv'
<1> SUFFICES ASSUME MigrationInv, ProcInv, [ServerNext]_serverVars PROVE MigrationInv'
  OBVIOUS
<1>1. ASSUME UNCHANGED migrationVars PROVE MigrationInv'
  BY <1>1 DEF migrationVars, MigrationInv, Holds, Has, ColumnsMade, TableMade, Rebuilding,
              Resizing
<1>2. CASE UNCHANGED serverVars
  BY <1>1, <1>2 DEF serverVars
<1>3. CASE Connect
  BY <1>3, OpenKeeps DEF Connect
<1>4. CASE Boot
  BY <1>4, SchemaKeeps, FlatKeeps, InspectKeeps, InTxKeeps, CommitKeeps, IndexKeeps
  DEF Boot, NewStore
<1>5. CASE BootFails \/ JoinFirstFails \/ ListenFails \/ Exit \/ Crash
  BY <1>5, CloseKeeps DEF BootFails, JoinFirstFails, ListenFails, Exit, Crash, Gone
<1>6. CASE JoinFirst \/ Listen \/ StopFirst \/ Stopped \/ Signal
  BY <1>1, <1>6 DEF JoinFirst, Listen, StopFirst, Stopped, Signal
<1>7. CASE SecondFails
  BY <1>1, <1>7 DEF SecondFails, Turn
<1>8. CASE \E n \in Tailnet : Goroutine(n) \/ ServeFails(n) \/ Intercept(n) \/ Return(n)
  BY <1>1, <1>8 DEF Goroutine, Serve, Drained, JoinSecond, ListenSecond, StopSecond,
                    SecondFails, Turn, ServeFails, Intercept, Return
<1>9. CASE \E n \in Tailnet, addr \in Addr, claimed \in Claims : Arrive(n, addr, claimed)
  BY <1>1, <1>9 DEF Arrive
<1>10. CASE \E n \in Tailnet, config \in db.configs, data \in Data, now \in Clock :
              Write(n, config, data, now)
  BY <1>10, WriteKeeps
<1> QED
  BY <1>2, <1>3, <1>4, <1>5, <1>6, <1>7, <1>8, <1>9, <1>10, Zenon DEF ServerNext, Process

\* Wherever a start is cut off, the database stands at a boundary of the migrations
\* and holds what was ever stored; a transaction in progress is as far as its
\* statements say.
THEOREM ServerMigration == ServerSpec => []MigrationInv
BY ServerInvariant, MigrationInvInit, MigrationInvStep, PTL DEF ServerSpec

\* No version is lost between the oldest schema and the current one, and none
\* changes its config or its size.
THEOREM ServerContentsKept == ServerSpec => []ContentsKept
<1>1. MigrationInv => ContentsKept
  BY DEF MigrationInv, Holds, Has, IsDatabase, ColumnsMade, ContentsKept
<1> QED
  BY <1>1, ServerMigration, PTL

=============================================================================
