# configfs in TLA+

configfs keeps small files ("configs") in a tree of directories in a SQLite
database, serves them over gRPC to callers identified by Tailscale, and mounts
them with a FUSE client; a Pulumi provider manages them as resources.  This
directory holds TLA+ models of the store, its transactions and migrations, the
gRPC server and its process, and the two clients, model-checked with TLC, and
proofs about all of them checked by TLAPS.

## The system

| component | code | state | operations |
|---|---|---|---|
| access decisions | `internal/proto/extra.go` | none | `aclGrants`, `Config.Allows`, `Directory.Allows` |
| store | `internal/store/sqlite/store.go` | tables `inode`, `directory`, `directory_acl`, `config`, `config_acl`, `config_content` | `CreateDirectory`, `UpdateDirectory`, `DeleteDirectory`, `Upsert`, `Delete`; reads `GetConfigByID`, `GetDirectoryByID`, `DirectoryChain`, `TreeForACLTags` |
| connection pool, transactions | same (`NewStore`, `withTx`, `querier`) | one connection, the open transaction | begin, statement, commit, roll back |
| migrations | same (`NewStore`, `migrateContentVersions`, `migrateContentSize`) | the schema | one statement at a time, then two rebuilding transactions |
| gRPC handlers | `internal/api/server.go` | per call: what it has read | `List`, `GetConfig`, `SetConfig`, `DeleteConfig`, `CreateDirectory`, `GetDirectory`, `UpdateDirectory`, `DeleteDirectory` |
| FUSE client | `internal/fs/fs.go` | a snapshot of the tree, open handles, access times | refresh every 10 s, lookup, read, write, create, remove, mkdir, rmdir, mount and unmount |
| Pulumi provider | `cmd/pulumi/main.go` | the resource state Pulumi keeps | check, create, read, update, delete, diff |
| server command | `cmd/server/main.go` | listeners of up to two tailnets | join, serve, graceful stop |
| FUSE command | `cmd/fs/main.go` | the mount | load, make the mount point, unmount what is left over, mount, serve, close |
| logging, generated code | `internal/log`, `internal/proto/*.pb.go` | none | |

How they interact.  A client (FUSE, Pulumi) calls a handler.  An interceptor
puts the caller's identities into the request.  The handler runs SELECTs on the
pool to decide, then one transaction of the store.  The pool holds one
connection, so transactions exclude each other and each SELECT outside a
transaction runs whole, but other handlers run between two SELECTs and between
the last SELECT and the transaction.  The clients share nothing with the server
but these calls, and each keeps a copy of what it has read: the FUSE client a
snapshot of the tree, Pulumi the state of its stack.

What is hard here: decisions on rows that other calls change before the
decision is used; `List`, which builds one tree from four queries; two views of
the directory tree (by path and by `parent_id`) that must agree; uniqueness
without unique indexes; `current_content_id`, a pointer without a foreign key;
a wall clock that may step back; the two spellings `""` and `"/"` of the root;
a COMMIT that fails, a caller who hangs up between two statements, a handler that
panics inside a transaction; migrations cut short; a second tailnet that fails or comes up late; the snapshot of the FUSE
client, its lock, its read-modify-write and its map of configs, keyed by a string that
two of them may share; a mount left behind by a client that
was killed; and replies the Pulumi provider never gets.  `PROJECT.json` lists
these hazards at their lines.

What makes each component correct:

- access: the levels nest, an empty list denies on a config and grants on a
  directory (definitions of `Access`, used by everything else);
- store: ids are unique and never reused; directories form one tree in both
  views; no config without its directory; a path and name mean one config; the
  current version is the last one; versions are immutable; nothing is orphaned;
  the listing and the single read agree on who sees what;
- handlers: interleaving never refuses what was allowed all the time, never
  makes a listing incoherent or incomplete, and a write changes only the object
  that was checked; an acknowledged write is stored;
- transactions: the database changes by whole transactions whatever fails, nobody
  sees another's uncommitted rows, and every call is answered;
- migrations: a restart from any intermediate schema reaches the current one
  with the same contents, and no step of them changes what the file means;
- server process: it comes up, writes only for a peer who may, is not taken down by
  the second tailnet, and stops when told without cutting a call off;
- FUSE client: the snapshot is true of the ids it shows, a write changes the bytes
  it is for, a name means the object that had it, a lookup is answered whatever
  the server does, the mount catches up with the server and comes back after a
  crash;
- Pulumi: the state of a stack is true, a refresh finds no differences that are
  not there, and repeated updates end in what the program says.

## Modules

| module | models | used by |
|---|---|---|
| `Access` | ACL entries and the decisions on them | `Store`, `StoreTx`, `Migration` |
| `Store` | the database, one action per transaction | `Api`, `Rpc`, `StoreTx`, `MCStore`, `StoreProofs`; instances in `StoreTx`, `Migration` |
| `Api` | the eight handlers, one action per SELECT and per transaction, any number of calls at once | `MCApi`, `ApiProofs` |
| `StoreTx` | the transactions statement by statement on one connection; implements `Store` | `MCStoreTx`, `StoreTxProofs` |
| `Migration` | `NewStore`, one action per statement | `Server` |
| `Server` | the server process, its two tailnets and the identities of callers | `MCServer`, `ServerProofs` |
| `Rpc` | the handlers as clients see them, one step each | `FuseClient`, `Pulumi` |
| `FuseClient` | the FUSE client and its process | `MCFuseClient`, `FuseClientProofs` |
| `Pulumi` | the Pulumi provider under its engine | `MCPulumi`, `PulumiProofs` |
| `StoreProofs` | theorems about `Store` | `ApiProofs`, `StoreTxProofs`, `FuseClientProofs`, `PulumiProofs` |
| `ApiProofs` | theorems about what the handlers of `Api` hold and write | `ApiReadProofs` |
| `ApiReadProofs` | theorems about what they answer | |
| `StoreTxProofs` | `StoreTx` implements `Store` | |
| `ServerProofs` | theorems about the process of `Server`, and about the contents through the migrations it runs | `MigrationProofs` |
| `MigrationProofs` | theorems about what the database means through the migrations | |
| `FuseClientProofs` | theorems about `FuseClient` | |
| `PulumiProofs` | theorems about `Pulumi` | |
| `MCStore`, `MCApi`, `MCStoreTx`, `MCServer`, `MCFuseClient`, `MCPulumi` | instances for TLC | |

How they fit together.  `Store` says what a transaction does.  `StoreTx` shows that
the statements on the connection do that and nothing else; `Migration` and
`Server` that the database the process serves satisfies `IInv`, the invariant of
`Store`, whatever file it was started on.  `Api` and `Rpc` build on `Store`: `Api`
looks at what happens between the statements of a handler, `Rpc` takes a handler
as one step so that the clients can be looked at between their calls.

### Access

An entry is a level and whom it is for: a tag, everyone, or nobody (empty tag).
Lists are sets of entries: order and repetition decide nothing.  `UNKNOWN`
stands for every level outside READ and WRITE.  A caller without identities is
one with the empty set of tags.

### Store

Tables are sets of rows.  A directory row holds its path and name together as a
full path, a sequence of names; the root is `<<>>` and has no row.  The string
operations on paths (`FullPath`, splitting at `/`, prefixes) become operations
on sequences.  A config row keeps the path as the client wrote it: a full path,
`Root` or `EmptyPath`.  `LikePath` is the relation SQLite's `LIKE` computes on
two paths; the only assumption about it is that it contains the descendants.

Each action is a transaction after its commit: `CreateDirectory` includes the
levels `ensureDirectories` creates, their inodes and their ACLs;
`Insert` and `Update` are the two branches of `Upsert`; the guards
(`CanCreateDirectory`, `CanDeleteDirectory`, `CanInsert`, `CanUpdate`) collect
the code's early returns.  A transaction that fails rolls back and is a
stuttering step.  `MaxInode` is a bound of the model, not of the code: SQLite does not
run out of rowids.  A call that would need an inode above it is refused, as one is
whose INSERT fails for want of disk space.  The clock is any member of `Clock`,
in no order.

`Upsert` does not look whether `GetConfigByID` has found anything (store.go:1341).
The nil has the name and the path `""`, so an update that names anything is refused
as one of another config (`CanUpdate`), and one with neither name nor path goes on to
dereference it (`UpdatePanics`).  What then happens is in `Api` and `StoreTx`.
`CanUpdateDirectory` is the refusal of another name or path, which a request may
leave out.

Left out: paths that are not canonical (a trailing slash, blanks, no leading
slash) are rejected by `requireDirectoryExists` or end `CreateDirectory` in a
rollback ("not found after creation"), so they change nothing; a directory name
with a slash in it, which `CreateDirectory` takes for several levels;
`config_content.updated_at`, which always equals `created_at`.

`InodesDistinct` lets one thing share an id: a version and its own config.  The
migration gives the version of an old config the config's id, and new versions
get ids of their own.

### Api

`h[p]` is the stack of a handler: its request, the statement it is at, what it
has read.  `LoadObject`, `LoadObjectAcl`, `LoadContent` are the queries of
`GetConfigByID` and `GetDirectoryByID`; `LoadChain`, `LoadChainAcl` those of
`DirectoryChain`; `ListPrefix` to `ListConfigAcl` the five of `List` (the ACLs
of the prefix directory are read and not used); `Commit` and `Rollback` the
transaction, an action of `Store`; `CommitLost` a transaction whose COMMIT fails
and which is answered OK.  `Panic` is the transaction that dereferences the nil of
`Upsert`: `recovery.UnaryServerInterceptor` (cmd/server/main.go:129) turns the panic
into an answer, with the code Unknown.  `Gate` holds the hierarchical gates, `Refusal` the status
of a request that does not pass.  For a chain
of the root, and for an empty list of owners, the code makes no query: the step
is there in the model and reads nothing.

A write is judged by what its handler has read: `WrittenWasChecked` says that each
object a transaction changes (its row, its ACL rows, its versions) or makes was
granted to the caller when it was read.  Whether the ACLs have been replaced between
that and the transaction the code does not look, and the property does not say.

`seen[p]` is a history variable for the properties: whether the request was
permitted in every state since it arrived, and which configs its `List` would
have shown in all of them.  `Observe` updates it in the step that changes the
state, so nothing can happen between the two.

`NoId`, for a request without an id, is no number (`ApiAssumption`): an empty id
never names a row.

The caller's identities are part of the request: `WhoIs` is external, and what
the interceptors do is to put its answer (or nothing) in the place of anything
the client sent.  Requests refused on their own fields (empty id, no config, an
id or version that is no number) never reach the store and are left out.
`SetConfig` is two operations, with an id and without.

`ApiInit` is any database the server may find: one of `Seeds` that satisfies
`IInv`, which `StoreInvariant` shows of every database this code has written.

A server restart loses the handlers in flight.  To the database that is as if
they had stopped for good, which `Api` allows at any step, as it assumes no
fairness.

### StoreTx

The variables of `Store`, which this module extends, are what is committed (`disk`
is all of them together, `Persist` puts others in their place); `work` is what the
connection sees, `conn` who has borrowed it, and `W` is `Store` over `work`.  A call runs one SELECT on the pool (`Query`), which stands for the
handler's checks, then `Check` (BEGIN and the SELECTs that may return early), its
statements one by one (`Program` lists them in the code's order, `Effect` says what
each does to the tables), and `finish`: `Commit`, `CommitFails` or `Rollback`.
`OnConnection` is `querier`: a statement inside a transaction goes to the
transaction's connection.  Any statement may fail.

`database/sql` is modelled from how the store uses it.  A caller whose context ends
(`Cancel`) gets an error while it waits (`GiveUp`); when it is in a transaction a
goroutine of the library rolls that back and returns the connection (`AwaitDone`)
while the handler still thinks it is inside, which is why `Finish` looks whether
it still has the connection.  A handler that panics in its transaction (`Panic`) is
answered for by the interceptor; its `finish` never runs, and the connection is
`Abandoned` until the same goroutine sees the call's context end and rolls back
(`Reap`).  `Restart` is a kill and a start on the file.

`changed` and `failed` are history for `ErrorMeansNothing`: the calls of which a step
has changed the committed tables, compared before and after each step, and the calls
one of whose statements has failed.

`TxRequestAssumption` says what a request may carry: fields a table can hold.
`reload`, the reading back that ends most operations, changes nothing and may fail
like the others.  `Rest` starts `createDirectory` over for the next missing level.

`Implements` is the refinement: every behaviour of `TxSpec` is, in the committed
tables, one of Store's `Spec`.

### Migration and Server

`db` is the file: which tables and columns it has and its rows.  `Result` is what a
statement does, `Duplicate` and `Broken` when it fails; `Stuck` is a failure that
would be there again at the next start.  The schema and the flat migrations commit
one by one, `ExecInTx` and `CommitTx` are the two rebuilding transactions, whose
work is lost if the process ends before the COMMIT.

`Generation` are the files a server may be started on, of any age:
`GenerationAssumption` says that their rows have the columns of a row and their
contents a table, that a size, where there is a column for it, is the length
(`IsDatabase`), and that the two tables have columns of the current schema, or the
size still on the config (`IsUpgradable`).  `Upgraded(d)` is what such a file means in
the current schema: a content without versions belongs to the config that has its id
and is its current one, and a size is the length of the content.  `MigrationInit` asks
that the store this makes satisfies `IInv` of `Store`, as what earlier releases wrote
does: none of the three generations of the run is ruled out by it.
One file is not considered: that of a release with the size on the config which was
killed in its own first start, after it had created `config` and before
`config_content`.  The current schema then makes the new `config_content`,
`migrateContentSize` finds nothing to do (store.go:233), and the old NOT NULL column
stays on `config`.

`Server` is `run()`: `Boot` takes the steps of NewStore; `main` and `srv` are the
main goroutine and those of the errgroup; `quit` the servers told to stop.  The
context ends by a signal or by an error of the errgroup.  `GracefulStop` refuses new
calls and waits for those in flight.  A call comes in with whatever `acl_tags` the
client claims (`Claims`).  `Intercept` deletes them with kernel networking, and
otherwise puts those of the peer in their place (`Overwrite`), whom the node of the
call's own tailnet (`LocalClient`) is asked for; the handler acts for the tags it then
finds in its metadata.  `Write` is a new version, with the check of SetConfig on the
config and its directory (`Writable`), so that migrations also meet databases this code
has written to.  `WritesAuthorised` compares the two ends: a version in the table and
the peer at the address the call came from.

### Rpc and FuseClient

`snap` is the snapshot, `writer` the holder of its write lock; the read lock is
taken and given back in one step, which is enabled while nobody holds the write
lock.  `Refresh` is `Lock`, `Listed` (or `Expire`) and `Install`; it is run by
LoadSnapshot, by the loop (`Tick`) and by every request that has changed
something.  `Look` is what a request reads of the snapshot, `Change` and `Send` are
the calls that change something, `Fetch` is `GetConfig`.  `nodes` are the directories
(by path) and files (by id) the kernel may send requests for; a lookup adds to
them, and so do Create and Mkdir.  The id 0 is the empty id of a node that Create
made for a config the snapshot no longer had: requests on it fail at the server.

The process goes through LoadSnapshot, EnsureMountPoint, the unmount attempts and
Mount; `mounted` outlives it and is `stale` when it was killed or Close did not
unmount.  While `link` is `away` the server does not answer; a reply can be lost
after the server has done what it was asked for, and a List may fail for other reasons.
`Others` are other clients.

Remove finds its config in a map keyed by `Config.FullPath`, a path and a name joined
by a slash, and the server takes any name.  `Key` is that string by its components:
`Segments` says which a name consists of (`Component`, with `Blank` for nothing between
two slashes), so the config `y/z` at `/x` has the key of `z` at `/x/y`.  `ConfigByPath`
is what directoryMap leaves under a key: the deepest config that makes it, as the
configs of a directory are stored before those of its subdirectories.  That is why
Remove deletes the config `z` of `/x/y` if the snapshot shows one.  If it does not,
and the kernel still asks, Remove deletes the one at `/x`: `NameMeansObject` allows
that, and it is the only other object it allows.  In the root directory, whose path
`"/"` makes a key with two slashes, Remove does not find a config stored at `""`
at all.

`Offset` and `Chunk` are where and what a write writes, `OtherLists` the ACL lists
other clients give.  `Blob`, the contents the tables can hold, bounds the length of
a file: a write that would make it longer is not made.  `FuseAssumption` says that
a client sends the size of what it sends, `RpcAssumption` that any set of entries
is a list (the client sends back what it has read, plus nothing).

Left out: the count of errors of AttemptUnmountIfNecessary, which its caller only logs
before it mounts anyway; times, modes and owners of Attr; ReadDirAll, which reads what Lookup
reads; read-only mounts; the library's own kernel cache.

### Pulumi

`program` is what the user has written, `state` what the engine keeps, both as
arguments of a directory and of a config in it.  An up deletes what is no longer
wanted or has to be replaced (dependents first), then creates and updates in the
other order; a refresh reads everything.  The first error ends a command.  `Create`,
`Read`, `ChangeResource` and `DeleteResource` are the provider's methods for both
resources, each with the call it makes; a reply may be lost after the call has
taken effect.  `doubt` and `orphaned` are history for the properties.  `Drift` is what
others do to the stack's own objects.  They put nothing in the place of what they
delete, nor into the directory of the stack: a create or a delete would then be refused
at every up until the user imports or removes it by hand.

ACL lists are sets here too, so that `aclsEqual`, which compares in order, is
modelled for lists the server returns as they were sent: it stores entries in
order and reads them back in order of their rowids.

The programs are any set of pairs of arguments that have the types of
`ConfigArgs` and `DirectoryArgs` once the name has its default
(`ProgramAssumption`).  `Text` is what a user may write for a level, the two
names the server's levels are read back as among it.

## Runs

All bounds are in the `.cfg` files and `MC` modules.

| run | shows | bounds, and why they are enough |
|---|---|---|
| `store` | ids, tree, housing, names, orphans, versions and their stamps, agreement of `List` and `GetConfig`, targets of writes | paths `/a`, `/a/b`, `/b`: a chain of two, a sibling and the root twice; 6 inodes: two configs and two directories, or one config and all three directories and a re-creation, or a config with four later versions; ACL lists empty, READ for a tag, and unknown entries with one for nobody; two clock values in any order. 610 786 states |
| `store_case` | finding | `/a`, `/b`, `/b/a` with `/a` and `/b` alike to `LIKE` |
| `store_root` | finding | one directory and both spellings of the root |
| `api_objects` | no handler goes on with a nil, but for the one of `Upsert`; what it holds stays true; no spurious refusal; the write hits what was checked | two calls in flight, any sequence of calls after each other, from a database with `/a` and `/a/f`; every operation except `List`, with ACL changes that shut the caller out and one caller not on the allow-list, an update of another directory's name and one that names nothing; 5 inodes: a new version and a new directory, or a new config. 831 155 states |
| `api_list` | the listing is one tree and complete | the same with `List` of all and of `/a` against every writer; 6 inodes: `/a/b` and a config in it, or `/a` deleted and made again with one. 269 298 states |
| `api_list_fails` | finding | the creating requests only |
| `api_lost_commit` | finding | the life of one config |
| `store_tx` | refinement of `Store`, isolation, errors change nothing, calls are answered | two handlers; a two-level directory, a change of its ACLs, a config, its update with and without content, deletes and a read; every statement may fail or be the last before a kill; an update of a config that was deleted and names nothing panics. 259 457 states |
| `server` | sound database, contents kept, writes by those who may, both tailnets, stopping, coming up | no file, the schema before timestamps and the one before per-version sizes, with two configs, one of them empty, or two versions; three faults, so that a start can be cut off, cut off again and then signalled; one call at a time in each tailnet, from an address that is a tagged node on one and a user's on the other, or has no identity, with or without a claim to the tag; one write. 83 257 states |
| `fuse` | snapshot, own writes, locality of writes, names, lookups, convergence, restarts | one request at a time beside the loop and two in a row; one change by others; two faults; a seed with an empty directory `a`, a file `f` of one byte beside it and one named `a/f` at `""`, which a file made in the directory shares its key with. 369 270 states |
| `fuse_create` | finding | the same with --create_mount_point |
| `pulumi` | state is true, no false differences, convergence | seven programs (contents, ACLs, two spellings, another directory, the path `""`, nothing, an unknown level, ACLs that shut the provider out), two edits, one change by others, one lost call or reply; 10 inodes. 123 916 states |

Two calls suffice for the properties of `Api`: each speaks of one call and of
the states of the database during it, and one other handler that starts a new
call as soon as it is done produces every sequence of transactions.

One request at a time suffices in `fuse`: requests meet each other only in the
lock of the snapshot, where the loop is the second party, and on the server,
where `Others` does what any other request would.

`CHECK_DEADLOCK FALSE` in the runs of the store: it really stops when every
rowid is used and everything is deleted.  All other passing runs check for
deadlock: a handler can always answer, a process can always start again.

Fairness, and why the code justifies it:

- `StoreTx`: a handler that can go on does, and so does the library's goroutine
  (the scheduler); a caller that waits for the connection is picked in the end
  (strong fairness: `database/sql` picks the next one at random, so being passed
  over for ever has probability zero).  Nobody has to call or to hang up.
- `Server`: the process and its goroutines run, handlers return (what `store_tx`
  shows), and whoever started the process starts it again.  Faults are
  bounded by `MaxFaults`; joining the first tailnet fails finitely often.
- `FuseClient`: as above; the timers of the loop and of List go off; whoever waits
  for the lock gets it (strong fairness: sync.RWMutex lets waiting readers in
  before the next writer, and hands over to a writer that has waited).  Calls
  without a deadline need not return, and the link need not come back;
  `Converges` asks for both in its premise.
- `Pulumi`: a command goes on, and the user runs `up --refresh` again and again.
  `StackConverges` excepts what the code cannot repair: a create whose reply was
  lost, ACLs that shut the provider out, a level that does not exist, and a
  directory with the path `""`, which is read back as `"/"` and replaced after
  every refresh.  It also excepts behaviours that have used up `MaxInode`.

The five runs that end in a violation are disagreements between the code and
what its comments say, described in `PROJECT.json`:

- `List` fails as a whole (`missing directory`) when a directory and a config in
  it appear between its queries, although every state of the database is sound;
- a COMMIT that fails is only logged, and the call answers OK;
- `DeleteDirectory` relies on `LIKE`, which ignores case and takes `_` and `%`
  in a name as wildcards, and calls an empty directory not empty;
- with `--create_mount_point` a client that was killed never comes back: the stat
  of its own stale mount fails before the unmount that would repair it;
- `""` and `"/"` hold two configs of the same name in what the tree shows as one
  directory.

The invariants `ConfigsHoused`, `NamesUnique` hold for paths as they are stored;
`TreeNamesUnique` is the stronger statement the last finding is about.

Every property of a passing run fails for an altered form of the code (the
definitions with an underscore, listed as mutants): a lost guard, an inode
counted wrong, a reset forgotten, a version overwritten or pruned.

## Proofs

Eight modules hold theorems.  They hold for all values of the constants that satisfy
the named assumptions, which TLC evaluates in every run: any names, paths, contents
and ACL lists, any number of handlers, requests or kernel threads, any Pulumi programs, any bound on
the inodes, any relation `LikePath` that contains the descendants.  Each component has
one inductive invariant, of which the properties are parts or consequences.  Those
that are more than the conjunction of a run's invariants (`ApiReadInv`, `TxInv`,
`ProcInv`, `MigrationInv`, `UpgradeInv`, `FuseInv`, `PulumiInv`) have been checked by TLC
as invariants on the instances of the table above, and so has `MeaningKept`, which no
run lists, as a property on that of `server`.

| module | invariant | properties that follow |
|---|---|---|
| `StoreProofs` | `IInv` (`StoreInvariant`) | `TypeOK`, `InodesDistinct`, `PathsUnique`, `TreeConnected`, `ConfigsHoused`, `NamesUnique`, `NoOrphans`, `CurrentIsLatest`, `FirstVersionStamp`, `ListAgreesWithGet`; of steps: `VersionsImmutable`, `IdsNeverReused`, `OneTarget` |
| `ApiProofs` | `ApiInv` (`ApiInvariant`) | `HandlerOK`, `HeldRowsTrue`; of steps: `WrittenWasChecked`, and that the tables change by steps of `Store` (`ApiImplementsStore`) |
| `ApiReadProofs` | `ApiReadInv` (`ApiReadInvariant`) | `NoSpuriousRefusal`, `ListComplete`, `ListTreeWhole` |
| `StoreTxProofs` | `TxInv` (`TxInvariant`) | `Implements`, `Isolated`, `ErrorMeansNothing`, and `IInv` of the file after a crash anywhere (`TxFileSound`) |
| `ServerProofs` | `ProcInv`, `MigrationInv` (`ServerInvariant`, `ServerMigration`) | `OnlyFirstStops`, `NoCallCut`; `ContentsKept`; of steps: `WritesAuthorised` |
| `MigrationProofs` | `UpgradeInv` (`ServerUpgrade`) | `ServesSound`; of steps: `MeaningKept` |
| `FuseClientProofs` | `FuseInv` (`FuseInvariant`) | `SnapshotTrue`; of steps: `OwnWritesVisible`, `NameMeansObject`, `WriteIsLocal`, and that the tables change by steps of `Store` (`FuseImplementsStore`) |
| `PulumiProofs` | `PulumiInv` (`PulumiInvariant`) | `StateTrue`; of steps: `ReadFindsNoDiff`, and that the tables change by steps of `Store` (`PulumiImplementsStore`) |

### Store

`IInv` is the conjunction of the invariants; none of them is inductive alone.  A
path gets one row because `Missing` looks components up by path; the new row's
`parent_id` is right because the parent has one row (`PathsUnique`), existing or
made in the same call before it (`NumberingFacts`: new ids are new and rise with
depth).  Deleting keeps the tree because the count over `parent_id` sees every
child (`TreeConnected` and the uniqueness of ids: no child of the deleted directory
is counted elsewhere), and keeps the configs housed because of the count by path.
An update keeps `CurrentIsLatest` because every id there is lies at or below `inode`
(`InodesDistinct`), so the new version's is the largest; it keeps
`FirstVersionStamp` because the version with the smallest id is left alone.  There
is one lemma per transaction (`CreateDirectoryIInv`, `UpdateDirectoryIInv`,
`DeleteDirectoryIInv`, `InsertIInv`, `UpdateIInv`, `DeleteIInv`), each with a step
per conjunct.

`ListAgreesWithGet` compares a walk over all directories with the lookup of one
chain.  Its proof goes by induction over the depth of a path, as the search for a
shallowest directory on which the two disagree: its parent has a row
(`TreeConnected`) and they agree there.  `OneTarget` follows from what each
transaction says of the ids it leaves alone: a new id is above all there are, so
making an object changes the state of no existing one, and the sets of changed ids are
empty or have one member.

### Api

A handler changes the tables in `Commit` only, whose inputs come from its request
(`TransactionIsNext`).  What it holds of an object it has read in one statement,
where ids are unique (`HeldFresh`).  Other handlers' transactions keep an object's
place and age and give new objects new ids (`NextIdStep`), so what it holds stays
true as long as there is anything under the id (`HeldStays`).  When its own
transaction runs, the object it meets by the id is therefore the one it has checked
(`TransactionWrites`); for a new or updated config the directory was found because
`HandlerOK` says so.  A call is answered Unknown only if there is nothing left under
the id of its update, and ids at or below `inode` do not come back.  `HeldRowsTrue` is not inductive without `IInv` (uniqueness of
ids), nor `WrittenWasChecked` without `HandlerOK` (a handler that commits holds the
object).

What a handler answers depends on everything it has read.  `ReadInv` says for each
place of a handler how that stands to the present tables, and `Watched` what the
history variable `seen` says of them.  Two facts carry the argument: a row that has
gone since it was read has no ACL rows left, and a directory without ACL rows is
transparent, so half a read never denies what both states grant; and a directory
with a config in it cannot go (`Pinned`), so the chain above a config that is there
all the time is one that every query of `List` sees.

### Transactions

`Linked` relates `work` to `disk` for every operation and every statement of its
program: before the first they are equal, after the last they are related by the
operation's action of `Store`, and in between each table is as far as the
statements that have run.  For `CreateDirectory` the number of statements is not
fixed: what is on `work` is, at each level, the result of making the levels so far,
numbered as `Store` numbers them.  The connection excludes others, so `disk` does
not change under a transaction, and whoever hands it on, `finish`, the library's
goroutine or a restart, leaves `work = disk`; that is `Isolated`.  A COMMIT with
nothing left to do is then a step of `Store`; `DeleteConfig` of an id that is not
there runs its statements and is a stutter, because nothing hangs on such an id
(`NoOrphans`).  `TxFileSound` joins this to `StoreInvariant`.

### Server and migrations

`ProcInv` says where the goroutines, servers and calls can be at each place of
`main`: calls live only on a server that serves, or on the first until
GracefulStop has returned, which is why `Exit` cuts none off.  The errgroup's context
ends by a failure of the first tailnet or by a signal, as the second one's goroutine
returns nil whatever happens to it.

`MigrationInv` says for each stage which tables and columns it may rely on, and for
a stage inside a transaction how far the tables on the connection are from the file
(`Rebuilding`, `Resizing`).  A statement of the schema or of the flat migrations
commits by itself and takes no row away, a rebuilding transaction changes the file in
its COMMIT only, so a start cut off anywhere leaves a database the next start knows
what to do with.  What has been stored
(`ever`) is in the file at each of them: the rebuild copies every content under its
own id with that id as its config, which is what it was before there were versions.
The size of each version is right once there is a column for it
(`GenerationAssumption` for a file that came with one).

`ServesSound` speaks of the store at the end of the migrations, where `IInv` of `Store`
has to hold of rows that no action of `Store` has written.  It is not inductive: the
schemas before do not satisfy `IInv`, as they have no versions, NULL for a current one
and no sizes.  What stays true through all of them is `IInv` of `Upgraded(db)`, and
`UpgradeInv` says that.  A table is created where there are no rows; adding a column
leaves the rows; the backfill writes the id where `Upgraded` reads it, and an id is
never NULL (`IdNotNull`); the COMMIT of the rebuild gives a version the config it had
all along, and that of the move the size it had (`CommitUpgrades`).  In each case the
file means the same before and after (`SameMeaning`), which is `MeaningKept`
(`UntilReady`).  `UpgradeInv` also keeps account of what is done: each flat migration is
either still to come or has done what it is for, even if it met its column there
already (`Done`, `FlatMeans`).  So at `ready` the columns are all there and no NULL is
left, and then a file is what it means (`ReadyIsSound`).  A `Write` adds a version above
all ids, which is its config's last and not its first (`VersionAdded`).
`SizeAssumption` says that the length of a content is a size.

### FUSE client

`FuseInv` says that every tree listed so far, the snapshot's or one still in the
hands of whoever holds the lock, is true of the ids it shows (`TreeTrue`): ids are
never reused, objects do not move, and a version stays as long as its config.  So a
request that goes by an id it has looked up meets an object that makes the key it was
asked for or none (`Meant`, `LookedUp`).  A config in the directory asked about is the
only one that deep with its key: two that are no deeper than each other differ in no
component (`SplitUnique`), and a tree shows one config for a path and a name
(`OnePerPlace`); so it is the one ConfigByPath gives (`DeepestHasKey`).  That is
`NameMeansObject`.  The lock has one holder, who lists, so no
tree in the snapshot is younger than the one it is about to install (`Locked`); with
the count of changes, `epoch`, that gives `OwnWritesVisible`.  What a Write has
fetched is still what the server has if nothing has changed since (`Fetched`), and
`Patch` on it changes the bytes it is for (`PatchFacts`), which is `WriteIsLocal`.

### Pulumi provider

`PulumiInv` says two things of a resource in the state.  What is under its id, if
anything, is at the place its arguments say (`Here`), with the path `""` of a
directory for the root: that outlives everything others do, as ids are never reused
and objects do not move (`HereStays`).  And unless it is in doubt it is there, with
the contents and the grants of its arguments (`Current`): a directory and a config
share no table, so a call for one leaves the other as it is (`CurrentStays`), and
every step that changes a resource's own tables either writes to the state what it
has left there (`RecordKeeps`) or puts the resource in doubt (`DoubtKeeps`).  A
change that is not a replacement leaves the name and the path alone, so `Here` is
what makes `ChangeKeeps` go through; `ValidStored` is where `validateACLs` is needed,
as an unknown level is not stored.  `StateTrue` follows, and `ReadFindsNoDiff`
because levels survive the way to the server and back (`RoundTrip`).

### Only model-checked

- `CallsAnswered`, `StopsWhenTold`, `ComesUp`, `LookupsAnswered`, `Converges`,
  `ComesBack`, `StackConverges`: liveness under fairness is out of the prover's reach.

Every safety property of the runs is proved.

## Plan

The components are modelled and their safety properties proved.  What is left is the
liveness of the list above, which rests on TLC and on the bounds of its runs, and what
the next section names.

## Not modelled

- logging, generated protocol code, build files: no behaviour of their own;
- TLS, DNS, Tailscale, SQLite, FUSE and the Pulumi engine themselves, except as far
  as the code relies on them (the definitions marked external);
- of the FUSE command: joining a tailnet, waiting for the local one, and parsing
  `--additional_acl_on_create`, whose result nothing reads (`fs.go` gives new files
  WRITE for everyone whatever it says);
- of the FUSE client: `Setattr`, which it does not implement, so that truncating on
  open leaves the old tail in place; and what the kernel caches;
- of the Pulumi provider: previews, schemas and connecting to the server.
