------------------------------- MODULE Pulumi -------------------------------
(***************************************************************************)
(* The Pulumi provider of cmd/pulumi/main.go: Check, Diff, Create, Read,   *)
(* Update and Delete of a directory and of a config in it, each one call   *)
(* of the server.  Calls may fail and replies may be lost; other clients   *)
(* change or delete what the stack has made.                               *)
(*                                                                         *)
(* The engine that calls the provider is external, and modelled by what    *)
(* the provider relies on: it has a program, keeps a state, deletes a      *)
(* dependent before what it depends on and creates it after, deletes       *)
(* before it replaces, and stops a command at the first error.             *)
(***************************************************************************)
EXTENDS Rpc

CONSTANTS Resource,   \* the resource "dir" and the resource "file" in it
          Text,       \* the texts of access levels
          Programs,   \* the programs the user may write
          Absent,     \* a resource that a program or the state does not have
          Unset,      \* a name the program leaves out
          MaxEdits,   \* edits of the program
          MaxDrift,   \* changes by other clients
          MaxFaults   \* calls that fail or whose replies are lost

VARIABLES program,  \* per resource: its arguments
          state,    \* per resource: its id and arguments in the stack's state
          command,  \* the command that runs: none, refresh or up
          unread,   \* resources the running refresh has still to read
          doubt,    \* for the properties: resources that someone else, or a call
                    \* without a reply, may have changed since state was written
          orphaned, \* for the properties: the reply of a Create was lost
          edits, drifts, faults

stack == <<program, state, command, unread, doubt, orphaned, edits, drifts, faults>>
pulumiVars == <<vars, stack>>

-----------------------------------------------------------------------------
(* Arguments.  An ACL entry of a program is a text and whom it is for. *)

\* The texts aclLevel knows, trimmed and in upper case.
aclLevel(text) == CASE text \in {"READ", "read"} -> "READ"
                    [] text \in {"WRITE", "write"} -> "WRITE"
                    [] OTHER -> "UNKNOWN"

aclsToProto(acls) == {[acl |-> aclLevel(e.text), who |-> e.who] : e \in acls}
aclsFromProto(acls) == {[text |-> e.acl, who |-> e.who] : e \in acls}

\* Altered form: the texts are compared.
aclsEqual_Texts(a, b) == a = b

aclsEqual(a, b) == aclsToProto(a) = aclsToProto(b)

\* Altered form: every text passes.
validateACLs_All(acls) == TRUE

validateACLs(acls) == \A e \in acls : aclLevel(e.text) # "UNKNOWN"

\* Check: the name defaults to the name of the resource.
DefaultName(r) == IF r = "dir" THEN CHOOSE n \in Name : TRUE ELSE CHOOSE n \in FileName : TRUE
Check(r, args) == IF args.name = Unset THEN [args EXCEPT !.name = DefaultName(r)] ELSE args

Inputs(r) == Check(r, program[r])
Wanted(r) == program[r] # Absent
Has(r) == state[r] # Absent

\* Altered form: a new name or path is an update like any other.
Replaces_Never(r) == FALSE

\* Diff: what changes, and whether that takes a replacement.
Replaces(r) == \/ Inputs(r).name # state[r].args.name
               \/ Inputs(r).path # state[r].args.path
HasChanges(r) == \/ Inputs(r).name # state[r].args.name
                 \/ Inputs(r).path # state[r].args.path
                 \/ Inputs(r).data # state[r].args.data
                 \/ ~ aclsEqual(Inputs(r).acls, state[r].args.acls)

\* configFromArgs and directoryFromArgs.
blobFromArgs(args) == [data |-> args.data, size |-> Len(args.data)]
FullPath(args) == Append(rootNormalised(args.path), args.name)

Arguments == [name: Name \cup FileName, path: ConfigPath, data: Data \cup {<<>>},
              acls: SUBSET [text: Text, who: Tag \cup {Everyone, Nobody}]]

\* Programs give arguments of these types; a directory has no content.
ASSUME ProgramAssumption ==
    /\ Resource = {"dir", "file"}
    /\ {"READ", "WRITE"} \subseteq Text
    /\ Absent \notin [id: Nat, args: Arguments]
    /\ \A p \in Programs, r \in Resource : p[r] # Absent =>
          LET args == Check(r, p[r])
          IN  /\ args \in Arguments
              /\ r = "dir" => FullPath(args) \in Path /\ args.data = <<>>
              /\ r = "file" => args.name \in FileName /\ blobFromArgs(args) \in Blob

\* What the server has under an id, as arguments.
DirectoryArgs(id) ==
    {[name |-> d.full[Len(d.full)], path |-> Parent(d.full), data |-> <<>>,
      acls |-> aclsFromProto(AclsOf(dirAcl, id))] : d \in {e \in dirs : e.id = id}}
ConfigArgs(id) ==
    {[name |-> c.name, path |-> c.path,
      data |-> (CHOOSE v \in contents : v.id = c.current).blob.data,
      acls |-> aclsFromProto(AclsOf(configAcl, id))] : c \in {e \in configs : e.id = id}}
Stored(r, id) == IF r = "dir" THEN DirectoryArgs(id) ELSE ConfigArgs(id)

-----------------------------------------------------------------------------
(* The engine *)

Start(c) == /\ command = "none"
            /\ command' = c
            /\ unread' = IF c = "refresh" THEN {r \in Resource : Has(r)} ELSE {}
            /\ UNCHANGED <<vars, program, state, doubt, orphaned, edits, drifts, faults>>

\* The steps an up still has to take: deletions first, the file before the
\* directory it is in; then the directory, then the file.
Doomed(r) == Has(r) /\ (Wanted(r) => Replaces(r))
Settled(r) == IF Wanted(r) THEN Has(r) /\ ~ HasChanges(r) ELSE ~ Has(r)
MayDelete(r) == Doomed(r) /\ (r = "dir" => ~ Has("file"))
MayWrite(r) == /\ Wanted(r)
               /\ \A q \in Resource : ~ Doomed(q)
               /\ r = "file" => Settled("dir")

\* A file whose directory is about to go is deleted with it.
Cascades(r) == r = "file" /\ Has("file") /\ Doomed("dir")

Finish == /\ \/ command = "up" /\ \A r \in Resource : Settled(r)
             \/ command = "refresh" /\ unread = {}
          /\ command' = IF command = "refresh" THEN "up" ELSE "none"
          /\ UNCHANGED <<vars, program, state, unread, doubt, orphaned, edits, drifts, faults>>

Keep == UNCHANGED <<program, orphaned, edits, drifts, faults>>

\* A call went well; an error ends the command.
Record(r, s) == /\ state' = [state EXCEPT ![r] = s]
                /\ doubt' = doubt \ {r}
                /\ unread' = unread \ {r}
                /\ UNCHANGED command
Fail == /\ command' = "none"
        /\ unread' = {}
        /\ UNCHANGED state

\* The reply is lost after the server has done what it was asked to.
LoseReply(r) == /\ faults < MaxFaults
                /\ faults' = faults + 1
                /\ doubt' = doubt \cup {r}
                /\ Fail
                /\ UNCHANGED <<program, edits, drifts>>

-----------------------------------------------------------------------------
(* The provider *)

CanCreate(r) == IF r = "dir" THEN CanMakeDirectory(FullPath(Inputs(r)))
                             ELSE CanSetNew(Inputs(r).path, Inputs(r).name)
DoCreate(r) ==
    IF r = "dir" THEN MakeDirectory(FullPath(Inputs(r)), aclsToProto(Inputs(r).acls))
    ELSE SetNew(Inputs(r).path, Inputs(r).name, blobFromArgs(Inputs(r)),
                aclsToProto(Inputs(r).acls))

\* The id in the reply of a creation: of the row that has the full path, or of the
\* config, the first of the two inodes it takes.
CreatedId(r) == IF r = "dir" THEN (CHOOSE d \in dirs' : d.full = FullPath(Inputs(r))).id
                             ELSE inode + 1

Create(r) ==
    /\ command = "up"
    /\ MayWrite(r) /\ ~ Has(r)
    /\ IF validateACLs(Inputs(r).acls) /\ CanCreate(r)
       THEN /\ DoCreate(r)
            /\ \/ Record(r, [id |-> CreatedId(r), args |-> Inputs(r)]) /\ Keep
               \/ LoseReply(r) /\ orphaned' = TRUE
       ELSE Fail /\ Keep /\ UNCHANGED <<vars, doubt>>

CanRead(r, id) == IF r = "dir" THEN \E d \in dirs : d.id = id /\ pathReadable(d.full, Me)
                               ELSE GetConfig(id) # {}

\* Read: a resource that is not found is gone from the state.
Read(r) ==
    /\ command = "refresh"
    /\ r \in unread
    /\ LET id == state[r].id
       IN  CASE Stored(r, id) = {} -> Record(r, Absent)
             [] Stored(r, id) # {} /\ CanRead(r, id) ->
                  Record(r, [id |-> id, args |-> CHOOSE args \in Stored(r, id) : TRUE])
             [] OTHER -> Fail /\ UNCHANGED doubt
    /\ Keep
    /\ UNCHANGED vars

\* SetConfig with the id, and UpdateDirectory.  An empty path of a directory is
\* not compared with the one stored.
CanChange(r, id) ==
    IF r = "dir" THEN /\ CanSetDirectory(id)
                      /\ \E d \in dirs : /\ d.id = id
                                         /\ d.full[Len(d.full)] = Inputs(r).name
                                         /\ Inputs(r).path \in {EmptyPath, Parent(d.full)}
                 ELSE CanSet(id, Inputs(r).path, Inputs(r).name)
DoChange(r, id) ==
    IF r = "dir" THEN SetDirectory(id, aclsToProto(Inputs(r).acls))
    ELSE Set(id, Inputs(r).path, Inputs(r).name, blobFromArgs(Inputs(r)),
             aclsToProto(Inputs(r).acls))

ChangeResource(r) ==
    /\ command = "up"
    /\ MayWrite(r) /\ Has(r) /\ HasChanges(r)
    /\ LET id == state[r].id
       IN  IF validateACLs(Inputs(r).acls) /\ CanChange(r, id)
           THEN /\ DoChange(r, id)
                /\ \/ Record(r, [id |-> id, args |-> Inputs(r)]) /\ Keep
                   \/ LoseReply(r) /\ UNCHANGED orphaned
           ELSE Fail /\ Keep /\ UNCHANGED <<vars, doubt>>

CanDrop(r, id) == IF r = "dir" THEN CanRemoveDirectory(id) ELSE CanDeleteConfig(id)
DoDrop(r, id) == IF r = "dir" THEN RemoveDirectory(id) ELSE DeleteConfig(id)

\* Delete: what is gone already is deleted.
DeleteResource(r) ==
    /\ command = "up"
    /\ MayDelete(r) \/ Cascades(r)
    /\ LET id == state[r].id
       IN  CASE Stored(r, id) = {} -> Record(r, Absent) /\ Keep /\ UNCHANGED vars
             [] Stored(r, id) # {} /\ CanDrop(r, id) ->
                  /\ DoDrop(r, id)
                  /\ \/ Record(r, Absent) /\ Keep
                     \/ LoseReply(r) /\ UNCHANGED orphaned
             [] OTHER -> Fail /\ Keep /\ UNCHANGED <<vars, doubt>>

\* A call that does not reach the server.
Unreachable == /\ command # "none"
               /\ faults < MaxFaults
               /\ faults' = faults + 1
               /\ Fail
               /\ UNCHANGED <<vars, program, doubt, orphaned, edits, drifts>>

-----------------------------------------------------------------------------
(* The user and other clients *)

Edit == /\ command = "none"
        /\ edits < MaxEdits
        /\ edits' = edits + 1
        /\ program' \in Programs \ {program}
        /\ UNCHANGED <<vars, state, command, unread, doubt, orphaned, drifts, faults>>

Open == {[acl |-> "WRITE", who |-> Everyone]}

\* Others take away or change what the stack has made.  They put nothing in its
\* place: only the user could resolve that.
Drift(r) ==
    /\ Has(r)
    /\ drifts < MaxDrift
    /\ drifts' = drifts + 1
    /\ LET id == state[r].id
       IN  IF r = "dir"
           THEN DeleteDirectory(id) \/ UpdateDirectory(id, Open)
           ELSE \/ id \in Ids(configs) /\ Delete(id)
                \/ \E c \in configs :
                      c.id = id /\ Update(id, c.path, c.name, NoContent, Open, now)
    /\ doubt' = doubt \cup {r}
    /\ UNCHANGED <<program, state, command, unread, orphaned, edits, faults>>

PulumiInit == /\ Init
              /\ program \in Programs
              /\ state = [r \in Resource |-> Absent]
              /\ command = "none"
              /\ unread = {} /\ doubt = {}
              /\ orphaned = FALSE
              /\ edits = 0 /\ drifts = 0 /\ faults = 0

Engine == \/ Finish
          \/ \E r \in Resource : Create(r) \/ Read(r) \/ ChangeResource(r) \/ DeleteResource(r)

PulumiNext == \/ Start("up") \/ Start("refresh")
              \/ Engine \/ Unreachable \/ Edit
              \/ \E r \in Resource : Drift(r)

\* A command that runs goes on, and the user runs `pulumi up --refresh` again and
\* again.
Fairness == WF_pulumiVars(Engine) /\ SF_pulumiVars(Start("refresh"))

PulumiSpec == PulumiInit /\ [][PulumiNext]_pulumiVars /\ Fairness

-----------------------------------------------------------------------------
(* Properties *)

\* The arguments as the server stores them.
SameArgs(r, a, b) == /\ a.name = b.name
                     /\ rootNormalised(a.path) = rootNormalised(b.path)
                     /\ a.data = b.data
                     /\ Storable(aclsToProto(a.acls)) = Storable(aclsToProto(b.acls))

\* What the state of the stack says of a resource is what the server has under its
\* id, and what it grants is granted, unless someone else or a call without a reply
\* has changed it since; the size stored with a content is its length.
StateTrue ==
    \A r \in Resource : Has(r) /\ r \notin doubt =>
        /\ \E args \in Stored(r, state[r].id) :
              /\ SameArgs(r, args, state[r].args)
              /\ aclsToProto(state[r].args.acls) = aclsToProto(args.acls)
        /\ r = "file" => \A v \in contents :
              v.config = state[r].id => v.blob.size = Len(v.blob.data)

\* Reading back what nobody has changed finds no difference that was not there, in
\* what takes a replacement or an update: "read" is READ.  A directory created
\* with the path "" is the exception, it is read back with the path "/".
ReadFindsNoDiff ==
    [][\A r \in Resource :
        /\ r \in unread \ unread' /\ command' = command
        /\ r \notin doubt
        /\ Wanted(r)
        /\ EmptyPath \notin {Inputs(r).path, state[r].args.path}
        => /\ Has(r)'
           /\ HasChanges(r)' = HasChanges(r)
           /\ Replaces(r)' = Replaces(r)]_pulumiVars

\* A stack whose user keeps running `up --refresh` becomes what its program says,
\* whatever others and failing calls have done to it before, unless the reply of
\* a Create was lost (the object is then there, unknown to the stack, and is
\* refused for ever) or the ACLs on the server shut the provider out.
Manageable == \A r \in Resource : Wanted(r) =>
                  /\ validateACLs(Inputs(r).acls)
                  /\ r = "dir" => Inputs(r).path # EmptyPath
InReach == \A r \in Resource :
              Has(r) /\ Stored(r, state[r].id) # {} =>
                  CanRead(r, state[r].id) /\ (r = "file" => MayWriteConfig(state[r].id))
Room == inode + 3 <= MaxInode  \* a bound: a directory and a file can be made
InPlace(r) == IF Wanted(r)
              THEN Has(r) /\ \E args \in Stored(r, state[r].id) : SameArgs(r, args, Inputs(r))
              ELSE ~ Has(r)
Deployed == \A r \in Resource : InPlace(r)
StackConverges == <>[](Manageable /\ InReach /\ ~ orphaned /\ Room) => <>[]Deployed

=============================================================================
