------------------------------- MODULE MCApi -------------------------------
(***************************************************************************)
(* Instances of Api for TLC.                                               *)
(***************************************************************************)
EXTENDS Api, TLC

CONSTANTS a, b,  \* directory names
          t, u   \* tags

Paths == {<<a>>, <<a, b>>}
Like == {<<<<a>>, <<a, b>>>>}
OneData == {<<>>}
OneSize == {0}

\* Handlers are alike.
Handlers == Permutations(Proc)

Grant(level, who) == [acl |-> level, who |-> who]

Acls == {{}, {Grant("READ", t)}, {Grant("WRITE", t)}, {Grant("WRITE", u)}}
Content == [data |-> <<>>, size |-> 0]

\* What CreateDirectory /a for t and SetConfig /a/f for t leave behind.
Dir == [id |-> 1, full |-> <<a>>, parent |-> NoParent]
Config == [id |-> 2, path |-> <<a>>, name |-> "f", current |-> 3,
           created |-> 1, updated |-> 1]
Version == [id |-> 3, config |-> 2, blob |-> Content, created |-> 1]

Used == [inode |-> 3, dirs |-> {Dir},
         dirAcl |-> {[owner |-> 1, entry |-> Grant("WRITE", t)]},
         configs |-> {Config},
         configAcl |-> {[owner |-> 2, entry |-> Grant("WRITE", t)]},
         contents |-> {Version}]

UsedSeed == {Used}

T == {t}
U == {u}

\* Requests of a caller that carries t, and one of a caller that carries u, who
\* is not on the allow-list.
GetConfigs == {[op |-> "GetConfig", tags |-> T, id |-> 2, version |-> v] : v \in {NoId, 3}}
UpdateConfigs ==
    {[op |-> "UpdateConfig", tags |-> T, id |-> 2, path |-> path, name |-> "f",
      content |-> c, acls |-> {Grant("WRITE", t)}] :
        path \in {<<a>>, Root}, c \in {Content, NoContent}}
HideConfig ==
    {[op |-> "UpdateConfig", tags |-> T, id |-> 2, path |-> <<a>>, name |-> "f",
      content |-> NoContent, acls |-> {Grant("READ", t)}]}
CreateConfigs ==
    {[op |-> "CreateConfig", tags |-> T, path |-> path, name |-> "f",
      content |-> Content, acls |-> {Grant("WRITE", t)}] : path \in {<<a>>, <<a, b>>}}
DeleteConfigs == {[op |-> "DeleteConfig", tags |-> T, id |-> i] : i \in {2, 4}}
CreateDirectories ==
    {[op |-> "CreateDirectory", tags |-> T, full |-> p, acls |-> {Grant("WRITE", t)}] :
        p \in Paths}
RefusedCreates ==
    {[op |-> "CreateDirectory", tags |-> U, full |-> <<a, b>>, acls |-> {}]}
GetDirectories == {[op |-> "GetDirectory", tags |-> T, id |-> 1]}
UpdateDirectories ==
    {[op |-> "UpdateDirectory", tags |-> T, id |-> 1, full |-> EmptyPath, acls |-> x] :
        x \in {{}, {Grant("WRITE", u)}}}
RenameDirectory ==
    {[op |-> "UpdateDirectory", tags |-> T, id |-> 1, full |-> <<a, b>>, acls |-> {}]}
\* Neither path nor name, which is what a client sends that leaves both out.
BlankUpdate ==
    {[op |-> "UpdateConfig", tags |-> T, id |-> 2, path |-> EmptyPath, name |-> EmptyName,
      content |-> NoContent, acls |-> {}]}
DeleteDirectories == {[op |-> "DeleteDirectory", tags |-> T, id |-> 1]}
Lists == {[op |-> "List", tags |-> T, id |-> i] : i \in {NoId, 1}}

\* The requests for one object, and what can get in their way.
ObjectRequests == GetConfigs \cup UpdateConfigs \cup HideConfig \cup CreateConfigs
                  \cup DeleteConfigs \cup CreateDirectories \cup RefusedCreates
                  \cup GetDirectories
                  \cup UpdateDirectories \cup RenameDirectory \cup BlankUpdate
                  \cup DeleteDirectories

\* List, and all that changes what it reads.
ListRequests == Lists \cup HideConfig \cup CreateConfigs \cup DeleteConfigs
                \cup CreateDirectories \cup UpdateDirectories \cup DeleteDirectories

\* List while a directory is made and a config put into it.
GrowRequests == {[op |-> "List", tags |-> T, id |-> NoId]}
                \cup CreateConfigs \cup CreateDirectories

\* The life of one config.
WriteRequests == GetConfigs \cup UpdateConfigs \cup CreateConfigs \cup DeleteConfigs

=============================================================================
