----------------------------- MODULE MCStoreTx -----------------------------
(***************************************************************************)
(* An instance of StoreTx for TLC.                                         *)
(***************************************************************************)
EXTENDS StoreTx

CONSTANTS a, b,  \* directory names
          t      \* a tag

Paths == {<<a>>, <<a, b>>}
Like == {<<<<a>>, <<a, b>>>>}
OneData == {<<>>}
OneSize == {0}

Acls == {{[acl |-> "READ", who |-> t]}}
Content == [data |-> <<>>, size |-> 0]

\* Every write of the store, on ids and places that come to exist and vanish.
Requests ==
    {[op |-> "read"]}
    \cup [op: {"CreateDirectory"}, full: {<<a, b>>}, acls: Acls]
    \cup [op: {"UpdateDirectory"}, id: {1}, full: {EmptyPath, <<b>>}, acls: Acls]
    \cup [op: {"DeleteDirectory"}, id: {2}]
    \cup [op: {"CreateConfig"}, path: {Root}, name: FileName,
          content: {Content}, acls: Acls]
    \cup [op: {"UpdateConfig"}, id: {1}, path: {Root}, name: FileName,
          content: {Content, NoContent}, acls: Acls]
    \cup [op: {"UpdateConfig"}, id: {1}, path: {EmptyPath}, name: {EmptyName},
          content: {NoContent}, acls: Acls]
    \cup [op: {"DeleteConfig"}, id: {1}]

=============================================================================
