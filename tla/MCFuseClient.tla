---------------------------- MODULE MCFuseClient ----------------------------
(***************************************************************************)
(* An instance of FuseClient for TLC.                                      *)
(***************************************************************************)
EXTENDS FuseClient

CONSTANTS a,  \* a directory name
          t   \* a tag

Paths == {<<a>>}
NoLike == {}
\* The names "f" and "a/f".
SegmentsOf == [n \in FileName |-> IF n = "af" THEN <<a, "f">> ELSE <<n>>]
Sizes == {0, 1, 2}
Datas == UNION {[1 .. n -> {0, 7}] : n \in Sizes}
Chunks == {<<7>>}
Offsets == {0, 1}
AllLists == SUBSET Entry

\* Everyone may write, or the client is locked out.
Acls == {{[acl |-> "WRITE", who |-> Everyone]}, {[acl |-> "READ", who |-> Nobody]}}

\* An empty directory, a file of one byte next to it, and one at "" whose name
\* is that of a file in the directory.
Used ==
    [inode |-> 5,
     dirs |-> {[id |-> 1, full |-> <<a>>, parent |-> 0]},
     dirAcl |-> {},
     configs |-> {[id |-> 2, path |-> Root, name |-> "f", current |-> 3,
                   created |-> 1, updated |-> 1],
                  [id |-> 4, path |-> EmptyPath, name |-> "af", current |-> 5,
                   created |-> 1, updated |-> 1]},
     configAcl |-> {[owner |-> o, entry |-> [acl |-> "WRITE", who |-> t]] : o \in {2, 4}},
     contents |-> {[id |-> 3, config |-> 2, blob |-> [data |-> <<7>>, size |-> 1],
                    created |-> 1],
                   [id |-> 5, config |-> 4, blob |-> [data |-> <<>>, size |-> 0],
                    created |-> 1]}]
UsedSeed == {Used}

=============================================================================
