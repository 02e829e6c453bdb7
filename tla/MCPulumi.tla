------------------------------ MODULE MCPulumi ------------------------------
(***************************************************************************)
(* An instance of Pulumi for TLC.                                          *)
(***************************************************************************)
EXTENDS Pulumi

CONSTANTS a, b,  \* directory names
          t, u   \* tags: the provider's, and another

Paths == {<<a>>, <<b>>}
NoLike == {}
Datas == {<<>>, <<7>>}
Sizes == {0, 1}
AllLists == SUBSET Entry
Texts == {"READ", "WRITE", "read", "write", "owner"}

Grants(text) == {[text |-> text, who |-> t]}
Excludes == {[text |-> "READ", who |-> u]}
DirArgs(name, path, acls) == [name |-> name, path |-> path, data |-> <<>>, acls |-> acls]
FileArgs(path, data, acls) == [name |-> Unset, path |-> path, data |-> data, acls |-> acls]
Stack(d, f) == [r \in {"dir", "file"} |-> IF r = "dir" THEN d ELSE f]

\* A file in a directory; the same with another content, other ACLs and another
\* spelling; in another directory; the directory alone, given with the path "";
\* nothing; a level that does not exist; and ACLs that shut the provider out.
AllPrograms ==
    {Stack(DirArgs(a, Root, Grants("WRITE")), FileArgs(<<a>>, <<7>>, Grants("write"))),
     Stack(DirArgs(a, Root, {}), FileArgs(<<a>>, <<>>, Grants("WRITE"))),
     Stack(DirArgs(b, Root, Grants("write")), FileArgs(<<b>>, <<7>>, Grants("write"))),
     Stack(DirArgs(a, EmptyPath, {}), Absent),
     Stack(Absent, Absent),
     Stack(DirArgs(a, Root, {}), FileArgs(<<a>>, <<7>>, Grants("owner"))),
     Stack(DirArgs(a, Root, {}), FileArgs(<<a>>, <<7>>, Excludes))}

=============================================================================
