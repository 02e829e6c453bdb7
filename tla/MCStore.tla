------------------------------ MODULE MCStore ------------------------------
(***************************************************************************)
(* Instances of Store for TLC.                                             *)
(***************************************************************************)
EXTENDS Store

CONSTANTS a, b,  \* directory names
          t      \* a tag

\* Two top-level directories, one of them with a subdirectory.
TreePaths == {<<a>>, <<a, b>>, <<b>>}

\* LIKE finds the descendants and nothing else.
Descendants(paths) ==
    {pq \in paths \X paths : pq[1] # pq[2] /\ pq[1] \in Components(pq[2])}
TreeLike == Descendants(TreePaths)

\* Two directories whose names differ in case only, one with a subdirectory:
\* LIKE does not tell upper from lower case.
CasePaths == {<<a>>, <<b>>, <<b, a>>}
CaseLike == Descendants(CasePaths) \cup {<<<<a>>, <<b, a>>>>}

Grant(level, who) == [acl |-> level, who |-> who]

\* No entries; READ for the tag; an entry that matches nobody beside one that is
\* not stored.
GateAcls == {{}, {Grant("READ", t)}, {Grant("UNKNOWN", t), Grant("WRITE", Nobody)}}
\* No entries, or WRITE for the tag.
PlainAcls == {{}, {Grant("WRITE", t)}}

OneData == {<<>>}
OneSize == {0}
OnePath == {<<a>>}
NoLike == {}

=============================================================================
