------------------------------ MODULE MCServer ------------------------------
(***************************************************************************)
(* An instance of Server for TLC.                                          *)
(***************************************************************************)
EXTENDS Server, TLC

CONSTANTS a,    \* a directory name
          t,    \* a tag
          user, \* the identity of a user
          x, y  \* addresses

Paths == {<<a>>}
NoLike == {}
Datas == {<<>>, <<7>>}
Sizes == {0, 1}
NoAcls == {}

\* The two tailnets give the same address to a tagged node and to a user's; the
\* other address is a node without either, or unknown.
Peers ==
    [n \in Tailnet |->
        IF n = "first" THEN (x :> [tags |-> {t}, user |-> {}] @@
                             y :> [tags |-> {}, user |-> {}])
                       ELSE (x :> [tags |-> {}, user |-> {user}] @@ y :> NoPeer)]

\* A client claims nothing, or a tag that may write.
ClaimsOfTag == {{}, {t}}

Directory == [id |-> 1, full |-> <<a>>, parent |-> 0]
Config(id, name, current, stamp, size) ==
    [id |-> id, path |-> <<a>>, name |-> name, current |-> current,
     created |-> stamp, updated |-> stamp, size |-> size]
Content(id, config, data, size, stamp) ==
    [id |-> id, config |-> config, data |-> data, size |-> size, created |-> stamp]
MayWrite(owner, who) == [owner |-> owner, entry |-> [acl |-> "WRITE", who |-> who]]

NoFile == [inode |-> 0, dirs |-> {}, dirAcl |-> {}, configs |-> {}, configAcl |-> {},
           contents |-> {}, legacy |-> {}, tables |-> {}, configColumns |-> {},
           contentColumns |-> {}, legacyColumns |-> {}]

\* The schema of preTimestampSchema in store_timestamps_test.go.
PreTimestamp ==
    [NoFile EXCEPT
        !.inode = 3, !.dirs = {Directory},
        !.configAcl = {MayWrite(2, t), MayWrite(3, Everyone)},
        !.configs = {Config(2, "f", Null, 0, 1), Config(3, "g", Null, 0, 0)},
        !.contents = {Content(2, Null, <<7>>, 0, 0), Content(3, Null, <<>>, 0, 0)},
        !.tables = {"inode", "config", "directory", "config_content", "config_acl"},
        !.configColumns = {"id", "content_size"},
        !.contentColumns = {"id", "content"}]

\* Versioned, with the size of the current version on the config.
PreSize ==
    [NoFile EXCEPT
        !.inode = 4, !.dirs = {Directory}, !.dirAcl = {MayWrite(1, t)},
        !.configAcl = {MayWrite(2, t)},
        !.configs = {Config(2, "f", 4, 1, 1)},
        !.contents = {Content(3, 2, <<>>, 0, 1), Content(4, 2, <<7>>, 0, 1)},
        !.tables = {"inode", "config", "directory", "config_content", "config_acl",
                    "directory_acl"},
        !.configColumns = ConfigColumns \cup {"content_size"},
        !.contentColumns = ContentColumns \ {"content_size"}]

Generations == {NoFile, PreTimestamp, PreSize}

=============================================================================
