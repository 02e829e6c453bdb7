------------------------------- MODULE Access -------------------------------
(***************************************************************************)
(* Access-control entries of configs and directories and the decisions     *)
(* taken on them: internal/proto/extra.go and the filter insertACLs of     *)
(* internal/store/sqlite/store.go applies before it stores an entry.       *)
(*                                                                         *)
(* An entry names a level and whom it is for: one tag, everyone, or nobody *)
(* (an entry with an empty tag and everyone = false matches no caller).    *)
(* The order and the multiplicity of the entries of a list decide nothing, *)
(* so a list is a set.                                                     *)
(***************************************************************************)

CONSTANTS Tag,        \* identities: Tailscale tags and "user:<login>" names
          Everyone,   \* who an entry with everyone = true is for
          Nobody      \* who an entry with an empty tag is for

ASSUME WhoAssumption == /\ Everyone \notin Tag
                        /\ Nobody \notin Tag
                        /\ Everyone # Nobody

\* UNKNOWN stands for UNKNOWN_ACL and for every number outside the enum.
Level == {"UNKNOWN", "READ", "WRITE"}

Entry == [acl: Level, who: Tag \cup {Everyone, Nobody}]

-----------------------------------------------------------------------------

\* WRITE implies READ; UNKNOWN grants nothing and nothing grants UNKNOWN.
aclGrants(have, required) ==
    CASE required = "READ"  -> have \in {"READ", "WRITE"}
      [] required = "WRITE" -> have = "WRITE"
      [] OTHER              -> FALSE

\* One entry gives a caller carrying tags the required level.
Matches(entry, tags, required) ==
    /\ aclGrants(entry.acl, required)
    /\ entry.who = Everyone \/ entry.who \in tags

\* Config.Allows: a config without entries denies every caller.
ConfigAllows(acls, tags, required) ==
    \E entry \in acls : Matches(entry, tags, required)

\* Directory.Allows: a directory without entries is transparent.
DirAllows(acls, tags, required) ==
    acls = {} \/ \E entry \in acls : Matches(entry, tags, required)

\* The entries of a request that insertACLs stores.
Storable(acls) == {entry \in acls : entry.acl \in {"READ", "WRITE"}}

=============================================================================
