------------------------------- MODULE Roles --------------------------------
(***************************************************************************)
(* The role column: utils.rs keeps a set of tags in a string, and db.rs     *)
(* searches that string with LIKE.                                          *)
(*                                                                         *)
(* A tag is a sequence of characters. The column is the sequence of its     *)
(* tags, in the order of the string; what an administrator types is a       *)
(* sequence of parts, tags or not. Whitespace around a part is trimmed by   *)
(* the code and left out here.                                              *)
(***************************************************************************)
EXTENDS Naturals, Sequences, SequencesExt

CONSTANTS Char,         \* the characters a part may have
          Tag,          \* the tags in use, nonempty sequences of characters
          UserTag,      \* the tag "user"
          Blank,        \* an empty part
          BadPart,      \* a part with a character that is not allowed
          Lower(_),     \* lower case of an ASCII character
          MaxParts      \* bound of what an administrator types

Comma == ","
Underscore == "_"
Role == Tag \cup {UserTag}

\* validate_role_str lets no comma into a part, and lower case makes none.
ASSUME CharAssumption ==
    /\ Comma \notin Char
    /\ \A c \in Char : Lower(c) # Lower(Comma)

\* "user" is never among the tags that staff manages.
ASSUME TagAssumption ==
    /\ \A t \in Role : t \in Seq(Char) /\ t # <<>>
    /\ UserTag \notin Tag
    /\ Blank \notin Role

ASSUME MaxPartsAssumption == MaxParts \in Nat

VARIABLES role,    \* the column of one account
          held     \* the tags the account is meant to have

vars == <<role, held>>

-----------------------------------------------------------------------------
\* The loop behind filter().collect(): the parts other than x, in their order.
Without(parts, x) ==
    LET kept[n \in 0 .. Len(parts)] ==
          IF n = 0 THEN <<>>
          ELSE IF parts[n] = x THEN kept[n - 1]
                               ELSE Append(kept[n - 1], parts[n])
    IN  kept[Len(parts)]

\* parse_roles: empty parts are dropped.
ParseRoles(parts) == Without(parts, Blank)

HasRole(parts, tag) == tag \in ToSet(ParseRoles(parts))

\* add_tag_to_role
AddTagToRole(parts, tag) ==
    IF HasRole(parts, tag) THEN ParseRoles(parts)
                           ELSE Append(ParseRoles(parts), tag)

\* Not the code: the comparison of the filter the wrong way round.
Bug_KeepOnly(parts, tag) == IF HasRole(parts, tag) THEN <<tag>> ELSE <<>>

\* remove_tag_from_role
RemoveTagFromRole(parts, tag) == Without(ParseRoles(parts), tag)

\* Not the code: the repetitions are kept.
Bug_KeepRepetitions(parts) == ParseRoles(parts)

\* The loop of validate_role_str: a part is pushed unless it was seen.
Once(parts) ==
    LET seen[n \in 0 .. Len(parts)] ==
          IF n = 0 THEN <<>>
          ELSE IF parts[n] \in ToSet(seen[n - 1]) THEN seen[n - 1]
                                                ELSE Append(seen[n - 1], parts[n])
    IN  seen[Len(parts)]

\* validate_role_str of parts that are all allowed.
ValidateRoleStr(parts) == Once(ParseRoles(parts))

-----------------------------------------------------------------------------
\* The column as list_tagged_users sees it: ',' || role || ','. (The search
\* leaves an empty column out.)
Wrapped(r) ==
    LET upto[n \in 0 .. Len(r)] ==
          IF n = 0 THEN <<Comma>> ELSE upto[n - 1] \o r[n] \o <<Comma>>
    IN  upto[Len(r)]

\* SQLite's LIKE: "_" stands for any character, letters match in either case.
LikeChar(p, c) == p = Underscore \/ Lower(p) = Lower(c)

\* s LIKE '%' || p || '%'. A tag holds no "%".
LikeAnywhere(s, p) ==
    \E i \in 0 .. Len(s) - Len(p) :
        \A k \in 1 .. Len(p) : LikeChar(p[k], s[i + k])

\* Not the code: the tag searched for as a prefix.
Bug_Prefix(r, tag) == LikeAnywhere(Wrapped(r), <<Comma>> \o tag)

\* Not the code: the tag searched for without the commas around the column.
Bug_Unwrapped(r, tag) ==
    LikeAnywhere(SubSeq(Wrapped(r), 2, Len(Wrapped(r)) - 1),
                 <<Comma>> \o tag \o <<Comma>>)

TagMatches(r, tag) == LikeAnywhere(Wrapped(r), <<Comma>> \o tag \o <<Comma>>)

\* Is an account with this role in the list of a staff member who manages these
\* tags?
Listed(r, manageable) ==
    /\ r # <<>> /\ r # <<UserTag>>
    /\ \E tag \in manageable : TagMatches(r, tag)

-----------------------------------------------------------------------------
Init == role = <<UserTag>> /\ held = {UserTag}

\* admin_role_handler: a bad part or nothing but blanks is refused.
SetRole ==
    \E n \in 1 .. MaxParts : \E parts \in [1 .. n -> Role \cup {Blank, BadPart}] :
        /\ BadPart \notin ToSet(parts)
        /\ ValidateRoleStr(parts) # <<>>
        /\ role' = ValidateRoleStr(parts)
        /\ held' = ToSet(parts) \ {Blank}

\* profile_tag_add_handler and profile_tag_remove_handler.
AddTag ==
    \E tag \in Tag :
        /\ ~HasRole(role, tag)
        /\ role' = AddTagToRole(role, tag)
        /\ held' = held \cup {tag}

RemoveTag ==
    \E tag \in Tag :
        /\ HasRole(role, tag)
        /\ role' = RemoveTagFromRole(role, tag)
        /\ held' = held \ {tag}

Next == SetRole \/ AddTag \/ RemoveTag

Spec == Init /\ [][Next]_vars

-----------------------------------------------------------------------------
\* The string is as good as the set it stands for, whatever sequence of typed
\* roles, additions and removals led to it.
RepresentsHeld == ToSet(role) = held

\* No tag is ever in the string twice, so that removing it once removes it.
NoRepetition == \A i, j \in 1 .. Len(role) : role[i] = role[j] => i = j

\* The search misses nobody: an account that shares a tag with a staff member is
\* in the list, wherever the tag stands in the string and whatever stands
\* next to it.
SearchFindsAll ==
    \A tag \in Tag : tag \in held => Listed(role, {tag})

\* The search finds nobody else: who is found for a tag without an underscore has
\* that tag but for the case of its letters. Prefixes and neighbours of a tag,
\* and its place in the string, do not deceive it.
SameButCase(t, tag) ==
    Len(t) = Len(tag) /\ \A k \in 1 .. Len(tag) : Lower(t[k]) = Lower(tag[k])
SearchFindsOnly ==
    \A tag \in Tag : (\A k \in 1 .. Len(tag) : tag[k] # Underscore) /\ Listed(role, {tag})
        => \E t \in held : SameButCase(t, tag)
=============================================================================
