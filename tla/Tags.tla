-------------------------------- MODULE Tags --------------------------------
(***************************************************************************)
(* The tags of accounts: the staff endpoints of tags.rs and the role        *)
(* endpoint of admin.rs, running concurrently.                              *)
(*                                                                         *)
(* The role column is a string of tags; here it is their set, which module  *)
(* Roles justifies. A staff request reads its own account, reads the        *)
(* target's, and writes the whole column back: three statements, with       *)
(* other requests between them. Anybody may be logged in at any time.       *)
(***************************************************************************)
EXTENDS Naturals

CONSTANTS User,
          Tag,             \* tags other than the three with a meaning
          Request,         \* requests of staff members, each used once
          AdminRequest,    \* role requests of administrators, each used once
          RoleSets,        \* roles an administrator may ask for
          MaxUid           \* bound of the uids handed out

Elevated == {"staff", "admin"}
AnyTag == Tag \cup Elevated \cup {"user"}

ASSUME TagAssumption == Tag \cap (Elevated \cup {"user"}) = {}
ASSUME RoleSetsAssumption == RoleSets \subseteq SUBSET AnyTag
ASSUME MaxUidAssumption == MaxUid \in Nat

VARIABLES users,     \* the users table: uid (0: no row) and role
          nextUid,   \* the next fresh uuid
          staff,     \* the staff requests
          admin,     \* the administrators' role requests
          given      \* history: who gave which tag to whom

vars == <<users, nextUid, staff, admin, given>>

Row == [uid: Nat, role: SUBSET AnyTag]
NoRow == [uid |-> 0, role |-> {}]
Present(u) == users[u].uid # 0

\* A tag given to the account with uid to, by a staff member with uid by or by an
\* administrator.
Administrator == 0
Gift == [to: Nat, tag: AnyTag, by: Nat]
Gifts(to, tags, by) == [to: {to}, tag: tags, by: {by}]

\* A staff request: after the check of the asking account, its uid (for the
\* history) and what it asks for; after the reading of the target, the row and
\* the role it will write.
StaffStage == {"idle", "target", "write", "done"}
StaffLocal == [stage: StaffStage, asking: Nat, target: User \cup {"nobody"},
               tag: Tag \cup {"none"}, kind: {"add", "remove"},
               uid: Nat, role: SUBSET AnyTag]
NoStaff == [stage |-> "idle", asking |-> 0, target |-> "nobody",
            tag |-> "none", kind |-> "add", uid |-> 0, role |-> {}]

AdminLocal == [stage: {"idle", "write", "done"}, uid: Nat, role: SUBSET AnyTag]
NoAdmin == [stage |-> "idle", uid |-> 0, role |-> {}]

TTypeOK ==
    /\ users \in [User -> Row]
    /\ nextUid \in Nat \ {0}
    /\ staff \in [Request -> StaffLocal]
    /\ \A r \in Request : staff[r].stage # "idle" =>
          staff[r].target \in User /\ staff[r].tag \in Tag
    /\ admin \in [AdminRequest -> AdminLocal]
    /\ given \in SUBSET Gift

Init ==
    /\ users = [u \in User |-> NoRow]
    /\ nextUid = 1
    /\ staff = [r \in Request |-> NoStaff]
    /\ admin = [a \in AdminRequest |-> NoAdmin]
    /\ given = {}

-----------------------------------------------------------------------------
\* An INSERT of a new account.
NewAccount(u, role) ==
    /\ ~Present(u)
    /\ nextUid <= MaxUid
    /\ users' = [users EXCEPT ![u] = [uid |-> nextUid, role |-> role]]
    /\ nextUid' = nextUid + 1
    /\ UNCHANGED <<staff, admin>>

\* upsert_user of a first login: the column's default.
FirstLogin(u) == NewAccount(u, {"user"}) /\ UNCHANGED given

\* admin_add_user_handler. UNIQUE(username) refuses the name of an account
\* that came up since the handler looked.
AddUser(u) ==
    \E role \in RoleSets \ {{}} :
        /\ NewAccount(u, role)
        /\ given' = given \cup Gifts(nextUid, role, Administrator)

DeleteUser(u) ==
    /\ Present(u)
    /\ users' = [users EXCEPT ![u] = NoRow]
    /\ UNCHANGED <<nextUid, staff, admin, given>>

\* set_user_role: by uid.
SetRole(uid, role) ==
    users' = [u \in User |-> IF users[u].uid = uid
                             THEN [users[u] EXCEPT !.role = role] ELSE users[u]]

\* admin_role_handler: the account is read for its uid, then written, which may
\* fail.
RoleRead(a, u) ==
    /\ admin[a].stage = "idle"
    /\ Present(u)
    /\ \E role \in RoleSets \ {{}} :
          admin' = [admin EXCEPT ![a] = [stage |-> "write",
                                         uid |-> users[u].uid, role |-> role]]
    /\ UNCHANGED <<users, nextUid, staff, given>>

RoleWrite(a) ==
    /\ admin[a].stage = "write"
    /\ \/ /\ SetRole(admin[a].uid, admin[a].role)
          /\ given' = given \cup Gifts(admin[a].uid, admin[a].role,
                                       Administrator)
       \/ UNCHANGED <<users, given>>
    /\ admin' = [admin EXCEPT ![a].stage = "done"]
    /\ UNCHANGED <<nextUid, staff>>

-----------------------------------------------------------------------------
\* Not the code: the tags with a meaning are not taken out.
Bug_ManageAll(me) == users[me].role \ {"user"}

\* What a staff member may give and take: its own tags but for those with a
\* meaning.
Manageable(me) == users[me].role \ (Elevated \cup {"user"})

\* Not the code: any tag without a meaning taken for the staff member's own.
Bug_AnyTag(r, me) ==
    /\ staff[r].stage = "idle"
    /\ Present(me)
    /\ "staff" \in users[me].role
    /\ \E tag \in Tag, target \in User \ {me}, kind \in {"add", "remove"} :
          staff' = [staff EXCEPT ![r] =
                      [NoStaff EXCEPT !.stage = "target",
                                      !.asking = users[me].uid,
                                      !.target = target,
                                      !.tag = tag, !.kind = kind]]
    /\ UNCHANGED <<users, nextUid, admin, given>>

\* require_tag_manager and the checks of the request that need no other row.
Authorize(r, me) ==
    /\ staff[r].stage = "idle"
    /\ Present(me)
    /\ "staff" \in users[me].role
    /\ \E tag \in Manageable(me), target \in User \ {me}, kind \in {"add", "remove"} :
          staff' = [staff EXCEPT ![r] =
                      [NoStaff EXCEPT !.stage = "target",
                                      !.asking = users[me].uid,
                                      !.target = target,
                                      !.tag = tag, !.kind = kind]]
    /\ UNCHANGED <<users, nextUid, admin, given>>

\* The checks of the target, on the row as it is read.
Eligible(row, op) ==
    /\ row.uid # 0
    /\ row.role \cap Elevated = {}
    /\ op.kind = "add" <=> op.tag \notin row.role

\* The role that is going to be written.
NewRole(role, op) == IF op.kind = "add" THEN role \cup {op.tag}
                                        ELSE role \ {op.tag}

\* Refused: not eligible, or the name given is not the target's, or the read
\* fails.
ReadTarget(r) ==
    LET op == staff[r]
        row == users[op.target]
    IN  /\ op.stage = "target"
        /\ \/ /\ Eligible(row, op)
              /\ staff' = [staff EXCEPT ![r].stage = "write",
                                        ![r].uid = row.uid,
                                        ![r].role = NewRole(row.role, op)]
           \/ staff' = [staff EXCEPT ![r].stage = "done"]
        /\ UNCHANGED <<users, nextUid, admin, given>>

\* The history of a staff request's write.
Recorded(op) == IF op.kind = "add"
                THEN given \cup Gifts(op.uid, {op.tag}, op.asking) ELSE given

\* Not the code: the role written by username.
Bug_WriteByName(r) ==
    /\ staff[r].stage = "write"
    /\ users' = [users EXCEPT ![staff[r].target].role = staff[r].role]
    /\ given' = Recorded(staff[r])
    /\ staff' = [staff EXCEPT ![r].stage = "done"]
    /\ UNCHANGED <<nextUid, admin>>

\* The write of the whole column; it may fail.
WriteTags(r) ==
    /\ staff[r].stage = "write"
    /\ \/ SetRole(staff[r].uid, staff[r].role) /\ given' = Recorded(staff[r])
       \/ UNCHANGED <<users, given>>
    /\ staff' = [staff EXCEPT ![r].stage = "done"]
    /\ UNCHANGED <<nextUid, admin>>

Next ==
    \/ \E u \in User : FirstLogin(u) \/ AddUser(u) \/ DeleteUser(u)
    \/ \E a \in AdminRequest : RoleWrite(a) \/ \E u \in User : RoleRead(a, u)
    \/ \E r \in Request : \/ \E me \in User : Authorize(r, me)
                          \/ ReadTarget(r) \/ WriteTags(r)

Spec == Init /\ [][Next]_vars

-----------------------------------------------------------------------------
\* The tag was given to the account with this uid: by an administrator, or by a
\* staff member; then it is no tag with a meaning.
GivenTo(uid, tag) ==
    \E g \in given : /\ g.to = uid /\ g.tag = tag
                     /\ g.by = Administrator \/ g.tag \in Tag

\* An account has a tag only if somebody gave it to that very account, not to
\* another one and not to one of the same name before it; "staff" and "admin"
\* are only given by administrators. Concurrent requests may lose an update or
\* bring a tag back, but never one that was not there.
TagsOriginate ==
    \A u \in User : \A tag \in users[u].role :
        tag = "user" \/ GivenTo(users[u].uid, tag)

Appointed(uid) == [to |-> uid, tag |-> "staff", by |-> Administrator] \in given
InCirculation(tag) == \E g \in given : g.tag = tag /\ g.by = Administrator

\* A staff member hands on what is his: whoever gave a tag had been appointed by
\* an administrator and had been given that tag himself, under this very uid, and
\* every tag in use goes back to an administrator. So staff members can neither
\* make up a tag nor appoint each other, whatever becomes of their own accounts
\* while their requests are under way.
StaffGiveOwn ==
    \A g \in given : g.by # Administrator =>
        /\ g.tag \in Tag
        /\ Appointed(g.by)
        /\ GivenTo(g.by, g.tag)
        /\ InCirculation(g.tag)
=============================================================================
