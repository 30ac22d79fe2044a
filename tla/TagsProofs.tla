----------------------------- MODULE TagsProofs -----------------------------
(***************************************************************************)
(* Where the tags of an account come from, for any number of accounts,      *)
(* tags and requests.                                                       *)
(***************************************************************************)
EXTENDS Tags, TLAPS

USE DEF Elevated, AnyTag, NoRow, Present, StaffLocal, StaffStage

-----------------------------------------------------------------------------
\* The writes under way leave only tags that were given, or that they give.
WritesOriginate ==
    \A r \in Request : staff[r].stage = "write" =>
        \A tag \in staff[r].role :
            \/ tag = "user"
            \/ GivenTo(staff[r].uid, tag)
            \/ tag = staff[r].tag /\ staff[r].kind = "add"

OriginInv == TagsOriginate /\ WritesOriginate

\* Whoever has passed the check may give the tag of the request.
AskingEntitled ==
    \A r \in Request : staff[r].stage \in {"target", "write"} =>
        /\ Appointed(staff[r].asking)
        /\ GivenTo(staff[r].asking, staff[r].tag)
        /\ InCirculation(staff[r].tag)

GiversInv == StaffGiveOwn /\ AskingEntitled

\* What the type invariant says of one account and of one staff request.
LEMMA Types ==
  ASSUME TTypeOK
  PROVE  /\ \A u \in User : users[u] \in Row
         /\ \A r \in Request : staff[r] \in StaffLocal
         /\ \A a \in AdminRequest : admin[a] \in AdminLocal
  BY DEF TTypeOK

\* The initial state is typed, and every tag in it was given by somebody.
LEMMA TagsInit == Init => TTypeOK /\ OriginInv /\ GiversInv
<1> SUFFICES ASSUME Init PROVE TTypeOK /\ OriginInv /\ GiversInv
  OBVIOUS
<1>1. TTypeOK
  BY DEF Init, TTypeOK, Row, NoStaff, NoAdmin, AdminLocal
<1>2. OriginInv
  BY DEF Init, OriginInv, TagsOriginate, WritesOriginate, NoStaff
<1>3. GiversInv
  BY DEF Init, GiversInv, StaffGiveOwn, AskingEntitled, NoStaff
<1> QED
  BY <1>1, <1>2, <1>3

\* A write to the table keeps its type.
LEMMA SetRoleTyped ==
  ASSUME TTypeOK, NEW uid \in Nat, NEW role \in SUBSET AnyTag, SetRole(uid, role)
  PROVE  users' \in [User -> Row]
  BY DEF TTypeOK, SetRole, Row

\* Authorize sends a request on its way with a target, and a tag of the account
\* that asks.
LEMMA AuthorizeType ==
  ASSUME TTypeOK, NEW r \in Request, NEW me \in User, Authorize(r, me)
  PROVE  /\ staff' \in [Request -> StaffLocal]
         /\ staff'[r].stage = "target"
         /\ staff'[r].target \in User
         /\ staff'[r].tag \in Tag /\ staff'[r].tag \in users[me].role
         /\ staff'[r].asking = users[me].uid
         /\ \A q \in Request \ {r} : staff'[q] = staff[q]
<1> DEFINE op(tag, target, kind) ==
             [NoStaff EXCEPT !.stage = "target", !.asking = users[me].uid,
                             !.target = target, !.tag = tag, !.kind = kind]
<1>1. PICK tag \in Manageable(me), target \in User \ {me}, kind \in {"add", "remove"} :
         staff' = [staff EXCEPT ![r] = op(tag, target, kind)]
  BY DEF Authorize
<1>2. tag \in Tag /\ tag \in users[me].role /\ users[me].uid \in Nat
  BY DEF Manageable, TTypeOK, Row
<1>3. /\ op(tag, target, kind) \in StaffLocal
      /\ op(tag, target, kind).stage = "target"
      /\ op(tag, target, kind).asking = users[me].uid
      /\ op(tag, target, kind).target = target
      /\ op(tag, target, kind).tag = tag
  BY <1>2 DEF NoStaff
<1> HIDE DEF op
<1> QED
  BY <1>1, <1>2, <1>3 DEF TTypeOK

\* ReadTarget ends the request, or takes the row of the target along.
LEMMA ReadTargetType ==
  ASSUME TTypeOK, NEW r \in Request, ReadTarget(r)
  PROVE  /\ staff' \in [Request -> StaffLocal]
         /\ \A q \in Request \ {r} : staff'[q] = staff[q]
         /\ staff'[r].target = staff[r].target /\ staff'[r].tag = staff[r].tag
         /\ staff[r].stage = "target" /\ staff'[r].asking = staff[r].asking
         /\ \/ staff'[r].stage = "done"
            \/ /\ staff'[r].stage = "write"
               /\ staff'[r].kind = staff[r].kind
               /\ \E u \in User : /\ staff'[r].uid = users[u].uid
                                  /\ users[u].role \cap Elevated = {}
                                  /\ staff'[r].role = NewRole(users[u].role, staff[r])
<1> DEFINE u == staff[r].target
<1>1. /\ u \in User /\ users[u] \in Row
      /\ staff[r] \in StaffLocal /\ staff[r].tag \in Tag
      /\ staff[r].stage = "target"
  BY Types DEF ReadTarget, TTypeOK
<1>2. \/ /\ Eligible(users[u], staff[r])
         /\ staff' = [staff EXCEPT ![r].stage = "write", ![r].uid = users[u].uid,
                                  ![r].role = NewRole(users[u].role, staff[r])]
      \/ staff' = [staff EXCEPT ![r].stage = "done"]
  BY DEF ReadTarget
<1>3. CASE /\ Eligible(users[u], staff[r])
           /\ staff' = [staff EXCEPT ![r].stage = "write", ![r].uid = users[u].uid,
                                    ![r].role = NewRole(users[u].role, staff[r])]
  <2>1. NewRole(users[u].role, staff[r]) \in SUBSET AnyTag /\ users[u].uid \in Nat
    BY <1>1 DEF NewRole, Row
  <2> QED
    BY <1>1, <1>3, <2>1 DEF TTypeOK, Eligible
<1>4. CASE staff' = [staff EXCEPT ![r].stage = "done"]
  BY <1>1, <1>4 DEF TTypeOK
<1> QED
  BY <1>2, <1>3, <1>4

\* Every step keeps the types.
LEMMA StepTyped == TTypeOK /\ [Next]_vars => TTypeOK'
<1> SUFFICES ASSUME TTypeOK, Next PROVE TTypeOK'
  BY DEF TTypeOK, vars
<1>1. ASSUME NEW u \in User, FirstLogin(u) \/ AddUser(u) \/ DeleteUser(u)
      PROVE  TTypeOK'
  BY <1>1, RoleSetsAssumption
     DEF TTypeOK, FirstLogin, AddUser, NewAccount, DeleteUser, Row, Gifts, Gift,
         Administrator
<1>2. ASSUME NEW a \in AdminRequest, NEW u \in User, RoleRead(a, u) PROVE TTypeOK'
  BY <1>2, RoleSetsAssumption DEF TTypeOK, RoleRead, AdminLocal, Row
<1>3. ASSUME NEW a \in AdminRequest, RoleWrite(a) PROVE TTypeOK'
  <2>1. admin[a] \in AdminLocal
    BY Types
  <2>2. users' \in [User -> Row]
    BY <1>3, <2>1, SetRoleTyped DEF RoleWrite, AdminLocal, TTypeOK
  <2>3. given' \in SUBSET Gift
    BY <1>3, <2>1 DEF TTypeOK, RoleWrite, AdminLocal, Gifts, Gift, Administrator
  <2> QED
    BY <1>3, <2>1, <2>2, <2>3 DEF TTypeOK, RoleWrite, AdminLocal
<1>4. ASSUME NEW r \in Request, NEW me \in User, Authorize(r, me) PROVE TTypeOK'
  <2>1. /\ staff' \in [Request -> StaffLocal]
        /\ \A q \in Request : staff'[q].stage # "idle" =>
              staff'[q].target \in User /\ staff'[q].tag \in Tag
    <3> HIDE DEF StaffLocal
    <3> QED
      BY <1>4, AuthorizeType DEF TTypeOK
  <2>2. UNCHANGED <<users, nextUid, admin, given>>
    BY <1>4 DEF Authorize
  <2> QED
    BY <2>1, <2>2 DEF TTypeOK
<1>5. ASSUME NEW r \in Request, ReadTarget(r) PROVE TTypeOK'
  <2>1. staff[r].stage # "idle"
    BY <1>5 DEF ReadTarget
  <2> QED
    BY <1>5, <2>1, ReadTargetType DEF TTypeOK, ReadTarget
<1>6. ASSUME NEW r \in Request, WriteTags(r) PROVE TTypeOK'
  <2>1. staff[r] \in StaffLocal /\ staff[r].stage = "write" /\ staff[r].tag \in Tag
    BY <1>6, Types DEF WriteTags, TTypeOK
  <2>2. users' \in [User -> Row]
    BY <1>6, <2>1, SetRoleTyped DEF WriteTags, TTypeOK
  <2>3. given' \in SUBSET Gift
    BY <1>6, <2>1 DEF WriteTags, Recorded, TTypeOK, Gifts, Gift
  <2> QED
    BY <1>6, <2>1, <2>2, <2>3 DEF WriteTags, TTypeOK
<1> QED
  BY <1>1, <1>2, <1>3, <1>4, <1>5, <1>6 DEF Next

\* The same of the next state, about an account or a tag of either state.
GivenNext(uid, tag) ==
    \E g \in given' : /\ g.to = uid /\ g.tag = tag
                      /\ g.by = Administrator \/ g.tag \in Tag
AppointedNext(uid) == [to |-> uid, tag |-> "staff", by |-> Administrator] \in given'
CirculatesNext(tag) == \E g \in given' : g.tag = tag /\ g.by = Administrator

\* What was given stays given.
LEMMA GivenGrows ==
  Next => /\ given \subseteq given'
          /\ \A uid, tag : GivenTo(uid, tag) => GivenNext(uid, tag)
          /\ \A uid : Appointed(uid) => AppointedNext(uid)
          /\ \A tag : InCirculation(tag) => CirculatesNext(tag)
<1> SUFFICES ASSUME Next PROVE given \subseteq given'
  BY DEF GivenTo, Appointed, InCirculation, GivenNext, AppointedNext,
         CirculatesNext
<1> QED
  BY DEF Next, FirstLogin, AddUser, DeleteUser, RoleRead, RoleWrite, Authorize,
         ReadTarget, WriteTags, Recorded

\* What a gift is good for.
LEMMA Given ==
  ASSUME NEW to \in Nat, NEW tags \in SUBSET AnyTag, NEW by \in Nat,
         NEW tag \in tags, Gifts(to, tags, by) \subseteq given',
         by = Administrator \/ tag \in Tag
  PROVE  GivenNext(to, tag)
<1> DEFINE g == [to |-> to, tag |-> tag, by |-> by]
<1>1. g \in given'
  BY DEF Gifts
<1> QED
  BY <1>1 DEF GivenNext

\* Every step keeps the tags accounted for.
LEMMA StepTags == TTypeOK /\ OriginInv /\ [Next]_vars => OriginInv'
<1> SUFFICES ASSUME TTypeOK, OriginInv, Next PROVE OriginInv'
  BY DEF OriginInv, TagsOriginate, WritesOriginate, GivenTo, vars
<1>g. \A uid, tag : GivenTo(uid, tag) => GivenNext(uid, tag)
  BY GivenGrows
\* Roles that a step leaves alone, in the table and in the requests.
<1>u. users' = users => TagsOriginate'
  BY <1>g DEF OriginInv, TagsOriginate, GivenTo, GivenNext
<1>s. staff' = staff => WritesOriginate'
  BY <1>g DEF OriginInv, WritesOriginate, GivenTo, GivenNext
<1>1. ASSUME NEW u \in User, FirstLogin(u) \/ AddUser(u) \/ DeleteUser(u)
      PROVE  OriginInv'
  <2>1. \A v \in User \ {u} : users'[v] = users[v]
    BY <1>1 DEF FirstLogin, AddUser, NewAccount, DeleteUser, TTypeOK
  <2>2. \A tag \in users'[u].role : tag = "user" \/ GivenNext(users'[u].uid, tag)
    <3>1. CASE FirstLogin(u) \/ DeleteUser(u)
      BY <3>1 DEF FirstLogin, NewAccount, DeleteUser, TTypeOK
    <3>2. CASE AddUser(u)
      <4>1. PICK role \in RoleSets : /\ NewAccount(u, role)
                                     /\ given' = given \cup Gifts(nextUid, role, Administrator)
        BY <3>2 DEF AddUser
      <4>2. users'[u].uid = nextUid /\ users'[u].role = role /\ nextUid \in Nat
        BY <4>1 DEF NewAccount, TTypeOK
      <4>3. /\ role \in SUBSET AnyTag /\ Administrator \in Nat
            /\ Gifts(nextUid, role, Administrator) \subseteq given'
        BY <4>1, RoleSetsAssumption DEF Administrator
      <4>4. ASSUME NEW tag \in role PROVE GivenNext(nextUid, tag)
        BY <4>2, <4>3, Given
      <4> QED
        BY <4>2, <4>4
    <3> QED
      BY <1>1, <3>1, <3>2
  <2>3. TagsOriginate'
    <3> SUFFICES ASSUME NEW v \in User, NEW tag \in users'[v].role
                 PROVE  tag = "user" \/ GivenNext(users'[v].uid, tag)
      BY DEF TagsOriginate, GivenTo, GivenNext
    <3>1. CASE v = u
      BY <2>2, <3>1
    <3>2. CASE v # u
      BY <1>g, <2>1, <3>2 DEF OriginInv, TagsOriginate
    <3> QED
      BY <3>1, <3>2
  <2> QED
    BY <1>1, <1>s, <2>3 DEF FirstLogin, AddUser, NewAccount, DeleteUser, OriginInv
<1>2. ASSUME NEW a \in AdminRequest, NEW u \in User, RoleRead(a, u) PROVE OriginInv'
  BY <1>2, <1>u, <1>s DEF RoleRead, OriginInv
<1>3. ASSUME NEW a \in AdminRequest, RoleWrite(a) PROVE OriginInv'
  <2> DEFINE op == admin[a]
  <2>1. op.uid \in Nat /\ op.role \in SUBSET AnyTag /\ Administrator \in Nat
    BY Types DEF AdminLocal, Administrator
  <2>2. CASE users' = users
    BY <1>3, <1>u, <1>s, <2>2 DEF RoleWrite, OriginInv
  <2>3. CASE SetRole(op.uid, op.role) /\ given' = given \cup Gifts(op.uid, op.role, Administrator)
    <3>1. ASSUME NEW tag \in op.role PROVE GivenNext(op.uid, tag)
      <4>1. Gifts(op.uid, op.role, Administrator) \subseteq given'
        BY <2>3
      <4> HIDE DEF op
      <4> QED
        BY <2>1, <4>1, Given
    <3>2. ASSUME NEW u \in User
          PROVE  \/ users'[u] = users[u]
                 \/ users'[u].uid = op.uid /\ users'[u].role = op.role
      BY <2>3, Types DEF SetRole, Row
    <3>3. TagsOriginate'
      <4> SUFFICES ASSUME NEW u \in User, NEW tag \in users'[u].role
                   PROVE  tag = "user" \/ GivenNext(users'[u].uid, tag)
        BY DEF TagsOriginate, GivenTo, GivenNext
      <4>1. CASE users'[u] = users[u]
        BY <1>g, <4>1 DEF OriginInv, TagsOriginate
      <4> QED
        BY <3>1, <3>2, <4>1
    <3> QED
      BY <1>3, <1>s, <3>3 DEF RoleWrite, OriginInv
  <2> QED
    BY <1>3, <2>2, <2>3 DEF RoleWrite
<1>4. ASSUME NEW r \in Request, NEW me \in User, Authorize(r, me) PROVE OriginInv'
  <2>1. WritesOriginate'
    <3> SUFFICES ASSUME NEW q \in Request, staff'[q].stage = "write",
                        NEW tag \in staff'[q].role
                 PROVE  \/ tag = "user" \/ GivenNext(staff'[q].uid, tag)
                        \/ tag = staff'[q].tag /\ staff'[q].kind = "add"
      BY DEF WritesOriginate, GivenTo, GivenNext
    <3>1. staff'[q] = staff[q]
      BY <1>4, AuthorizeType
    <3> QED
      BY <1>g, <3>1 DEF OriginInv, WritesOriginate
  <2> QED
    BY <1>4, <1>u, <2>1 DEF Authorize, OriginInv
<1>5. ASSUME NEW r \in Request, ReadTarget(r) PROVE OriginInv'
  <2>1. WritesOriginate'
    <3> SUFFICES ASSUME NEW q \in Request, staff'[q].stage = "write",
                        NEW tag \in staff'[q].role
                 PROVE  \/ tag = "user" \/ GivenNext(staff'[q].uid, tag)
                        \/ tag = staff'[q].tag /\ staff'[q].kind = "add"
      BY DEF WritesOriginate, GivenTo, GivenNext
    <3>1. CASE q # r
      BY <1>5, <1>g, <3>1, ReadTargetType DEF OriginInv, WritesOriginate
    <3>2. CASE q = r
      <4>1. PICK u \in User : /\ staff'[r].uid = users[u].uid
                              /\ staff'[r].role = NewRole(users[u].role, staff[r])
        BY <1>5, <3>2, ReadTargetType
      <4>2. tag \in users[u].role \/ (tag = staff[r].tag /\ staff[r].kind = "add")
        BY <3>2, <4>1 DEF NewRole
      <4>3. staff'[r].tag = staff[r].tag /\ staff'[r].kind = staff[r].kind
        BY <1>5, <3>2, ReadTargetType
      <4> QED
        BY <1>g, <3>2, <4>1, <4>2, <4>3 DEF OriginInv, TagsOriginate
    <3> QED
      BY <3>1, <3>2
  <2> QED
    BY <1>5, <1>u, <2>1 DEF ReadTarget, OriginInv
<1>6. ASSUME NEW r \in Request, WriteTags(r) PROVE OriginInv'
  <2> DEFINE op == staff[r]
  <2>1. /\ op.stage = "write" /\ op.tag \in Tag /\ op.kind \in {"add", "remove"}
        /\ op.uid \in Nat /\ op.role \in SUBSET AnyTag /\ op.asking \in Nat
    BY <1>6, Types DEF WriteTags, TTypeOK
  <2>2. \A q \in Request : staff'[q].stage = "write" => staff'[q] = staff[q]
    BY <1>6, Types DEF WriteTags, TTypeOK
  <2>3. WritesOriginate'
    <3> SUFFICES ASSUME NEW q \in Request, staff'[q].stage = "write",
                        NEW tag \in staff'[q].role
                 PROVE  \/ tag = "user" \/ GivenNext(staff'[q].uid, tag)
                        \/ tag = staff'[q].tag /\ staff'[q].kind = "add"
      BY DEF WritesOriginate, GivenTo, GivenNext
    <3> QED
      BY <1>g, <2>2 DEF OriginInv, WritesOriginate
  <2>4. CASE users' = users
    BY <1>u, <2>3, <2>4 DEF OriginInv
  <2>5. CASE SetRole(op.uid, op.role) /\ given' = Recorded(op)
    <3>1. ASSUME op.kind = "add" PROVE GivenNext(op.uid, op.tag)
      <4>1. Gifts(op.uid, {op.tag}, op.asking) \subseteq given'
        BY <2>5, <3>1 DEF Recorded
      <4>2. {op.tag} \in SUBSET AnyTag
        BY <2>1
      <4> HIDE DEF op
      <4> QED
        BY <2>1, <4>1, <4>2, Given
    <3>2. ASSUME NEW u \in User
          PROVE  \/ users'[u] = users[u]
                 \/ users'[u].uid = op.uid /\ users'[u].role = op.role
      BY <2>5, Types DEF SetRole, Row
    <3>3. TagsOriginate'
      <4> SUFFICES ASSUME NEW u \in User, NEW tag \in users'[u].role
                   PROVE  tag = "user" \/ GivenNext(users'[u].uid, tag)
        BY DEF TagsOriginate, GivenTo, GivenNext
      <4>1. CASE users'[u] = users[u]
        BY <1>g, <4>1 DEF OriginInv, TagsOriginate
      <4>2. CASE users'[u].uid = op.uid /\ users'[u].role = op.role
        <5>1. \/ tag = "user" \/ GivenTo(op.uid, tag)
              \/ tag = op.tag /\ op.kind = "add"
          BY <2>1, <4>2 DEF OriginInv, WritesOriginate
        <5> QED
          BY <1>g, <3>1, <4>2, <5>1
      <4> QED
        BY <3>2, <4>1, <4>2
    <3> QED
      BY <2>3, <3>3 DEF OriginInv
  <2> QED
    BY <1>6, <2>4, <2>5 DEF WriteTags
<1> QED
  BY <1>1, <1>2, <1>3, <1>4, <1>5, <1>6 DEF Next

\* A gift of this step is an administrator's, or that of a staff request that
\* was entitled to it.
LEMMA NewGift ==
  ASSUME TTypeOK, Next, NEW g \in given' \ given
  PROVE  \/ g.by = Administrator
         \/ \E r \in Request : /\ staff[r].stage = "write"
                               /\ g.by = staff[r].asking /\ g.tag = staff[r].tag
<1>1. ASSUME NEW to, NEW tags, g \in Gifts(to, tags, Administrator)
      PROVE  g.by = Administrator
  BY <1>1 DEF Gifts
<1>2. ASSUME NEW r \in Request, WriteTags(r)
      PROVE  /\ staff[r].stage = "write"
             /\ g.by = staff[r].asking /\ g.tag = staff[r].tag
  <2>1. given' = Recorded(staff[r]) /\ staff[r].stage = "write"
    BY <1>2 DEF WriteTags
  <2>2. g \in Gifts(staff[r].uid, {staff[r].tag}, staff[r].asking)
    BY <2>1 DEF Recorded
  <2> QED
    BY <2>1, <2>2 DEF Gifts
<1> QED
  BY <1>1, <1>2 DEF Next, FirstLogin, AddUser, DeleteUser, RoleRead, RoleWrite,
                    Authorize, ReadTarget

\* Every step keeps the givers entitled.
LEMMA StepGivers ==
  TTypeOK /\ OriginInv /\ GiversInv /\ [Next]_vars => GiversInv'
<1> SUFFICES ASSUME TTypeOK, OriginInv, GiversInv, Next PROVE GiversInv'
  BY DEF GiversInv, StaffGiveOwn, AskingEntitled, GivenTo, Appointed,
         InCirculation, vars
<1>g. /\ \A uid, tag : GivenTo(uid, tag) => GivenNext(uid, tag)
      /\ \A uid : Appointed(uid) => AppointedNext(uid)
      /\ \A tag : InCirculation(tag) => CirculatesNext(tag)
  BY GivenGrows
<1>1. StaffGiveOwn'
  <2> SUFFICES ASSUME NEW g \in given', g.by # Administrator
               PROVE  /\ g.tag \in Tag
                      /\ AppointedNext(g.by) /\ GivenNext(g.by, g.tag)
                      /\ CirculatesNext(g.tag)
    BY DEF StaffGiveOwn, GivenTo, Appointed, InCirculation, GivenNext,
           AppointedNext, CirculatesNext
  <2>1. CASE g \in given
    BY <1>g, <2>1 DEF GiversInv, StaffGiveOwn
  <2>2. CASE g \notin given
    <3>1. PICK r \in Request : /\ staff[r].stage = "write"
                               /\ g.by = staff[r].asking /\ g.tag = staff[r].tag
      BY <2>2, NewGift
    <3> QED
      BY <1>g, <3>1 DEF GiversInv, AskingEntitled, TTypeOK
  <2> QED
    BY <2>1, <2>2
<1>2. ASSUME NEW q \in Request, staff'[q].stage \in {"target", "write"}
      PROVE  \/ /\ staff[q].stage \in {"target", "write"}
                /\ staff'[q].asking = staff[q].asking /\ staff'[q].tag = staff[q].tag
             \/ \E me \in User : Authorize(q, me)
  <2>1. CASE staff'[q] = staff[q]
    BY <1>2, <2>1
  <2>2. ASSUME NEW r \in Request, ReadTarget(r), staff'[q] # staff[q]
        PROVE  /\ staff[q].stage \in {"target", "write"}
               /\ staff'[q].asking = staff[q].asking /\ staff'[q].tag = staff[q].tag
    BY <2>2, ReadTargetType
  <2>3. ASSUME NEW r \in Request, WriteTags(r)
        PROVE  staff'[q] = staff[q]
    BY <1>2, <2>3, Types DEF WriteTags, TTypeOK
  <2>4. ASSUME NEW r \in Request, NEW me \in User, Authorize(r, me), staff'[q] # staff[q]
        PROVE  Authorize(q, me)
    BY <2>4, AuthorizeType
  <2> QED
    BY <2>1, <2>2, <2>3, <2>4
       DEF Next, FirstLogin, AddUser, NewAccount, DeleteUser, RoleRead, RoleWrite
<1>3. ASSUME NEW q \in Request, NEW me \in User, Authorize(q, me)
      PROVE  /\ AppointedNext(staff'[q].asking)
             /\ GivenNext(staff'[q].asking, staff'[q].tag)
             /\ CirculatesNext(staff'[q].tag)
  <2> DEFINE uid == users[me].uid
             tag == staff'[q].tag
  <2>1. /\ staff'[q].asking = uid
        /\ tag \in users[me].role /\ tag \in Tag /\ "staff" \in users[me].role
    BY <1>3, AuthorizeType DEF Authorize
  <2>2. GivenTo(uid, tag) /\ GivenTo(uid, "staff")
    BY <2>1, TagAssumption DEF OriginInv, TagsOriginate
  <2>3. Appointed(uid)
    <3>1. PICK g \in given : /\ g.to = uid /\ g.tag = "staff" /\ g.by = Administrator
      BY <2>2, TagAssumption DEF GivenTo
    <3>2. g = [to |-> uid, tag |-> "staff", by |-> Administrator]
      BY <3>1 DEF TTypeOK, Gift
    <3> QED
      BY <3>1, <3>2 DEF Appointed
  <2>4. InCirculation(tag)
    <3>1. PICK g \in given : g.tag = tag
      BY <2>2 DEF GivenTo
    <3> QED
      BY <3>1 DEF GiversInv, StaffGiveOwn, InCirculation
  <2> QED
    BY <1>g, <2>1, <2>2, <2>3, <2>4
<1>4. AskingEntitled'
  <2> SUFFICES ASSUME NEW q \in Request, staff'[q].stage \in {"target", "write"}
               PROVE  /\ AppointedNext(staff'[q].asking)
                      /\ GivenNext(staff'[q].asking, staff'[q].tag)
                      /\ CirculatesNext(staff'[q].tag)
    BY DEF AskingEntitled, GivenTo, Appointed, InCirculation, GivenNext,
           AppointedNext, CirculatesNext
  <2>1. CASE /\ staff[q].stage \in {"target", "write"}
             /\ staff'[q].asking = staff[q].asking /\ staff'[q].tag = staff[q].tag
    BY <1>g, <2>1 DEF GiversInv, AskingEntitled
  <2> QED
    BY <1>2, <1>3, <2>1
<1> QED
  BY <1>1, <1>4 DEF GiversInv

\* The types of the tags' state.
THEOREM TagsTyped == Spec => []TTypeOK
  BY TagsInit, StepTyped, PTL DEF Spec

LEMMA TagsInvariance == Spec => [](TTypeOK /\ OriginInv /\ GiversInv)
<1>1. TTypeOK /\ OriginInv /\ GiversInv /\ [Next]_vars
         => TTypeOK' /\ OriginInv' /\ GiversInv'
  BY StepTyped, StepTags, StepGivers
<1> QED
  BY <1>1, TagsInit, PTL DEF Spec

\* However the requests of staff members and administrators interleave with
\* each other and with deletions, no account has a tag that was not given to it.
THEOREM TagsAccountedFor == Spec => []TagsOriginate
<1>1. OriginInv => TagsOriginate
  BY DEF OriginInv
<1> QED
  BY <1>1, TagsInvariance, PTL

\* Staff members give only what was given to them, and every tag in use goes back
\* to an administrator.
THEOREM StaffEntitled == Spec => []StaffGiveOwn
<1>1. GiversInv => StaffGiveOwn
  BY DEF GiversInv
<1> QED
  BY <1>1, TagsInvariance, PTL
=============================================================================
