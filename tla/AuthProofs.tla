----------------------------- MODULE AuthProofs -----------------------------
(***************************************************************************)
(* Theorems about the login service, for every set of users, requests and  *)
(* administrators, every threshold and every bound. Three parts:           *)
(*   1. the operators on the users table, and the types;                   *)
(*   2. an account is locked only after Threshold rejections;              *)
(*   3. what a request is granted: sessions, codes, bans, log lines and    *)
(*      the count of its failures.                                         *)
(***************************************************************************)
EXTENDS AuthHistory, FiniteSetTheorems, TLAPS

-----------------------------------------------------------------------------
(* PART 1. Types.                                                           *)

-----------------------------------------------------------------------------
(* What the statements on the users table return and preserve.             *)

Table == [User -> Row]

\* The empty table is a table.
LEMMA NoUsersType == NoUsers \in Table
  BY DEF NoUsers, NoRow, NewRow, Row, Table, UserState, UserFlag, Reason

\* A new row, as the INSERTs write it.
LEMMA NewRowType ==
  ASSUME NEW uid \in Nat, NEW profile \in SUBSET ProfileField
  PROVE  NewRow(uid, profile) \in Row
  BY DEF NewRow, Row, UserState, UserFlag, Reason

LEMMA UpsertUserType ==
  ASSUME NEW t \in Table, NEW u \in User, NEW uid \in Nat,
         NEW profile \in SUBSET ProfileField
  PROVE  UpsertUser(t, u, profile, uid) \in Table
  BY NewRowType DEF UpsertUser, Table, Row

LEMMA AddUserType ==
  ASSUME NEW t \in Table, NEW u \in User, NEW uid \in Nat,
         NEW profile \in SUBSET ProfileField
  PROVE  AddUser(t, u, profile, uid) \in Table
  BY NewRowType DEF AddUser, Table

LEMMA RecordType ==
  ASSUME NEW t \in Table, NEW uid \in Nat
  PROVE  /\ RecordLoginSuccess(t, uid) \in Table
         /\ RecordLoginFailure(t, uid) \in Table
  BY DEF RecordLoginSuccess, RecordLoginFailure, Table, Row

LEMMA SetUserStateType ==
  ASSUME NEW t \in Table, NEW uid \in Nat, NEW state \in UserState,
         NEW why \in Reason, NEW end \in Nat
  PROVE  SetUserState(t, uid, state, why, end) \in Table
  BY DEF SetUserState, Table, Row

LEMMA SetUserFlagType ==
  ASSUME NEW t \in Table, NEW uid \in Nat, NEW flag \in UserFlag
  PROVE  SetUserFlag(t, uid, flag) \in Table
  BY DEF SetUserFlag, Table, Row

LEMMA DeleteUidType ==
  ASSUME NEW t \in Table, NEW uid \in Nat
  PROVE  DeleteUid(t, uid) \in Table
  BY NewRowType DEF DeleteUid, Table, NoRow, ProfileField

LEMMA StateAtType ==
  ASSUME NEW row \in Row, NEW time \in Nat
  PROVE  StateAt(row, time) \in UserState
  BY DEF StateAt, Row, UserState

LEMMA RestrictionEndType ==
  ASSUME NEW hours \in Nat, NEW time \in Nat
  PROVE  RestrictionEnd(hours, time) \in Nat
  BY DEF RestrictionEnd

-----------------------------------------------------------------------------
(* Type correctness.                                                       *)

LEMMA NoLocalType == NoLocal \in Local
  BY NewRowType DEF NoLocal, Local, NoRow, UserState, ProfileField

LEMMA NoAdmType == NoAdm \in Adm
  BY DEF NoAdm, Adm, AdmStage, UserState

\* The account a request under way works on. A request leaves "idle" with a
\* user and gives it up when it finishes.
Subject == \A r \in Request : Active(r) => local[r].user \in User

\* An administrator's operation under way has a user.
AdmSubject == \A a \in Administrator : adm[a].stage # "idle" => adm[a].user \in User

\* Sessions of users name a user and a request.
SessionSubject ==
    \A s \in session_store : ~s.is_admin => s.user \in User /\ s.id \in Request

\* The type invariant by the variables that steps change together. It is
\* TypeOK with the three facts above, without which it is not inductive: a
\* handler indexes the table with the user of its request.
DatabaseOK == /\ users \in Table
              /\ logs \in SUBSET Nat
              /\ nextUid \in Nat \ {0}
MemoryOK == /\ session_store \in SUBSET Session
            /\ code_store \in SUBSET Code
            /\ SessionSubject
RequestsOK == /\ pc \in [Request -> Stage]
              /\ local \in [Request -> Local]
              /\ Subject
AdministratorsOK == /\ adm \in [Administrator -> Adm]
                    /\ AdmSubject

TypeInv == /\ DatabaseOK /\ MemoryOK /\ RequestsOK /\ AdministratorsOK
           /\ now \in Nat

LEMMA InitType == Init => TypeInv
<1> SUFFICES ASSUME Init PROVE TypeInv
  OBVIOUS
<1>1. DatabaseOK
  BY NoUsersType DEF Init, DatabaseOK
<1>2. MemoryOK
  BY DEF Init, MemoryOK, SessionSubject
<1>3. RequestsOK
  BY NoLocalType DEF Init, RequestsOK, Subject, Active, Stage
<1>4. AdministratorsOK
  BY NoAdmType DEF Init, AdministratorsOK, AdmSubject, NoAdm
<1> QED
  BY <1>1, <1>2, <1>3, <1>4 DEF Init, TypeInv

\* A step that moves one request: to a stage, with its new local variables.
LEMMA MoveType ==
  ASSUME RequestsOK, NEW r \in Request, NEW stage \in Stage, NEW l \in Local,
         stage \in Finished \/ l.user \in User,
         Goto(r, stage), local' = [local EXCEPT ![r] = l]
  PROVE  RequestsOK'
  BY DEF RequestsOK, Subject, Active, Goto

LEMMA AdvanceType ==
  ASSUME RequestsOK, NEW r \in Request, NEW stage \in Stage,
         Active(r), Advance(r, stage)
  PROVE  RequestsOK'
  BY DEF RequestsOK, Subject, Active, Advance, Goto

LEMMA FinishType ==
  ASSUME RequestsOK, NEW r \in Request, Finish(r)
  PROVE  RequestsOK'
  BY NoLocalType, MoveType DEF Finish, Finished, Stage

\* What a request under way holds.
LEMMA ActiveType ==
  ASSUME RequestsOK, NEW r \in Request, Active(r)
  PROVE  local[r] \in Local /\ local[r].user \in User /\ local[r].info \in Row
  BY DEF RequestsOK, Subject, Local

LEMMA StepType == TypeInv /\ [Next]_vars => TypeInv'
<1> SUFFICES ASSUME TypeInv, [Next]_vars PROVE TypeInv'
  OBVIOUS
<1> USE DEF TypeInv
<1> DEFINE SameDatabase == UNCHANGED dbVars
           SameMemory == UNCHANGED memVars
           SameRequests == UNCHANGED <<pc, local>>
           SameAdministrators == UNCHANGED adm
<1>a. SameDatabase => DatabaseOK'
  BY DEF DatabaseOK, dbVars
<1>b. SameMemory => MemoryOK'
  BY DEF MemoryOK, SessionSubject, memVars
<1>c. SameRequests => RequestsOK'
  BY DEF RequestsOK, Subject, Active
<1>d. SameAdministrators => AdministratorsOK'
  BY DEF AdministratorsOK, AdmSubject
<1> HIDE DEF SameDatabase, SameMemory, SameRequests, SameAdministrators
<1>1. ASSUME NEW r \in Request, NEW u \in User, LoginBegin(r, u) PROVE TypeInv'
  <2>1. PICK form \in RequestForm :
          local' = [local EXCEPT ![r] = [NoLocal EXCEPT
                      !.user = u, !.direct = form.direct, !.sync = form.sync]]
    BY <1>1 DEF LoginBegin
  <2>2. [NoLocal EXCEPT !.user = u, !.direct = form.direct, !.sync = form.sync] \in Local
    BY NoLocalType, RequestFormAssumption DEF Local
  <2>3. RequestsOK'
    BY <1>1, <2>1, <2>2, MoveType, NoLocalType DEF LoginBegin, Local, Stage, Reading
  <2> QED
    BY <1>1, <1>a, <1>b, <1>d, <2>3
       DEF LoginBegin, SameDatabase, SameMemory, SameAdministrators
<1>2. ASSUME NEW r \in Request, NEW s \in session_store, ContinueBegin(r, s)
      PROVE  TypeInv'
  <2>1. PICK form \in RequestForm :
          local' = [local EXCEPT ![r] = [NoLocal EXCEPT
                      !.user = s.user, !.kind = "continue", !.direct = form.direct]]
    BY <1>2 DEF ContinueBegin
  <2>2. s.user \in User
    BY <1>2 DEF ContinueBegin, MemoryOK, SessionSubject
  <2>3. [NoLocal EXCEPT !.user = s.user, !.kind = "continue",
                        !.direct = form.direct] \in Local
    BY <2>2, NoLocalType, RequestFormAssumption DEF Local
  <2>4. RequestsOK'
    BY <1>2, <2>1, <2>2, <2>3, MoveType, NoLocalType
       DEF ContinueBegin, Local, Stage, Reading
  <2> QED
    BY <1>2, <1>a, <1>b, <1>d, <2>4
       DEF ContinueBegin, SameDatabase, SameMemory, SameAdministrators
<1>3. ASSUME NEW r \in Request, Found(r) PROVE TypeInv'
  <2> DEFINE l == [local[r] EXCEPT
                     !.info = users[local[r].user],
                     !.sync = local[r].sync \/ users[local[r].user].flag = "Uninitialized"]
  <2>1. Active(r)
    BY <1>3 DEF Found, Active, Finished
  <2>2. l \in Local /\ l.user \in User
    BY <2>1, ActiveType DEF DatabaseOK, Table, Local
  <2>3. local' = [local EXCEPT ![r] = l]
    BY <1>3 DEF Found, RequestsOK, Local
  <2>4. RequestsOK'
    BY <1>3, <2>2, <2>3, MoveType DEF Found, Stage, Reading
  <2> QED
    BY <1>3, <1>a, <1>b, <1>d, <2>4
       DEF Found, SameDatabase, SameMemory, SameAdministrators
<1>4. ASSUME NEW r \in Request, Missing(r) PROVE TypeInv'
  <2> DEFINE l == [local[r] EXCEPT !.new = (local[r].kind = "login")]
  <2>1. Active(r)
    BY <1>4 DEF Missing, Active, Finished
  <2>2. l \in Local /\ l.user \in User
    BY <2>1, ActiveType DEF Local
  <2>3. local' = [local EXCEPT ![r] = l]
    BY <1>4 DEF Missing, RequestsOK, Local
  <2>4. RequestsOK'
    BY <1>4, <2>2, <2>3, MoveType DEF Missing, Stage, Reading
  <2> QED
    BY <1>4, <1>a, <1>b, <1>d, <2>4
       DEF Missing, SameDatabase, SameMemory, SameAdministrators
<1>5. ASSUME NEW r \in Request, Create(r) PROVE TypeInv'
  <2>1. Active(r)
    BY <1>5 DEF Create, Active, Finished
  <2>2. DatabaseOK'
    BY <1>5, <2>1, ActiveType, UpsertUserType DEF Create, Insert, DatabaseOK
  <2>3. RequestsOK'
    BY <1>5, <2>1, AdvanceType, FinishType DEF Create, Stage, Reading
  <2> QED
    BY <1>5, <1>b, <1>d, <2>2, <2>3 DEF Create, SameMemory, SameAdministrators
<1>6. ASSUME NEW r \in Request, Vanished(r) PROVE TypeInv'
  BY <1>6, <1>a, <1>b, <1>d, FinishType
     DEF Vanished, SameDatabase, SameMemory, SameAdministrators
<1>7. ASSUME NEW x, LoseMemory(x) PROVE TypeInv'
  <2>1. MemoryOK'
    BY <1>7 DEF LoseMemory, MemoryOK, SessionSubject
  <2>2. RequestsOK'
    BY <1>7, NoLocalType DEF LoseMemory, RequestsOK, Subject, Active, Stage, Finished
  <2>3. AdministratorsOK'
    BY <1>7, NoAdmType DEF LoseMemory, AdministratorsOK, AdmSubject, NoAdm
  <2> QED
    BY <1>7, <1>a, <2>1, <2>2, <2>3 DEF LoseMemory, SameDatabase
<1>8. ASSUME NEW r \in Request, Check(r) PROVE TypeInv'
  <2> DEFINE st == StateAt(local[r].info, now)
             l == [local[r] EXCEPT !.state = st]
  <2>1. Active(r)
    BY <1>8 DEF Check, Active, Finished
  <2>2. l \in Local /\ l.user \in User /\ local[r].info \in Row
    BY <2>1, ActiveType, StateAtType DEF Local
  <2>a. local[r].info.uid \in Nat /\ "Normal" \in UserState /\ "none" \in Reason
    BY <2>2 DEF Row, UserState, Reason
  <2>b. SetUserState(users, local[r].info.uid, "Normal", "none", 0) \in Table
    BY <2>a, SetUserStateType DEF DatabaseOK
  <2>3. DatabaseOK'
    BY <1>8, <2>b DEF Check, Write, DatabaseOK, memVars
  <2>4. CASE Branch(local[r], st) = "done"
    BY <1>8, <1>b, <1>d, <2>3, <2>4, FinishType
       DEF Check, SameMemory, SameAdministrators
  <2>5. CASE Branch(local[r], st) # "done"
    <3>1. local' = [local EXCEPT ![r] = l]
      BY <1>8, <2>5 DEF Check, RequestsOK, Local
    <3>2. Branch(local[r], st) \in Stage
      BY DEF Branch, Onward, Stage, Awaiting, Writing, Finished
    <3>3. RequestsOK'
      BY <1>8, <2>2, <2>5, <3>1, <3>2, MoveType DEF Check
    <3> QED
      BY <1>8, <1>b, <1>d, <2>3, <3>3 DEF Check, SameMemory, SameAdministrators
  <2> QED
    BY <2>4, <2>5
<1>9. ASSUME NEW r \in Request, Accepted(r) \/ Rejected(r) PROVE TypeInv'
  <2>1. RequestsOK'
    BY <1>9, AdvanceType
       DEF Accepted, Rejected, Active, Stage, Awaiting, Writing, Finished
  <2> QED
    BY <1>9, <1>a, <1>b, <1>d, <2>1
       DEF Accepted, Rejected, SameDatabase, SameMemory, SameAdministrators
<1>10. ASSUME NEW r \in Request, FetchProfile(r) PROVE TypeInv'
  <2>1. PICK answer \in ExternalAnswer \cup {{}} :
          /\ local' = [local EXCEPT ![r].got = answer]
          /\ Goto(r, IF answer \cap {"external_uid", "full_name"} = {}
                     THEN "success"
                     ELSE IF local[r].state = "Normal" THEN "flag" ELSE "sync")
    BY <1>10 DEF FetchProfile
  <2> DEFINE l == [local[r] EXCEPT !.got = answer]
  <2>2. Active(r)
    BY <1>10 DEF FetchProfile, Active, Finished
  <2>3. l \in Local /\ l.user \in User
    BY <2>2, ActiveType, ExternalAnswerAssumption DEF Local
  <2>4. local' = [local EXCEPT ![r] = l]
    BY <2>1 DEF RequestsOK, Local
  <2>5. \E stage \in Stage : Goto(r, stage)
    BY <2>1 DEF Stage, Writing
  <2>6. RequestsOK'
    BY <2>3, <2>4, <2>5, MoveType
  <2> QED
    BY <1>10, <1>a, <1>b, <1>d, <2>6
       DEF FetchProfile, SameDatabase, SameMemory, SameAdministrators
<1>11. ASSUME NEW r \in Request, Cancel(r) PROVE TypeInv'
  BY <1>11, <1>a, <1>b, <1>d, FinishType
     DEF Cancel, SameDatabase, SameMemory, SameAdministrators
<1>12. ASSUME NEW r \in Request, SetFlag(r) PROVE TypeInv'
  <2>1. Active(r)
    BY <1>12 DEF SetFlag, Active, Finished
  <2>2. DatabaseOK'
    BY <1>12, <2>1, ActiveType, SetUserFlagType
       DEF SetFlag, Write, DatabaseOK, Row, UserFlag
  <2>3. RequestsOK'
    BY <1>12, <2>1, AdvanceType DEF SetFlag, Stage, Writing
  <2> QED
    BY <1>12, <1>b, <1>d, <2>2, <2>3 DEF SetFlag, SameMemory, SameAdministrators
<1>13. ASSUME NEW r \in Request, SyncProfile(r) \/ ResetProfile(r) PROVE TypeInv'
  <2>1. Active(r)
    BY <1>13 DEF SyncProfile, ResetProfile, Active, Finished
  <2>a. local[r].user \in User /\ local[r].got \in SUBSET ProfileField
    BY <2>1, ActiveType DEF Local
  <2>b. \A profile \in SUBSET ProfileField :
           UpsertUser(users, local[r].user, profile, nextUid) \in Table
    BY <2>a, UpsertUserType DEF DatabaseOK
  <2>c. \E profile \in SUBSET ProfileField :
           Upsert(local[r].user, profile) /\ UNCHANGED logs
    BY <1>13, <2>a DEF SyncProfile, ResetProfile
  <2>2. DatabaseOK'
    BY <2>b, <2>c DEF Upsert, Insert, DatabaseOK
  <2>3. RequestsOK'
    BY <1>13, <2>1, AdvanceType DEF SyncProfile, ResetProfile, Stage, Writing
  <2> QED
    BY <1>13, <1>b, <1>d, <2>2, <2>3
       DEF SyncProfile, ResetProfile, SameMemory, SameAdministrators
<1>14. ASSUME NEW r \in Request, RecordSuccess(r) \/ RecordFailure(r) PROVE TypeInv'
  <2>1. Active(r)
    BY <1>14 DEF RecordSuccess, RecordFailure, Active, Finished
  <2>2. DatabaseOK'
    BY <1>14, <2>1, ActiveType, RecordType
       DEF RecordSuccess, RecordFailure, Record, DatabaseOK, Row
  <2>3. RequestsOK'
    BY <1>14, <2>1, AdvanceType
       DEF RecordSuccess, RecordFailure, Record, AfterFailure, Stage, Writing, Finished
  <2> QED
    BY <1>14, <1>b, <1>d, <2>2, <2>3
       DEF RecordSuccess, RecordFailure, SameMemory, SameAdministrators
<1>15. ASSUME NEW r \in Request, LogAttempt(r) PROVE TypeInv'
  <2>1. Active(r)
    BY <1>15 DEF LogAttempt, Active, Finished
  <2>2. DatabaseOK'
    BY <1>15, <2>1, ActiveType DEF LogAttempt, DatabaseOK, Row
  <2>3. RequestsOK'
    BY <1>15, <2>1, AdvanceType
       DEF LogAttempt, AfterFailure, Stage, Writing, Finished
  <2> QED
    BY <1>15, <1>b, <1>d, <2>2, <2>3 DEF LogAttempt, SameMemory, SameAdministrators
<1>16. ASSUME NEW r \in Request, NewSession(r) PROVE TypeInv'
  <2>1. Active(r)
    BY <1>16 DEF NewSession, Active, Finished
  <2> DEFINE s == [id |-> r, user |-> local[r].user, is_admin |-> FALSE]
  <2>a. s \in Session /\ s.user \in User /\ s.id \in Request
    BY <2>1, ActiveType DEF Session
  <2>b. session_store' = session_store \cup {s} /\ UNCHANGED code_store
    BY <1>16 DEF NewSession
  <2> HIDE DEF s
  <2>2. MemoryOK'
    BY <2>a, <2>b DEF MemoryOK, SessionSubject
  <2>3. RequestsOK'
    BY <1>16, <2>1, AdvanceType, FinishType DEF NewSession, Stage, Writing
  <2> QED
    BY <1>16, <1>a, <1>d, <2>2, <2>3 DEF NewSession, SameDatabase, SameAdministrators
<1>17. ASSUME NEW r \in Request, IssueCode(r) PROVE TypeInv'
  <2>1. Active(r)
    BY <1>17 DEF IssueCode, Active, Finished
  <2>2. MemoryOK'
    BY <1>17, <2>1, ActiveType DEF IssueCode, MemoryOK, SessionSubject, Code
  <2> QED
    BY <1>17, <1>a, <1>d, <2>2, FinishType
       DEF IssueCode, SameDatabase, SameAdministrators
<1>18. ASSUME NEW r \in Request, Lockout(r) PROVE TypeInv'
  <2>1. Active(r)
    BY <1>18 DEF Lockout, Active, Finished
  <2>a. /\ local[r].info.uid \in Nat /\ now + LockoutDuration \in Nat
        /\ "Locked" \in UserState /\ "lockout" \in Reason
    BY <2>1, ActiveType, LockoutDurationAssumption DEF Row, UserState, Reason
  <2>b. SetUserState(users, local[r].info.uid, "Locked", "lockout",
                     now + LockoutDuration) \in Table
    BY <2>a, SetUserStateType DEF DatabaseOK
  <2>2. DatabaseOK'
    BY <1>18, <2>b DEF Lockout, Write, DatabaseOK
  <2> QED
    BY <1>18, <1>b, <1>d, <2>2, FinishType DEF Lockout, SameMemory, SameAdministrators
<1>19. ASSUME NEW a \in Administrator, AdminLogin(a) PROVE TypeInv'
  <2> DEFINE s == [id |-> a, user |-> Nobody, is_admin |-> TRUE]
  <2>a. s \in Session /\ s.is_admin
    BY DEF Session
  <2>b. session_store' = session_store \cup {s} /\ UNCHANGED code_store
    BY <1>19 DEF AdminLogin
  <2> HIDE DEF s
  <2>1. MemoryOK'
    BY <2>a, <2>b DEF MemoryOK, SessionSubject
  <2> QED
    BY <1>19, <1>a, <1>c, <1>d, <2>1
       DEF AdminLogin, SameDatabase, SameRequests, SameAdministrators
<1>20. ASSUME NEW a \in Administrator, NEW u \in User,
              AdminRead(a, u) \/ AdminAddRead(a, u) \/ AdminDeleteRead(a, u)
       PROVE  TypeInv'
  <2>1. users[u].uid \in Nat
    BY DEF DatabaseOK, Table, Row
  <2>a. \E op \in Adm : adm' = [adm EXCEPT ![a] = op] /\ op.user \in User
    <3>1. CASE AdminRead(a, u)
      <4>1. PICK c \in AdminChange :
              adm' = [adm EXCEPT ![a] =
                        [stage |-> "set_state", user |-> u, uid |-> users[u].uid,
                         state |-> c.state, hours |-> c.hours]]
        BY <3>1 DEF AdminRead
      <4>2. [stage |-> "set_state", user |-> u, uid |-> users[u].uid,
             state |-> c.state, hours |-> c.hours] \in Adm
        BY <2>1, AdminChangeAssumption DEF Adm, AdmStage
      <4> QED
        BY <4>1, <4>2
    <3>2. CASE AdminAddRead(a, u)
      <4>1. [NoAdm EXCEPT !.stage = "insert", !.user = u] \in Adm
        BY NoAdmType DEF Adm, AdmStage
      <4> QED
        BY <3>2, <4>1, NoAdmType DEF AdminAddRead, Adm
    <3>3. CASE AdminDeleteRead(a, u)
      <4>1. [NoAdm EXCEPT !.stage = "delete_logs", !.user = u,
                          !.uid = users[u].uid] \in Adm
        BY <2>1, NoAdmType DEF Adm, AdmStage
      <4> QED
        BY <3>3, <4>1, NoAdmType DEF AdminDeleteRead, Adm
    <3> QED
      BY <1>20, <3>1, <3>2, <3>3
  <2>2. AdministratorsOK'
    BY <2>a DEF AdministratorsOK, AdmSubject
  <2> QED
    BY <1>20, <1>a, <1>b, <1>c, <2>2
       DEF AdminRead, AdminAddRead, AdminDeleteRead, SameDatabase, SameMemory,
           SameRequests
<1>21. ASSUME NEW a \in Administrator, AdminSetState(a) PROVE TypeInv'
  <2> DEFINE op == adm[a]
             restricting == op.state \in {"Restricted", "Locked"}
             why == IF restricting THEN "admin" ELSE "none"
             end == IF restricting THEN RestrictionEnd(op.hours, now) ELSE 0
  <2>a. op.uid \in Nat /\ op.state \in UserState /\ op.hours \in Nat
    BY DEF AdministratorsOK, Adm
  <2>b. why \in Reason /\ end \in Nat
    BY <2>a, RestrictionEndType DEF Reason
  <2>c. SetUserState(users, op.uid, op.state, why, end) \in Table
    BY <2>a, <2>b, SetUserStateType DEF DatabaseOK
  <2>1. DatabaseOK'
    BY <1>21, <2>c DEF AdminSetState, Write, DatabaseOK
  <2>2. AdministratorsOK'
    BY <1>21, NoAdmType DEF AdminSetState, AdmEnd, AdministratorsOK, AdmSubject, NoAdm
  <2> QED
    BY <1>21, <1>b, <1>c, <2>1, <2>2 DEF AdminSetState, SameMemory, SameRequests
<1>22. ASSUME NEW a \in Administrator, AdminAdd(a) PROVE TypeInv'
  <2>1. adm[a].user \in User
    BY <1>22 DEF AdminAdd, AdministratorsOK, AdmSubject
  <2>2. DatabaseOK'
    BY <1>22, <2>1, AddUserType DEF AdminAdd, Insert, DatabaseOK, ProfileField
  <2>3. AdministratorsOK'
    BY <1>22, NoAdmType DEF AdminAdd, AdmEnd, AdministratorsOK, AdmSubject, NoAdm
  <2> QED
    BY <1>22, <1>b, <1>c, <2>2, <2>3 DEF AdminAdd, SameMemory, SameRequests
<1>23. ASSUME NEW a \in Administrator, AdminDeleteLogs(a) \/ AdminDeleteUser(a)
       PROVE  TypeInv'
  <2>1. DatabaseOK'
    BY <1>23, DeleteUidType
       DEF AdminDeleteLogs, AdminDeleteUser, DatabaseOK, AdministratorsOK, Adm
  <2>2. AdministratorsOK'
    BY <1>23, NoAdmType
       DEF AdminDeleteLogs, AdminDeleteUser, AdmEnd, AdmGoto, AdministratorsOK,
           AdmSubject, NoAdm, Adm, AdmStage
  <2> QED
    BY <1>23, <1>b, <1>c, <2>1, <2>2
       DEF AdminDeleteLogs, AdminDeleteUser, SameMemory, SameRequests
<1>24. ASSUME NEW x, SessionGone(x) \/ CodeGone(x) PROVE TypeInv'
  <2>1. MemoryOK'
    BY <1>24 DEF SessionGone, CodeGone, MemoryOK, SessionSubject
  <2> QED
    BY <1>24, <1>a, <1>c, <1>d, <2>1
       DEF SessionGone, CodeGone, SameDatabase, SameRequests, SameAdministrators
<1>25. CASE Tick
  BY <1>25, <1>a, <1>b, <1>c, <1>d
     DEF Tick, SameDatabase, SameMemory, SameRequests, SameAdministrators
<1>26. CASE UNCHANGED vars
  BY <1>26, <1>a, <1>b, <1>c, <1>d
     DEF vars, dbVars, memVars, SameDatabase, SameMemory, SameRequests,
         SameAdministrators
<1> QED
  BY <1>1, <1>2, <1>3, <1>4, <1>5, <1>6, <1>7, <1>8, <1>9, <1>10, <1>11, <1>12,
     <1>13, <1>14, <1>15, <1>16, <1>17, <1>18, <1>19, <1>20, <1>21, <1>22, <1>23,
     <1>24, <1>25, <1>26
     DEF Next, Enter, Step, Answer, AdminStep, Unwrap, Crash

\* The login service never leaves its types: a row with a state outside
\* UserState, a handler that works on no account or a code without a user
\* cannot arise, whatever handlers interleave.
THEOREM TypeCorrect == Spec => []TypeOK
<1>1. TypeInv => TypeOK
  BY DEF TypeInv, DatabaseOK, MemoryOK, RequestsOK, AdministratorsOK, TypeOK, Table
<1> QED
  BY InitType, StepType, <1>1, PTL DEF Spec

-----------------------------------------------------------------------------
(***************************************************************************)
(* PART 2. LockoutJustified, for every number of requests, users and        *)
(* administrators, with failing writes, deletions, crashes and              *)
(* disconnecting clients.                                                   *)
(*                                                                         *)
(* The invariant is LockoutInv (AuthHistory). It is not enough that a      *)
(* handler which locks an account has read a counter near the threshold:   *)
(* that counter must be known to be backed by recorded rejections, and by  *)
(* rejections other than the one the handler adds itself.                  *)
(***************************************************************************)

-----------------------------------------------------------------------------
(* What a step does to one row, and to one request.                        *)

\* The row is unchanged; created or deleted; left with no higher counter and
\* no new lockout; incremented by a request that recorded a failure; or locked
\* by a request at the end of its failure path.
RowStep(u) ==
    LET old == users[u]
        new == users'[u]
    IN  \/ new = old
        \/ new.failed = 0 /\ new.why = "none"
        \/ /\ new.uid = old.uid
           /\ new.failed = old.failed
           /\ new.why # "lockout" \/ new.why = old.why
        \/ /\ new.uid = old.uid
           /\ new.why = old.why
           /\ new.failed = 0
        \/ /\ new.uid = old.uid
           /\ new.why = old.why
           /\ new.failed = old.failed + 1
           /\ \E r \in Request : /\ pc[r] = "failure" /\ pc'[r] = "failure_log"
                                 /\ local[r].info.uid = old.uid
        \/ /\ new.uid = old.uid
           /\ new.failed = old.failed
           /\ \E r \in Request : pc[r] = "lockout" /\ local[r].info.uid = old.uid

LEMMA UpsertRow ==
  ASSUME NEW t \in Table, NEW v \in User, NEW profile \in SUBSET ProfileField,
         NEW uid \in Nat, users = t, users' = UpsertUser(t, v, profile, uid)
  PROVE  \A u \in User : RowStep(u)
  BY DEF Table, Row, UpsertUser, NewRow, RowStep

LEMMA AddRow ==
  ASSUME NEW t \in Table, NEW v \in User, NEW profile \in SUBSET ProfileField,
         NEW uid \in Nat, users = t, users' = AddUser(t, v, profile, uid)
  PROVE  \A u \in User : RowStep(u)
  BY DEF Table, Row, AddUser, NewRow, RowStep

LEMMA StateRow ==
  ASSUME NEW t \in Table, NEW uid \in Nat, NEW state \in UserState,
         NEW why \in {"none", "admin"}, NEW end \in Nat,
         users = t, users' = SetUserState(t, uid, state, why, end)
  PROVE  \A u \in User : RowStep(u)
  BY DEF Table, Row, SetUserState, RowStep

LEMMA TableStep == TypeInv /\ Next => \A u \in User : RowStep(u)
<1> SUFFICES ASSUME TypeInv, Next PROVE \A u \in User : RowStep(u)
  OBVIOUS
<1>0. users \in Table /\ nextUid \in Nat
  BY DEF TypeInv, DatabaseOK
<1>a. UNCHANGED users => \A u \in User : RowStep(u)
  BY DEF RowStep
<1>b. ASSUME NEW r \in Request, Active(r)
      PROVE  /\ local[r] \in Local /\ local[r].user \in User
             /\ local[r].info \in Row /\ local[r].info.uid \in Nat
             /\ local[r].got \in SUBSET ProfileField
  BY <1>b, ActiveType DEF TypeInv, Local, Row
<1>1. ASSUME NEW r \in Request, Create(r) PROVE \A u \in User : RowStep(u)
  BY <1>0, <1>a, <1>b, <1>1, UpsertRow DEF Create, Insert, Active, Finished
<1>2. ASSUME NEW r \in Request, SyncProfile(r) \/ ResetProfile(r)
      PROVE  \A u \in User : RowStep(u)
  BY <1>0, <1>a, <1>b, <1>2, UpsertRow
     DEF SyncProfile, ResetProfile, Upsert, Insert, Active, Finished
<1>3. ASSUME NEW r \in Request, Check(r) PROVE \A u \in User : RowStep(u)
  <2>1. "Normal" \in UserState
    BY DEF UserState
  <2> QED
    BY <1>0, <1>a, <1>b, <1>3, <2>1, StateRow DEF Check, Write, Active, Finished
<1>4. ASSUME NEW r \in Request, SetFlag(r) PROVE \A u \in User : RowStep(u)
  BY <1>0, <1>a, <1>4 DEF SetFlag, Write, SetUserFlag, Table, Row, RowStep
<1>5. ASSUME NEW r \in Request, RecordSuccess(r) PROVE \A u \in User : RowStep(u)
  BY <1>0, <1>a, <1>5
     DEF RecordSuccess, Record, RecordLoginSuccess, Table, Row, RowStep
<1>6. ASSUME NEW r \in Request, RecordFailure(r) PROVE \A u \in User : RowStep(u)
  <2>1. CASE UNCHANGED users
    BY <1>a, <2>1
  <2>2. CASE /\ users' = RecordLoginFailure(users, local[r].info.uid)
             /\ Advance(r, "failure_log")
    <3>1. pc[r] = "failure" /\ pc'[r] = "failure_log"
      BY <1>6, <2>2 DEF RecordFailure, Advance, Goto, TypeInv, RequestsOK
    <3> QED
      BY <1>0, <2>2, <3>1 DEF RecordLoginFailure, Table, Row, RowStep
  <2> QED
    BY <1>6, <2>1, <2>2 DEF RecordFailure, Record
<1>7. ASSUME NEW r \in Request, Lockout(r) PROVE \A u \in User : RowStep(u)
  BY <1>0, <1>a, <1>7 DEF Lockout, Write, SetUserState, Table, Row, RowStep
<1>8. ASSUME NEW a \in Administrator, AdminSetState(a)
      PROVE  \A u \in User : RowStep(u)
  <2>1. adm[a].uid \in Nat /\ adm[a].state \in UserState /\ adm[a].hours \in Nat
    BY DEF TypeInv, AdministratorsOK, Adm
  <2>2. now \in Nat /\ RestrictionEnd(adm[a].hours, now) \in Nat
    BY <2>1, RestrictionEndType DEF TypeInv
  <2> QED
    BY <1>0, <1>a, <1>8, <2>1, <2>2, StateRow DEF AdminSetState, Write
<1>9. ASSUME NEW a \in Administrator, AdminAdd(a) PROVE \A u \in User : RowStep(u)
  <2>1. adm[a].user \in User
    BY <1>9 DEF AdminAdd, TypeInv, AdministratorsOK, AdmSubject
  <2> QED
    BY <1>0, <1>a, <1>9, <2>1, AddRow DEF AdminAdd, Insert, ProfileField
<1>10. ASSUME NEW a \in Administrator, AdminDeleteUser(a)
       PROVE  \A u \in User : RowStep(u)
  BY <1>0, <1>a, <1>10 DEF AdminDeleteUser, DeleteUid, NoRow, NewRow, Table, RowStep
<1>11. Enter => UNCHANGED users
  BY DEF Enter, LoginBegin, ContinueBegin, dbVars
<1>12. \A r \in Request : \/ Found(r) \/ Missing(r) \/ Vanished(r) \/ Unwrap(r)
                          \/ LogAttempt(r) \/ NewSession(r) \/ IssueCode(r)
                          \/ Answer(r)
                       => UNCHANGED users
  BY DEF Found, Missing, Vanished, Unwrap, LoseMemory, LogAttempt, NewSession,
         IssueCode, Answer, Accepted, Rejected, FetchProfile, Cancel, dbVars
<1>13. \A a \in Administrator :
          \/ AdminLogin(a) \/ AdminDeleteLogs(a)
          \/ \E u \in User : AdminRead(a, u) \/ AdminAddRead(a, u) \/ AdminDeleteRead(a, u)
          => UNCHANGED users
  BY DEF AdminLogin, AdminDeleteLogs, AdminRead, AdminAddRead, AdminDeleteRead, dbVars
<1>14. \/ \E s \in session_store : SessionGone(s)
       \/ \E c \in code_store : CodeGone(c)
       \/ Tick \/ Crash
       => UNCHANGED users
  BY DEF SessionGone, CodeGone, Tick, Crash, LoseMemory, dbVars
<1> QED
  BY <1>a, <1>1, <1>2, <1>3, <1>4, <1>5, <1>6, <1>7, <1>8, <1>9, <1>10, <1>11,
     <1>12, <1>13, <1>14 DEF Next, Step, AdminStep

\* A handler stays where it is; ends; is on the way to its first row; reads the
\* row; or goes on with the row it holds.
RequestStep(r) ==
    \/ /\ pc'[r] = pc[r]
       /\ pc[r] = "idle" \/ local'[r].info = local[r].info
    \/ pc'[r] \in Finished
    \/ /\ pc[r] \in {"idle", "lookup", "create"}
       /\ pc'[r] \in {"lookup", "create", "reread"}
    \/ /\ pc[r] \in {"lookup", "reread"} /\ pc'[r] = "check"
       /\ local[r].user \in User /\ Present(users, local[r].user)
       /\ local'[r].info = users[local[r].user]
    \/ /\ local'[r].info = local[r].info
       /\ \/ /\ pc[r] = "check" /\ pc'[r] \in {"verify", "session", "code"}
          \/ /\ pc[r] = "verify"
             /\ pc'[r] \in {"userinfo", "success", "reset", "failure"}
          \/ /\ pc[r] \in AfterRead \ (AfterRejection \cup {"check", "verify"})
             /\ pc'[r] \in AfterRead \ (AfterRejection \cup {"check", "verify"})
          \/ pc[r] = "reset" /\ pc'[r] = "failure"
          \/ pc[r] = "failure" /\ pc'[r] = "failure_log"
          \/ /\ pc[r] \in {"failure", "failure_log"} /\ pc'[r] = "lockout"
             /\ ReachesThreshold(local[r].info)

LEMMA ControlStep == TypeInv /\ Next => \A q \in Request : RequestStep(q)
<1> SUFFICES ASSUME TypeInv, Next PROVE \A q \in Request : RequestStep(q)
  OBVIOUS
<1>0. pc \in [Request -> Stage] /\ local \in [Request -> Local]
  BY DEF TypeInv, RequestsOK
<1>a. UNCHANGED <<pc, local>> => \A q \in Request : RequestStep(q)
  BY DEF RequestStep
\* A step of request r leaves every other request alone.
<1>b. ASSUME NEW r \in Request, NEW q \in Request, NEW stage, NEW l, q # r,
             pc' = [pc EXCEPT ![r] = stage],
             local' = local \/ local' = [local EXCEPT ![r] = l]
      PROVE  RequestStep(q)
  BY <1>0, <1>b DEF RequestStep
<1>c. ASSUME NEW r \in Request, Finish(r) PROVE \A q \in Request : RequestStep(q)
  BY <1>0, <1>b, <1>c DEF Finish, Goto, RequestStep, Finished
<1>d. ASSUME NEW r \in Request, NEW stage, Advance(r, stage)
      PROVE  /\ pc'[r] = stage /\ local' = local
             /\ RequestStep(r) => \A q \in Request : RequestStep(q)
  BY <1>0, <1>b, <1>d DEF Advance, Goto
<1>1. Enter => \A q \in Request : RequestStep(q)
  BY <1>0, <1>b DEF Enter, LoginBegin, ContinueBegin, Goto, RequestStep
<1>2. ASSUME NEW r \in Request, Found(r) PROVE \A q \in Request : RequestStep(q)
  <2> DEFINE l == [local[r] EXCEPT
                     !.info = users[local[r].user],
                     !.sync = local[r].sync \/ users[local[r].user].flag = "Uninitialized"]
  <2>1. local' = [local EXCEPT ![r] = l] /\ pc' = [pc EXCEPT ![r] = "check"]
    BY <1>0, <1>2 DEF Found, Goto, Local
  <2>2. local[r].user \in User
    BY <1>2 DEF Found, TypeInv, RequestsOK, Subject, Active, Finished
  <2>3. RequestStep(r)
    BY <1>0, <1>2, <2>1, <2>2 DEF Found, RequestStep, Local
  <2> QED
    BY <1>b, <2>1, <2>3
<1>3. ASSUME NEW r \in Request, Missing(r) PROVE \A q \in Request : RequestStep(q)
  <2> DEFINE l == [local[r] EXCEPT !.new = (local[r].kind = "login")]
  <2>1. local' = [local EXCEPT ![r] = l] /\ pc' = [pc EXCEPT ![r] = "create"]
    BY <1>0, <1>3 DEF Missing, Goto, Local
  <2>2. RequestStep(r)
    BY <1>0, <1>3, <2>1 DEF Missing, RequestStep
  <2> QED
    BY <1>b, <2>1, <2>2
<1>4. ASSUME NEW r \in Request, Create(r) PROVE \A q \in Request : RequestStep(q)
  BY <1>c, <1>d, <1>4 DEF Create, RequestStep
<1>5. ASSUME NEW r \in Request, Vanished(r) \/ Cancel(r)
      PROVE  \A q \in Request : RequestStep(q)
  BY <1>c, <1>5 DEF Vanished, Cancel
<1>6. ASSUME NEW x, LoseMemory(x) PROVE \A q \in Request : RequestStep(q)
  <2> SUFFICES ASSUME NEW q \in Request PROVE RequestStep(q)
    OBVIOUS
  <2>1. CASE pc'[q] \in Finished
    BY <2>1 DEF RequestStep
  <2>2. CASE pc'[q] \notin Finished
    BY <1>0, <1>6, <2>2 DEF LoseMemory, Finished, RequestStep
  <2> QED
    BY <2>1, <2>2
<1>7. ASSUME NEW r \in Request, Check(r) PROVE \A q \in Request : RequestStep(q)
  <2> DEFINE st == StateAt(local[r].info, now)
             l == [local[r] EXCEPT !.state = st]
  <2>1. CASE Branch(local[r], st) = "done"
    BY <1>c, <1>7, <2>1 DEF Check
  <2>2. CASE Branch(local[r], st) # "done"
    <3>1. /\ local' = [local EXCEPT ![r] = l]
          /\ pc' = [pc EXCEPT ![r] = Branch(local[r], st)]
      BY <1>0, <1>7, <2>2 DEF Check, Goto, Local
    <3>2. Branch(local[r], st) \in {"verify", "session", "code"}
      BY <2>2 DEF Branch, Onward
    <3>3. RequestStep(r)
      BY <1>0, <1>7, <3>1, <3>2 DEF Check, RequestStep, Local
    <3> QED
      BY <1>b, <3>1, <3>3
  <2> QED
    BY <2>1, <2>2
<1>8. ASSUME NEW r \in Request, Accepted(r) \/ Rejected(r)
      PROVE  \A q \in Request : RequestStep(q)
  BY <1>d, <1>8 DEF Accepted, Rejected, RequestStep
<1>9. ASSUME NEW r \in Request, FetchProfile(r)
      PROVE  \A q \in Request : RequestStep(q)
  <2>1. PICK answer \in ExternalAnswer \cup {{}} :
          local' = [local EXCEPT ![r].got = answer]
    BY <1>9 DEF FetchProfile
  <2> DEFINE l == [local[r] EXCEPT !.got = answer]
  <2>2. local' = [local EXCEPT ![r] = l]
    BY <1>0, <2>1 DEF Local
  <2>3. PICK stage \in {"success", "flag", "sync"} : pc' = [pc EXCEPT ![r] = stage]
    BY <1>9 DEF FetchProfile, Goto
  <2>4. RequestStep(r)
    BY <1>0, <1>9, <2>2, <2>3
       DEF FetchProfile, RequestStep, AfterRead, AfterRejection, Writing, Local
  <2> QED
    BY <1>b, <2>2, <2>3, <2>4
<1>10. ASSUME NEW r \in Request, SetFlag(r) \/ SyncProfile(r) \/ RecordSuccess(r)
       PROVE  \A q \in Request : RequestStep(q)
  BY <1>d, <1>10
     DEF SetFlag, SyncProfile, RecordSuccess, Record, RequestStep, AfterRead,
         AfterRejection, Writing
<1>11. ASSUME NEW r \in Request, RecordFailure(r)
       PROVE  \A q \in Request : RequestStep(q)
  BY <1>d, <1>11
     DEF RecordFailure, Record, AfterFailure, RequestStep, Finished
<1>12. ASSUME NEW r \in Request, LogAttempt(r)
       PROVE  \A q \in Request : RequestStep(q)
  BY <1>d, <1>12
     DEF LogAttempt, AfterFailure, RequestStep, AfterRead, AfterRejection, Writing,
         Finished
<1>13. ASSUME NEW r \in Request, NewSession(r) \/ IssueCode(r) \/ Lockout(r)
       PROVE  \A q \in Request : RequestStep(q)
  BY <1>c, <1>d, <1>13
     DEF NewSession, IssueCode, Lockout, RequestStep, AfterRead, AfterRejection,
         Writing
<1>14. ASSUME NEW r \in Request, ResetProfile(r)
       PROVE  \A q \in Request : RequestStep(q)
  BY <1>d, <1>14 DEF ResetProfile, RequestStep
<1>15. \A a \in Administrator : AdminStep(a) => UNCHANGED <<pc, local>>
  BY DEF AdminStep, AdminLogin, AdminRead, AdminAddRead, AdminDeleteRead,
         AdminSetState, AdminAdd, AdminDeleteLogs, AdminDeleteUser
<1>16. \/ \E s \in session_store : SessionGone(s)
       \/ \E c \in code_store : CodeGone(c)
       \/ Tick
       => UNCHANGED <<pc, local>>
  BY DEF SessionGone, CodeGone, Tick
<1> QED
  BY <1>a, <1>1, <1>2, <1>3, <1>4, <1>5, <1>6, <1>7, <1>8, <1>9, <1>10, <1>11,
     <1>12, <1>13, <1>14, <1>15, <1>16 DEF Next, Step, Answer, Unwrap, Crash

-----------------------------------------------------------------------------
(* The invariant.                                                          *)

RejectedOK == rejected \in [Request -> Nat]

LEMMA HTypes == HSpec => [](TypeInv /\ RejectedOK)
<1>1. HInit => TypeInv /\ RejectedOK
  BY InitType DEF HInit, RejectedOK
<1>2. TypeInv /\ RejectedOK /\ [HNext]_hvars => (TypeInv /\ RejectedOK)'
  <2> SUFFICES ASSUME TypeInv, RejectedOK, [HNext]_hvars
               PROVE  TypeInv' /\ RejectedOK'
    OBVIOUS
  <2>1. TypeInv'
    BY StepType DEF HNext, hvars
  <2>2. CASE HNext
    <3>1. \A r \in Request : pc[r] = "verify" => local[r].info.uid \in Nat
      BY ActiveType DEF TypeInv, Active, Finished, Row
    <3> QED
      BY <2>1, <2>2, <3>1 DEF HNext, Observe, Verified, RejectedOK
  <2>3. CASE UNCHANGED hvars
    BY <2>1, <2>3 DEF hvars, histVars, RejectedOK
  <2> QED
    BY <2>2, <2>3
<1> QED
  BY <1>1, <1>2, PTL DEF HSpec

\* Sets of requests are finite and their sizes are comparable.
LEMMA RequestSets ==
  ASSUME NEW S \in SUBSET Request, NEW T \in SUBSET Request
  PROVE  /\ Cardinality(S) \in Nat
         /\ S \subseteq T => Cardinality(S) <= Cardinality(T)
         /\ \A r \in T \ S : S \subseteq T => Cardinality(S) + 1 <= Cardinality(T)
<1>1. IsFiniteSet(S) /\ IsFiniteSet(T)
  BY RequestAssumption, FS_Subset
<1>2. Cardinality(S) \in Nat /\ Cardinality(T) \in Nat
  BY <1>1, FS_CardinalityType
<1>3. S \subseteq T => Cardinality(S) <= Cardinality(T)
  BY <1>1, FS_Subset
<1>4. ASSUME NEW r \in T \ S, S \subseteq T
      PROVE  Cardinality(S) + 1 <= Cardinality(T)
  <2>1. IsFiniteSet(S \cup {r}) /\ Cardinality(S \cup {r}) = Cardinality(S) + 1
    BY <1>1, <1>4, FS_AddElement
  <2>2. S \cup {r} \subseteq T
    BY <1>4
  <2>3. Cardinality(S \cup {r}) <= Cardinality(T)
    BY <1>1, <2>2, FS_Subset
  <2> QED
    BY <2>1, <2>3
<1> QED
  BY <1>2, <1>3, <1>4

LEMMA InitLockout == HInit => LockoutInv
<1> SUFFICES ASSUME HInit PROVE LockoutInv
  OBVIOUS
<1>1. LockoutJustified /\ CounterBacked
  BY DEF HInit, Init, LockoutJustified, CounterBacked, NoUsers, NoRow, NewRow, Present
<1>2. SnapshotBacked /\ RejectionKnown
  BY DEF HInit, Init, SnapshotBacked, RejectionKnown, AfterRead, AfterRejection, Writing
<1> QED
  BY <1>1, <1>2 DEF LockoutInv

LEMMA StepLockout ==
  TypeInv /\ RejectedOK /\ LockoutInv /\ [HNext]_hvars => LockoutInv'
<1> SUFFICES ASSUME TypeInv, RejectedOK, LockoutInv, HNext PROVE LockoutInv'
  BY DEF hvars, vars, histVars, LockoutInv, LockoutJustified, CounterBacked,
         SnapshotBacked, RejectionKnown, RejectedFor, Counted
<1> USE DEF LockoutInv
<1>r. \A u \in User : RowStep(u)
  BY TableStep DEF HNext
<1>q. \A r \in Request : RequestStep(r)
  BY ControlStep DEF HNext
<1>t. TypeInv' /\ users \in Table /\ users' \in Table
  BY StepType DEF HNext, TypeInv, DatabaseOK
<1>v. \A r \in Request : pc[r] # "verify" => rejected'[r] = rejected[r]
  BY DEF HNext, Observe, Verified
\* Rejections are never taken back, and a recorded one stays recorded.
<1>1. ASSUME NEW uid \in Nat \ {0} PROVE RejectedFor(uid) \subseteq RejectedFor(uid)'
  BY <1>v, <1>1 DEF RejectedFor, RejectionKnown, AfterRejection, Finished
<1>2. ASSUME NEW uid \in Nat \ {0} PROVE Counted(uid) \subseteq Counted(uid)'
  <2> SUFFICES ASSUME NEW r \in Counted(uid)
               PROVE  r \in Request /\ rejected'[r] = uid
                      /\ pc'[r] \notin {"reset", "failure"}
    BY DEF Counted, RejectedFor
  <2>1. /\ r \in Request /\ rejected[r] = uid
        /\ pc[r] \in {"failure_log", "lockout"} \cup Finished
    BY DEF Counted, RejectedFor, RejectionKnown, AfterRejection
  <2>2. RequestStep(r)
    BY <1>q, <2>1
  <2> QED
    BY <1>v, <2>1, <2>2
       DEF RequestStep, Finished, AfterRead, AfterRejection, Writing
<1>3. \A uid : /\ RejectedFor(uid) \in SUBSET Request
               /\ Counted(uid) \in SUBSET RejectedFor(uid)
               /\ RejectedFor(uid)' \in SUBSET Request
               /\ Counted(uid)' \in SUBSET RejectedFor(uid)'
  BY DEF RejectedFor, Counted
<1>4. RejectionKnown'
  <2> SUFFICES ASSUME NEW r \in Request
               PROVE  /\ pc'[r] \in AfterRejection => rejected'[r] = local'[r].info.uid
                      /\ pc'[r] \notin AfterRejection \cup Finished => rejected'[r] = 0
                      /\ pc'[r] = "lockout" => ReachesThreshold(local'[r].info)
    BY DEF RejectionKnown, ReachesThreshold
  <2>1. RequestStep(r)
    BY <1>q
  <2>2. CASE Verified(r, {"reset", "failure"})
    <3>1. rejected'[r] = local[r].info.uid
      BY <2>2 DEF HNext, Observe
    <3> QED
      BY <2>1, <2>2, <3>1 DEF Verified, RequestStep, AfterRejection, Finished
  <2>3. CASE ~Verified(r, {"reset", "failure"})
    <3>1. rejected'[r] = rejected[r]
      BY <2>3 DEF HNext, Observe
    <3> QED
      BY <2>1, <2>3, <3>1
         DEF Verified, RequestStep, RejectionKnown, AfterRejection, AfterRead, Writing,
             Finished
  <2> QED
    BY <2>2, <2>3
<1>5. CounterBacked'
  <2> SUFFICES ASSUME NEW u \in User, Present(users', u),
                      NEW uid, uid = users'[u].uid
               PROVE  users'[u].failed <= Cardinality(Counted(uid)')
    BY DEF CounterBacked, Present, Counted, RejectedFor
  <2>1. uid \in Nat \ {0} /\ users'[u].failed \in Nat /\ users[u].failed \in Nat
    BY <1>t DEF Table, Row, Present
  <2>2. Cardinality(Counted(uid)') \in Nat
    BY <1>3, RequestSets
  <2>3. CASE users'[u].failed = 0
    BY <2>2, <2>3
  <2>4. CASE users'[u].uid = users[u].uid /\ users'[u].failed = users[u].failed
    <3>1. users[u].failed <= Cardinality(Counted(uid))
      BY <2>1, <2>4 DEF CounterBacked, Present
    <3>2. Cardinality(Counted(uid)) <= Cardinality(Counted(uid)')
      BY <1>2, <1>3, <2>1, RequestSets
    <3>3. Cardinality(Counted(uid)) \in Nat
      BY <1>3, RequestSets
    <3> QED
      BY <2>1, <2>2, <2>4, <3>1, <3>2, <3>3
  <2>5. ASSUME NEW r \in Request, pc[r] = "failure", pc'[r] = "failure_log",
               local[r].info.uid = users[u].uid, users'[u].uid = users[u].uid,
               users'[u].failed = users[u].failed + 1
        PROVE  users'[u].failed <= Cardinality(Counted(uid)')
    <3>1. rejected'[r] = uid
      BY <1>v, <2>5 DEF RejectionKnown, AfterRejection
    <3>2. r \in Counted(uid)' \ Counted(uid)
      BY <2>5, <3>1 DEF Counted, RejectedFor
    <3>3. Cardinality(Counted(uid)) + 1 <= Cardinality(Counted(uid)')
      BY <1>2, <1>3, <2>1, <3>2, RequestSets
    <3>4. users[u].failed <= Cardinality(Counted(uid))
      BY <2>1, <2>5 DEF CounterBacked, Present
    <3>5. Cardinality(Counted(uid)) \in Nat
      BY <1>3, RequestSets
    <3> QED
      BY <2>1, <2>2, <2>5, <3>3, <3>4, <3>5
  <2> QED
    BY <1>r, <2>3, <2>4, <2>5 DEF RowStep
<1>6. SnapshotBacked'
  <2> SUFFICES ASSUME NEW r \in Request, pc'[r] \in AfterRead,
                      NEW uid, uid = local'[r].info.uid
               PROVE  /\ uid # 0
                      /\ local'[r].info.failed <= Cardinality(Counted(uid)' \ {r})
    BY DEF SnapshotBacked, Counted, RejectedFor, AfterRead, Writing
  <2>0. uid \in Nat /\ local'[r].info.failed \in Nat
    BY <1>t DEF TypeInv, RequestsOK, Local, Row
  <2>1. ASSUME uid # 0,
               local'[r].info.failed <= Cardinality(Counted(uid) \ {r})
        PROVE  local'[r].info.failed <= Cardinality(Counted(uid)' \ {r})
    <3>1. Counted(uid) \ {r} \subseteq Counted(uid)' \ {r}
      BY <1>2, <2>0, <2>1
    <3>2. /\ Cardinality(Counted(uid) \ {r}) \in Nat
          /\ Cardinality(Counted(uid)' \ {r}) \in Nat
          /\ Cardinality(Counted(uid) \ {r}) <= Cardinality(Counted(uid)' \ {r})
      <4>1. Counted(uid) \ {r} \in SUBSET Request /\ Counted(uid)' \ {r} \in SUBSET Request
        BY <1>3
      <4> QED
        BY <3>1, <4>1, RequestSets
    <3> QED
      BY <2>0, <2>1, <3>2
  <2>2. CASE local'[r].info = local[r].info /\ pc[r] \in AfterRead
    BY <2>1, <2>2 DEF SnapshotBacked
  <2>3. CASE /\ pc[r] \in {"lookup", "reread"}
             /\ local[r].user \in User /\ Present(users, local[r].user)
             /\ local'[r].info = users[local[r].user]
    <3>1. uid # 0 /\ local'[r].info.failed <= Cardinality(Counted(uid))
      BY <2>3 DEF CounterBacked, Present
    <3>2. r \notin Counted(uid)
      BY <2>3, <3>1 DEF RejectionKnown, AfterRejection, Finished, Counted, RejectedFor
    <3>3. Counted(uid) \ {r} = Counted(uid)
      BY <3>2
    <3> QED
      BY <2>1, <3>1, <3>3
  <2> QED
    BY <1>q, <2>2, <2>3
       DEF RequestStep, AfterRead, AfterRejection, Writing, Finished
<1>7. LockoutJustified'
  <2> SUFFICES ASSUME NEW u \in User, Present(users', u), users'[u].why = "lockout",
                      NEW uid, uid = users'[u].uid
               PROVE  Cardinality(RejectedFor(uid)') >= Threshold
    BY DEF LockoutJustified, Present, RejectedFor
  <2>1. uid \in Nat \ {0}
    BY <1>t DEF Table, Row, Present
  <2>2. /\ Cardinality(RejectedFor(uid)) \in Nat
        /\ Cardinality(RejectedFor(uid)') \in Nat
        /\ Cardinality(RejectedFor(uid)) <= Cardinality(RejectedFor(uid)')
    BY <1>1, <1>3, <2>1, RequestSets
  <2>3. CASE users'[u].uid = users[u].uid /\ users[u].why = "lockout"
    BY <2>1, <2>2, <2>3, ThresholdAssumption DEF LockoutJustified, Present
  <2>4. ASSUME NEW r \in Request, pc[r] = "lockout", local[r].info.uid = uid
        PROVE  Cardinality(RejectedFor(uid)') >= Threshold
    <3>1. r \in RejectedFor(uid)
      BY <2>4 DEF RejectionKnown, AfterRejection, RejectedFor
    <3>2. Counted(uid) \ {r} \subseteq RejectedFor(uid)
      BY <1>3
    <3>3. Counted(uid) \ {r} \in SUBSET Request /\ RejectedFor(uid) \in SUBSET Request
      BY <1>3
    <3>4. /\ Cardinality(Counted(uid) \ {r}) \in Nat
          /\ Cardinality(Counted(uid) \ {r}) + 1 <= Cardinality(RejectedFor(uid))
      BY <3>1, <3>2, <3>3, RequestSets
    <3>5. local[r].info.failed <= Cardinality(Counted(uid) \ {r})
      BY <2>4 DEF SnapshotBacked, AfterRead, Writing
    <3>6. local[r].info.failed + 1 >= Threshold /\ local[r].info.failed \in Nat
      BY <2>4 DEF RejectionKnown, ReachesThreshold, TypeInv, RequestsOK, Local, Row
    <3> QED
      BY <2>2, <3>4, <3>5, <3>6, ThresholdAssumption
  <2> QED
    BY <1>r, <1>t, <2>3, <2>4 DEF RowStep
<1> QED
  BY <1>4, <1>5, <1>6, <1>7

\* The login service locks an account only after at least Threshold different
\* logins of that account were rejected by the external system.
THEOREM LockoutsJustified == HSpec => []LockoutJustified
<1>1. LockoutInv => LockoutJustified
  BY DEF LockoutInv
<1> QED
  BY HTypes, InitLockout, StepLockout, <1>1, PTL DEF HSpec

-----------------------------------------------------------------------------
(***************************************************************************)
(* PART 3. What a login or continue request is granted: sessions, codes,    *)
(* bans, log lines and the count of its failures.                           *)
(*                                                                         *)
(* A handler decides on a copy of the row. The proofs say how a decision on *)
(* an old copy is still backed by what the account allowed since the        *)
(* request began.                                                          *)
(***************************************************************************)

-----------------------------------------------------------------------------
(* What a step does to one row, and to one request.                        *)

\* The row is that of the same account, with a new restriction only by an
\* administrator, a check or a lockout; or one just created; or deleted with
\* its log lines.
RowFact(u) ==
    LET old == users[u]
        new == users'[u]
    IN  \/ /\ new.uid = old.uid
           /\ \/ new.state = old.state /\ new.end = old.end
              \/ ByAdministrator
              \/ \E r \in Request :
                    /\ pc[r] = "lockout" \/ /\ pc[r] = "check"
                                            /\ Expired(local[r].info, now)
                    /\ pc'[r] # pc[r]
                    /\ local[r].info.uid = old.uid
        \/ /\ new.state = "Normal"
           /\ old.uid = 0 \/ old.uid \notin logs'
           /\ new.uid # old.uid \/ ByAdministrator

LEMMA UpsertFact ==
  ASSUME NEW t \in Table, NEW v \in User, NEW profile \in SUBSET ProfileField,
         NEW uid \in Nat \ {0}, users = t, users' = UpsertUser(t, v, profile, uid)
  PROVE  \A u \in User : RowFact(u)
  BY DEF Table, Row, UpsertUser, NewRow, Present, RowFact

LEMMA AddFact ==
  ASSUME NEW t \in Table, NEW v \in User, NEW profile \in SUBSET ProfileField,
         NEW uid \in Nat \ {0}, users = t, users' = AddUser(t, v, profile, uid)
  PROVE  \A u \in User : RowFact(u)
  BY DEF Table, Row, AddUser, NewRow, Present, RowFact

LEMMA RowFacts == TypeInv /\ Next => \A u \in User : RowFact(u)
<1> SUFFICES ASSUME TypeInv, Next PROVE \A u \in User : RowFact(u)
  OBVIOUS
<1>0. users \in Table /\ nextUid \in Nat \ {0} /\ pc \in [Request -> Stage]
  BY DEF TypeInv, DatabaseOK, RequestsOK
<1>a. UNCHANGED users => \A u \in User : RowFact(u)
  BY DEF RowFact
<1>b. ASSUME NEW r \in Request, Active(r)
      PROVE  /\ local[r] \in Local /\ local[r].user \in User
             /\ local[r].info \in Row /\ local[r].info.uid \in Nat
             /\ local[r].got \in SUBSET ProfileField
  BY <1>b, ActiveType DEF TypeInv, Local, Row
<1>1. ASSUME NEW r \in Request, Create(r) PROVE \A u \in User : RowFact(u)
  BY <1>0, <1>a, <1>b, <1>1, UpsertFact DEF Create, Insert, Active, Finished
<1>2. ASSUME NEW r \in Request, SyncProfile(r) \/ ResetProfile(r)
      PROVE  \A u \in User : RowFact(u)
  BY <1>0, <1>a, <1>b, <1>2, UpsertFact
     DEF SyncProfile, ResetProfile, Upsert, Insert, Active, Finished
<1>3. ASSUME NEW r \in Request, Check(r) PROVE \A u \in User : RowFact(u)
  <2>1. pc[r] = "check" /\ pc'[r] # "check"
    BY <1>0, <1>3 DEF Check, Finish, Goto, Branch, Onward
  <2>2. \/ UNCHANGED users
        \/ /\ Expired(local[r].info, now)
           /\ users' = SetUserState(users, local[r].info.uid, "Normal", "none", 0)
    BY <1>3 DEF Check, Write
  <2>3. CASE /\ Expired(local[r].info, now)
             /\ users' = SetUserState(users, local[r].info.uid, "Normal", "none", 0)
    BY <1>0, <2>1, <2>3 DEF SetUserState, Table, Row, RowFact
  <2> QED
    BY <1>a, <2>2, <2>3
<1>4. ASSUME NEW r \in Request, SetFlag(r) PROVE \A u \in User : RowFact(u)
  BY <1>0, <1>a, <1>4 DEF SetFlag, Write, SetUserFlag, Table, Row, RowFact
<1>5. ASSUME NEW r \in Request, RecordSuccess(r) \/ RecordFailure(r)
      PROVE  \A u \in User : RowFact(u)
  BY <1>0, <1>a, <1>5
     DEF RecordSuccess, RecordFailure, Record, RecordLoginSuccess,
         RecordLoginFailure, Table, Row, RowFact
<1>6. ASSUME NEW r \in Request, Lockout(r) PROVE \A u \in User : RowFact(u)
  <2>1. pc[r] = "lockout" /\ pc'[r] # "lockout"
    BY <1>0, <1>6 DEF Lockout, Finish, Goto
  <2> QED
    BY <1>0, <1>a, <1>6, <2>1 DEF Lockout, Write, SetUserState, Table, Row, RowFact
<1>7. ASSUME NEW a \in Administrator, AdminSetState(a)
      PROVE  \A u \in User : RowFact(u)
  <2>1. ByAdministrator
    BY <1>7 DEF AdminSetState, AdmEnd, NoAdm, ByAdministrator, TypeInv,
                AdministratorsOK, Adm
  <2> QED
    BY <1>0, <1>a, <1>7, <2>1 DEF AdminSetState, Write, SetUserState, Table, Row, RowFact
<1>8. ASSUME NEW a \in Administrator, AdminAdd(a) PROVE \A u \in User : RowFact(u)
  <2>1. adm[a].user \in User
    BY <1>8 DEF AdminAdd, TypeInv, AdministratorsOK, AdmSubject
  <2> QED
    BY <1>0, <1>a, <1>8, <2>1, AddFact DEF AdminAdd, Insert, ProfileField
<1>9. ASSUME NEW a \in Administrator, AdminDeleteUser(a)
      PROVE  \A u \in User : RowFact(u)
  <2>1. ByAdministrator
    BY <1>9 DEF AdminDeleteUser, AdmEnd, NoAdm, ByAdministrator, TypeInv,
                AdministratorsOK, Adm
  <2> QED
    BY <1>0, <1>a, <1>9, <2>1
       DEF AdminDeleteUser, DeleteUid, NoRow, NewRow, Table, RowFact
<1>10. Enter => UNCHANGED users
  BY DEF Enter, LoginBegin, ContinueBegin, dbVars
<1>11. \A r \in Request : \/ Found(r) \/ Missing(r) \/ Vanished(r) \/ Unwrap(r)
                          \/ LogAttempt(r) \/ NewSession(r) \/ IssueCode(r)
                          \/ Answer(r)
                       => UNCHANGED users
  BY DEF Found, Missing, Vanished, Unwrap, LoseMemory, LogAttempt, NewSession,
         IssueCode, Answer, Accepted, Rejected, FetchProfile, Cancel, dbVars
<1>12. \A a \in Administrator :
          \/ AdminLogin(a) \/ AdminDeleteLogs(a)
          \/ \E u \in User : AdminRead(a, u) \/ AdminAddRead(a, u) \/ AdminDeleteRead(a, u)
          => UNCHANGED users
  BY DEF AdminLogin, AdminDeleteLogs, AdminRead, AdminAddRead, AdminDeleteRead, dbVars
<1>13. \/ \E s \in session_store : SessionGone(s)
       \/ \E c \in code_store : CodeGone(c)
       \/ Tick \/ Crash
       => UNCHANGED users
  BY DEF SessionGone, CodeGone, Tick, Crash, LoseMemory, dbVars
<1> QED
  BY <1>a, <1>1, <1>2, <1>3, <1>4, <1>5, <1>6, <1>7, <1>8, <1>9, <1>10, <1>11,
     <1>12, <1>13 DEF Next, Step, AdminStep

\* Stages that an accepted login passes.
AfterAcceptance == {"userinfo", "flag", "sync", "success", "success_log"}

\* The check of the row a request holds: where it leads, and what it writes.
CheckMove(r) ==
    LET info == local[r].info
    IN  /\ pc[r] = "check"
        /\ pc'[r] = Branch(local[r], StateAt(info, now)) /\ pc'[r] # "done"
        /\ Expired(info, now) =>
              \/ users' = SetUserState(users, info.uid, "Normal", "none", 0)
              \/ WritesMayFail

\* A request stays; ends; begins; or moves on, for the same user and form.
Move(r) ==
    \/ pc'[r] = pc[r] /\ (pc[r] = "idle" \/ local'[r] = local[r])
    \/ pc'[r] \in Finished
    \/ pc[r] = "idle" /\ pc'[r] = "lookup"
    \/ /\ local'[r].user = local[r].user /\ local'[r].direct = local[r].direct
       /\ \/ pc[r] = "lookup" /\ pc'[r] = "create"
          \/ pc[r] = "create" /\ pc'[r] = "reread"
          \/ /\ pc[r] \in {"lookup", "reread"} /\ pc'[r] = "check"
             /\ Present(users, local[r].user)
             /\ local'[r].info = users[local[r].user]
             /\ UNCHANGED <<users, now>>
          \/ /\ local'[r].info = local[r].info
             /\ \/ CheckMove(r)
                \/ pc[r] = "verify" /\ pc'[r] \in {"userinfo", "success"}
                \/ /\ pc[r] \in {"verify"} \cup AfterRejection
                   /\ pc'[r] \in AfterRejection
                \/ /\ pc[r] \in AfterAcceptance
                   /\ pc'[r] \in (AfterAcceptance \ {"userinfo"}) \cup {"session"}
                \/ pc[r] = "session" /\ pc'[r] = "code" /\ ~local[r].direct

LEMMA Moves == TypeInv /\ Next => \A q \in Request : Move(q)
<1> SUFFICES ASSUME TypeInv, Next PROVE \A q \in Request : Move(q)
  OBVIOUS
<1>0. pc \in [Request -> Stage] /\ local \in [Request -> Local]
  BY DEF TypeInv, RequestsOK
<1>a. UNCHANGED <<pc, local>> => \A q \in Request : Move(q)
  BY DEF Move
\* A step of request r leaves every other request alone.
<1>b. ASSUME NEW r \in Request, NEW q \in Request, NEW stage, NEW l, q # r,
             pc' = [pc EXCEPT ![r] = stage],
             local' = local \/ local' = [local EXCEPT ![r] = l]
      PROVE  Move(q)
  BY <1>0, <1>b DEF Move
<1>c. ASSUME NEW r \in Request, Finish(r) PROVE \A q \in Request : Move(q)
  BY <1>0, <1>b, <1>c DEF Finish, Goto, Move, Finished
<1>d. ASSUME NEW r \in Request, NEW stage, Advance(r, stage)
      PROVE  /\ pc'[r] = stage /\ local' = local
             /\ Move(r) => \A q \in Request : Move(q)
  BY <1>0, <1>b, <1>d DEF Advance, Goto
<1>1. Enter => \A q \in Request : Move(q)
  BY <1>0, <1>b DEF Enter, LoginBegin, ContinueBegin, Goto, Move
<1>2. ASSUME NEW r \in Request, Found(r) PROVE \A q \in Request : Move(q)
  <2> DEFINE l == [local[r] EXCEPT
                     !.info = users[local[r].user],
                     !.sync = local[r].sync \/ users[local[r].user].flag = "Uninitialized"]
  <2>1. local' = [local EXCEPT ![r] = l] /\ pc' = [pc EXCEPT ![r] = "check"]
    BY <1>0, <1>2 DEF Found, Goto, Local
  <2>2. Move(r)
    BY <1>0, <1>2, <2>1 DEF Found, Move, Local, dbVars
  <2> QED
    BY <1>b, <2>1, <2>2
<1>3. ASSUME NEW r \in Request, Missing(r) PROVE \A q \in Request : Move(q)
  <2> DEFINE l == [local[r] EXCEPT !.new = (local[r].kind = "login")]
  <2>1. local' = [local EXCEPT ![r] = l] /\ pc' = [pc EXCEPT ![r] = "create"]
    BY <1>0, <1>3 DEF Missing, Goto, Local
  <2>2. Move(r)
    BY <1>0, <1>3, <2>1 DEF Missing, Move, Local
  <2> QED
    BY <1>b, <2>1, <2>2
<1>4. ASSUME NEW r \in Request, Create(r) PROVE \A q \in Request : Move(q)
  BY <1>c, <1>d, <1>4 DEF Create, Move
<1>5. ASSUME NEW r \in Request, Vanished(r) \/ Cancel(r)
      PROVE  \A q \in Request : Move(q)
  BY <1>c, <1>5 DEF Vanished, Cancel
<1>6. ASSUME NEW x, LoseMemory(x) PROVE \A q \in Request : Move(q)
  <2> SUFFICES ASSUME NEW q \in Request PROVE Move(q)
    OBVIOUS
  <2>1. CASE pc'[q] \in Finished
    BY <2>1 DEF Move
  <2>2. CASE pc'[q] \notin Finished
    BY <1>0, <1>6, <2>2 DEF LoseMemory, Finished, Move
  <2> QED
    BY <2>1, <2>2
<1>7. ASSUME NEW r \in Request, Check(r) PROVE \A q \in Request : Move(q)
  <2> DEFINE st == StateAt(local[r].info, now)
             l == [local[r] EXCEPT !.state = st]
  <2>1. CASE Branch(local[r], st) = "done"
    BY <1>c, <1>7, <2>1 DEF Check
  <2>2. CASE Branch(local[r], st) # "done"
    <3>1. /\ local' = [local EXCEPT ![r] = l]
          /\ pc' = [pc EXCEPT ![r] = Branch(local[r], st)]
      BY <1>0, <1>7, <2>2 DEF Check, Goto, Local
    <3>2. /\ local'[r].user = local[r].user /\ local'[r].direct = local[r].direct
          /\ local'[r].info = local[r].info
          /\ pc'[r] = Branch(local[r], st)
      BY <1>0, <3>1 DEF Local
    <3>3. CheckMove(r)
      BY <1>7, <2>2, <3>2 DEF Check, Write, CheckMove
    <3>4. Move(r)
      BY <3>2, <3>3 DEF Move
    <3> QED
      BY <1>b, <3>1, <3>4
  <2> QED
    BY <2>1, <2>2
<1>8. ASSUME NEW r \in Request, Accepted(r) \/ Rejected(r)
      PROVE  \A q \in Request : Move(q)
  BY <1>d, <1>8 DEF Accepted, Rejected, Move, AfterRejection
<1>9. ASSUME NEW r \in Request, FetchProfile(r) PROVE \A q \in Request : Move(q)
  <2>1. PICK answer \in ExternalAnswer \cup {{}} :
          local' = [local EXCEPT ![r].got = answer]
    BY <1>9 DEF FetchProfile
  <2> DEFINE l == [local[r] EXCEPT !.got = answer]
  <2>2. local' = [local EXCEPT ![r] = l]
    BY <1>0, <2>1 DEF Local
  <2>3. PICK stage \in {"success", "flag", "sync"} : pc' = [pc EXCEPT ![r] = stage]
    BY <1>9 DEF FetchProfile, Goto
  <2>4. Move(r)
    BY <1>0, <1>9, <2>2, <2>3 DEF FetchProfile, Move, AfterAcceptance, Local
  <2> QED
    BY <1>b, <2>2, <2>3, <2>4
<1>10. ASSUME NEW r \in Request, SetFlag(r) \/ SyncProfile(r) \/ RecordSuccess(r)
       PROVE  \A q \in Request : Move(q)
  BY <1>d, <1>10
     DEF SetFlag, SyncProfile, RecordSuccess, Record, Move, AfterAcceptance
<1>11. ASSUME NEW r \in Request, RecordFailure(r) \/ ResetProfile(r)
       PROVE  \A q \in Request : Move(q)
  BY <1>d, <1>11
     DEF RecordFailure, ResetProfile, Record, AfterFailure, Move, AfterRejection,
         Finished
<1>12. ASSUME NEW r \in Request, LogAttempt(r) PROVE \A q \in Request : Move(q)
  BY <1>d, <1>12
     DEF LogAttempt, AfterFailure, Move, AfterAcceptance, AfterRejection, Finished
<1>13. ASSUME NEW r \in Request, NewSession(r) \/ IssueCode(r) \/ Lockout(r)
       PROVE  \A q \in Request : Move(q)
  BY <1>c, <1>d, <1>13 DEF NewSession, IssueCode, Lockout, Move
<1>14. \A a \in Administrator : AdminStep(a) => UNCHANGED <<pc, local>>
  BY DEF AdminStep, AdminLogin, AdminRead, AdminAddRead, AdminDeleteRead,
         AdminSetState, AdminAdd, AdminDeleteLogs, AdminDeleteUser
<1>15. \/ \E s \in session_store : SessionGone(s)
       \/ \E c \in code_store : CodeGone(c)
       \/ Tick
       => UNCHANGED <<pc, local>>
  BY DEF SessionGone, CodeGone, Tick
<1> QED
  BY <1>a, <1>1, <1>2, <1>3, <1>4, <1>5, <1>6, <1>7, <1>8, <1>9, <1>10, <1>11,
     <1>12, <1>13, <1>14, <1>15 DEF Next, Step, Answer, Unwrap, Crash

\* What enters the stores, and the log.
StoreFact ==
    /\ \A s \in session_store' \ session_store : ~s.is_admin => pc[s.id] = "session"
    /\ \A c \in code_store' \ code_store : pc[c.id] = "code"
    /\ \A uid \in logs' \ logs :
          /\ HasUid(users, uid) /\ UNCHANGED users
          /\ \E r \in Request : pc[r] \in AfterRead /\ local[r].info.uid = uid
    /\ now' >= now

LEMMA StoreFacts == TypeInv /\ Next => StoreFact
<1> SUFFICES ASSUME TypeInv, Next PROVE StoreFact
  OBVIOUS
<1>0. now \in Nat
  BY DEF TypeInv
<1>1. CASE Enter
  <2>1. UNCHANGED <<logs, session_store, code_store, now>>
    BY <1>1 DEF Enter, LoginBegin, ContinueBegin, dbVars, memVars
  <2> QED
    BY <1>0, <2>1 DEF StoreFact
<1>2. ASSUME NEW x, LoseMemory(x) PROVE StoreFact
  BY <1>0, <1>2 DEF LoseMemory, dbVars, StoreFact
<1>3. ASSUME NEW r \in Request, Step(r) \/ Answer(r) PROVE StoreFact
  <2>1. CASE Unwrap(r)
    BY <1>2, <2>1 DEF Unwrap
  <2>2. CASE NewSession(r) \/ IssueCode(r)
    BY <1>0, <2>2 DEF NewSession, IssueCode, dbVars, StoreFact
  <2>3. CASE LogAttempt(r)
    BY <1>0, <2>3 DEF LogAttempt, memVars, StoreFact, AfterRead, Writing
  <2>4. CASE \/ Found(r) \/ Missing(r) \/ Create(r) \/ Vanished(r) \/ Check(r)
             \/ SetFlag(r) \/ SyncProfile(r) \/ RecordSuccess(r)
             \/ ResetProfile(r) \/ RecordFailure(r) \/ Lockout(r) \/ Answer(r)
    <3>1. UNCHANGED <<logs, session_store, code_store, now>>
      BY <2>4 DEF Found, Missing, Create, Vanished, Check, SetFlag, SyncProfile,
                  RecordSuccess, ResetProfile, RecordFailure, Lockout, Answer,
                  Accepted, Rejected, FetchProfile, Cancel, dbVars, memVars
    <3> QED
      BY <1>0, <3>1 DEF StoreFact
  <2> QED
    BY <1>3, <2>1, <2>2, <2>3, <2>4 DEF Step
<1>4. ASSUME NEW a \in Administrator, AdminStep(a) PROVE StoreFact
  <2>1. CASE AdminLogin(a)
    BY <1>0, <2>1 DEF AdminLogin, dbVars, StoreFact
  <2>2. CASE ~AdminLogin(a)
    <3>1. UNCHANGED <<session_store, code_store, now>> /\ logs' \subseteq logs
      BY <1>4, <2>2
         DEF AdminStep, AdminRead, AdminAddRead, AdminDeleteRead, AdminSetState,
             AdminAdd, AdminDeleteLogs, AdminDeleteUser, dbVars, memVars
    <3> QED
      BY <1>0, <3>1 DEF StoreFact
  <2> QED
    BY <2>1, <2>2
<1>5. CASE \/ \E s \in session_store : SessionGone(s)
           \/ \E c \in code_store : CodeGone(c)
           \/ Tick
  BY <1>0, <1>5 DEF SessionGone, CodeGone, Tick, dbVars, memVars, StoreFact
<1> QED
  BY <1>1, <1>2, <1>3, <1>4, <1>5 DEF Next, Crash

-----------------------------------------------------------------------------
(* The invariant.                                                          *)

\* What the account of request r has allowed since the request began, or does
\* allow now: the next step will have recorded it.
Known(r) == admitted[r] \cup AdmitsUser(local[r].user)

\* A copy of the row that is about to be checked tells what the account has
\* allowed, unless its restriction has run out meanwhile; and an account that
\* is another one by now has been new.
CheckBacked(r) ==
    pc[r] = "check" =>
        /\ ~Expired(local[r].info, now) => Admits(local[r].info.state) \subseteq Known(r)
        /\ \/ users[local[r].user].uid = local[r].info.uid
           \/ Admits("Normal") \subseteq Known(r)

\* A request past its check has been allowed what it goes for.
GrantBacked(r) ==
    /\ pc[r] \in AfterRead \ {"check"} =>
          /\ "profile" \in Known(r)
          /\ ~local[r].direct => "oauth" \in Known(r)
    /\ pc[r] \in AfterAcceptance \cup {"session"} =>
          accepted[r] # 0 \/ "unverified" \in Known(r)
    /\ pc[r] = "code" => ~local[r].direct

\* It did not read a ban without an end.
Unbanned(r) ==
    pc[r] \in AfterRead \ {"check"} => ~Untimed(local[r].info, "Locked")

HistoryOK == /\ accepted \in [Request -> Nat]
             /\ rejected \in [Request -> Nat]
             /\ admitted \in [Request -> SUBSET {"profile", "oauth", "unverified"}]

\* No log line without its account; uid 0 is no account.
LogsInv == LogsOwned /\ 0 \notin logs

BaseInv == /\ TypeInv /\ HistoryOK /\ LockoutInv
           /\ \A r \in Request : Unbanned(r)
           /\ LogsInv

GrantInv == /\ \A r \in Request : CheckBacked(r) /\ GrantBacked(r)
            /\ SessionJustified
            /\ CodeJustified

LEMMA InitBase == HInit => BaseInv
<1> SUFFICES ASSUME HInit PROVE BaseInv
  OBVIOUS
<1>1. TypeInv
  BY InitType DEF HInit
<1>2. HistoryOK
  BY DEF HInit, HistoryOK
<1>3. \A r \in Request : Unbanned(r)
  BY DEF HInit, Init, Unbanned, AfterRead, Writing
<1>4. LogsInv
  BY DEF HInit, Init, LogsInv, LogsOwned
<1> QED
  BY <1>1, <1>2, <1>3, <1>4, InitLockout DEF BaseInv

LEMMA InitGrant == HInit => GrantInv
  BY DEF HInit, Init, GrantInv, CheckBacked, GrantBacked, AfterRead, Writing,
         AfterAcceptance, SessionJustified, CodeJustified

\* A request at work holds a row of an account, for a user.
LEMMA Holder ==
  ASSUME BaseInv, NEW r \in Request, pc[r] \in AfterRead
  PROVE  /\ Active(r) /\ local[r].user \in User /\ local[r].info \in Row
         /\ local[r].info.uid \in Nat \ {0} /\ local[r].info.end \in Nat
<1>1. Active(r)
  BY DEF Active, AfterRead, Writing, Finished
<1>2. local[r].user \in User /\ local[r].info \in Row
  BY <1>1, ActiveType DEF BaseInv, TypeInv
<1>3. local[r].info.uid # 0
  BY DEF BaseInv, LockoutInv, SnapshotBacked
<1> QED
  BY <1>1, <1>2, <1>3 DEF Row

LEMMA StepLogs == BaseInv /\ Next => LogsInv'
<1> SUFFICES ASSUME BaseInv, Next PROVE LogsInv'
  OBVIOUS
<1>1. StoreFact /\ \A u \in User : RowFact(u)
  BY StoreFacts, RowFacts DEF BaseInv
<1>2. ASSUME NEW uid \in logs' PROVE uid # 0 /\ \E u \in User : users'[u].uid = uid
  <2>1. CASE uid \in logs
    <3>1. uid # 0
      BY <2>1 DEF BaseInv, LogsInv
    <3>2. PICK u \in User : users[u].uid = uid
      BY <2>1 DEF BaseInv, LogsInv, LogsOwned, HasUid
    <3>3. users'[u].uid = users[u].uid
      BY <1>1, <1>2, <3>1, <3>2 DEF RowFact
    <3> QED
      BY <3>1, <3>2, <3>3
  <2>2. CASE uid \notin logs
    <3>1. (\E u \in User : users[u].uid = uid) /\ UNCHANGED users
      BY <1>1, <1>2, <2>2 DEF StoreFact, HasUid
    <3>2. PICK r \in Request : pc[r] \in AfterRead /\ local[r].info.uid = uid
      BY <1>1, <1>2, <2>2 DEF StoreFact
    <3> QED
      BY <3>1, <3>2, Holder
  <2> QED
    BY <2>1, <2>2
<1> QED
  BY <1>2 DEF LogsInv, LogsOwned, HasUid

LEMMA StepUnbanned ==
  BaseInv /\ Next => \A r \in Request : Unbanned(r)'
<1> SUFFICES ASSUME BaseInv, Next, NEW r \in Request,
                    pc'[r] \in AfterRead \ {"check"}
             PROVE  ~Untimed(local'[r].info, "Locked")
  BY DEF Unbanned, Untimed
<1>1. Move(r)
  BY Moves DEF BaseInv
<1>2. CASE local'[r].info = local[r].info /\ pc[r] \in AfterRead \ {"check"}
  BY <1>2 DEF BaseInv, Unbanned
<1>3. CASE local'[r].info = local[r].info /\ CheckMove(r)
  <2>1. StateAt(local[r].info, now) # "Locked"
    BY <1>3 DEF CheckMove, Branch, Onward
  <2> QED
    BY <1>3, <2>1 DEF StateAt, Expired, Untimed
<1> QED
  BY <1>1, <1>2, <1>3
     DEF Move, AfterRead, Writing, Finished, AfterAcceptance, AfterRejection

LEMMA StepHistory == BaseInv /\ HNext => HistoryOK'
<1> SUFFICES ASSUME BaseInv, HNext PROVE HistoryOK'
  OBVIOUS
<1>1. \A r \in Request : pc[r] = "verify" => local[r].info.uid \in Nat
  BY Holder DEF AfterRead
<1>2. ASSUME NEW r \in Request, Active(r)
      PROVE  AdmitsUser(local[r].user) \in SUBSET {"profile", "oauth", "unverified"}
  <2>1. users[local[r].user].state \in UserState
    BY <1>2, ActiveType DEF BaseInv, TypeInv, DatabaseOK, Table, Row
  <2> QED
    BY <2>1 DEF AdmitsUser, Admits, StateAt, UserState
<1>3. HistoryOK /\ Observe
  BY DEF HNext, BaseInv
<1>4. accepted' \in [Request -> Nat] /\ rejected' \in [Request -> Nat]
  BY <1>1, <1>3 DEF Observe, Verified, HistoryOK
<1>5. admitted' \in [Request -> SUBSET {"profile", "oauth", "unverified"}]
  BY <1>2, <1>3 DEF Observe, HistoryOK
<1> QED
  BY <1>4, <1>5 DEF HistoryOK

LEMMA StepBase == BaseInv /\ [HNext]_hvars => BaseInv'
<1> SUFFICES ASSUME BaseInv, [HNext]_hvars PROVE BaseInv'
  OBVIOUS
<1>1. TypeInv'
  BY StepType DEF BaseInv, HNext, hvars
<1>2. LockoutInv'
  BY StepLockout DEF BaseInv, HistoryOK, RejectedOK
<1>3. CASE HNext
  BY <1>1, <1>2, <1>3, StepLogs, StepUnbanned, StepHistory DEF HNext, BaseInv
<1>4. CASE UNCHANGED hvars
  BY <1>1, <1>2, <1>4
     DEF hvars, vars, histVars, BaseInv, HistoryOK, LogsInv, LogsOwned, HasUid,
         Unbanned, Untimed
<1> QED
  BY <1>3, <1>4

-----------------------------------------------------------------------------
(* Grants.                                                                 *)

LEMMA AdmitsValues ==
  /\ Admits("Normal") = {"profile", "oauth"}
  /\ Admits("Restricted") = {"profile"}
  /\ Admits("BypassExternal") = {"profile", "oauth", "unverified"}
  BY DEF Admits

\* What was known of a request's account is recorded by the next step.
LEMMA KnownRecorded ==
  ASSUME HNext, NEW r \in Request, Active(r)
  PROVE  Known(r) = admitted'[r]
  BY DEF HNext, Observe, Known

LEMMA KnownGrows ==
  ASSUME HNext, NEW r \in Request, Active(r)
  PROVE  Known(r) \subseteq Known(r)'
  BY KnownRecorded DEF Known

LEMMA StepCheckBacked ==
  ASSUME BaseInv, GrantInv, HNext, NEW r \in Request PROVE CheckBacked(r)'
<1> USE DEF HNext
<1> SUFFICES ASSUME pc'[r] = "check"
             PROVE  /\ ~Expired(local'[r].info, now') =>
                          Admits(local'[r].info.state) \subseteq Known(r)'
                    /\ \/ users'[local'[r].user].uid = local'[r].info.uid
                       \/ Admits("Normal") \subseteq Known(r)'
  BY DEF CheckBacked, Expired, Admits
<1>1. now \in Nat /\ now' \in Nat /\ now' >= now
  BY StoreFacts, StepType DEF BaseInv, TypeInv, StoreFact
<1>2. CASE pc[r] = "check" /\ local'[r] = local[r]
  <2>1. Active(r) /\ local[r].user \in User /\ local[r].info.end \in Nat
    BY <1>2, Holder DEF AfterRead
  <2>2. Known(r) \subseteq Known(r)'
    BY <2>1, KnownGrows
  <2>3. Expired(local[r].info, now) => Expired(local[r].info, now')
    BY <1>1, <2>1 DEF Expired
  <2>4. \/ users'[local[r].user].uid = users[local[r].user].uid
        \/ Admits("Normal") \subseteq Known(r)'
    <3>1. RowFact(local[r].user)
      BY <2>1, RowFacts DEF BaseInv
    <3>2. CASE users'[local[r].user].state = "Normal"
      <4>1. AdmitsUser(local[r].user)' = Admits("Normal")
        BY <1>2, <3>2 DEF AdmitsUser, StateAt, Expired, Admits
      <4> QED
        BY <4>1 DEF Known
    <3> QED
      BY <3>1, <3>2 DEF RowFact
  <2> QED
    BY <1>2, <2>2, <2>3, <2>4 DEF GrantInv, CheckBacked
<1>3. CASE /\ pc[r] \in {"lookup", "reread"}
           /\ local'[r].user = local[r].user
           /\ Present(users, local[r].user)
           /\ local'[r].info = users[local[r].user]
           /\ UNCHANGED <<users, now>>
  <2>1. Active(r)
    BY <1>3 DEF Active, Finished
  <2>2. Admits(StateAt(users[local[r].user], now)) \subseteq Known(r)'
    BY <1>3, <2>1, KnownGrows DEF Known, AdmitsUser
  <2> QED
    BY <1>3, <2>2 DEF StateAt
<1> QED
  BY <1>2, <1>3, Moves
     DEF BaseInv, Move, CheckMove, Branch, Onward, Finished, AfterRejection,
         AfterAcceptance

\* What a check that lets a request go on is backed by. If the restriction it
\* read has run out, it is the check itself that lets the account in, by
\* writing "Normal": that write must not fail.
LEMMA CheckGrants ==
  ASSUME BaseInv, GrantInv, HNext, ~WritesMayFail,
         NEW r \in Request, CheckMove(r), local'[r].user = local[r].user
  PROVE  /\ "profile" \in Known(r)'
         /\ ~local[r].direct => "oauth" \in Known(r)'
         /\ pc'[r] = "session" => "unverified" \in Known(r)'
         /\ pc'[r] = "code" => ~local[r].direct
         /\ pc'[r] \in {"verify", "session", "code"}
<1> DEFINE info == local[r].info
           st == StateAt(info, now)
           user == local[r].user
<1>1. /\ Active(r) /\ user \in User /\ info \in Row
  BY Holder DEF CheckMove, AfterRead
<1>2. Known(r) \subseteq Known(r)'
  BY <1>1, KnownGrows
<1>3. /\ pc'[r] \in {"verify", "session", "code"}
      /\ pc'[r] = "code" => ~local[r].direct
      /\ pc'[r] = "session" => st = "BypassExternal"
      /\ st # "Locked" /\ (st = "Restricted" => local[r].direct)
  BY DEF CheckMove, Branch, Onward
<1>4. CASE ~Expired(info, now)
  <2>1. st = info.state /\ info.state \in UserState
    BY <1>1, <1>4 DEF StateAt, Row
  <2>2. Admits(st) \subseteq Known(r)'
    BY <1>2, <1>4, <2>1 DEF CheckMove, GrantInv, CheckBacked
  <2> HIDE DEF st
  <2>3. CASE st = "Normal"
    BY <1>3, <2>2, <2>3, AdmitsValues
  <2>4. CASE st = "Restricted"
    BY <1>3, <2>2, <2>4, AdmitsValues
  <2>5. CASE st = "BypassExternal"
    BY <1>3, <2>2, <2>5, AdmitsValues
  <2> QED
    BY <1>3, <2>1, <2>3, <2>4, <2>5 DEF UserState
<1>5. CASE Expired(info, now)
  <2>1. st = "Normal"
    BY <1>5 DEF StateAt
  <2>2. users' = SetUserState(users, info.uid, "Normal", "none", 0)
    BY <1>5 DEF CheckMove
  <2>3. Admits("Normal") \subseteq Known(r)'
    <3>1. CASE users[user].uid = info.uid
      <4>1. users'[user].state = "Normal"
        BY <1>1, <2>2, <3>1 DEF SetUserState, BaseInv, TypeInv, DatabaseOK, Table, Row
      <4>2. AdmitsUser(user)' = Admits("Normal")
        BY <4>1 DEF AdmitsUser, StateAt, Expired, Admits
      <4> QED
        BY <4>2 DEF Known
    <3>2. CASE users[user].uid # info.uid
      BY <1>2, <3>2 DEF CheckMove, GrantInv, CheckBacked
    <3> QED
      BY <3>1, <3>2
  <2> QED
    BY <1>3, <2>1, <2>3, AdmitsValues
<1> QED
  BY <1>4, <1>5

LEMMA StepGrantBacked ==
  ASSUME BaseInv, GrantInv, HNext, ~WritesMayFail, NEW r \in Request
  PROVE  GrantBacked(r)'
<1> DEFINE Granted(allowed) ==
             /\ pc'[r] \in AfterRead \ {"check"} =>
                   /\ "profile" \in allowed
                   /\ ~local'[r].direct => "oauth" \in allowed
             /\ pc'[r] \in AfterAcceptance \cup {"session"} =>
                   accepted'[r] # 0 \/ "unverified" \in allowed
             /\ pc'[r] = "code" => ~local'[r].direct
<1> SUFFICES Granted(Known(r)')
  BY DEF GrantBacked, AfterRead, Writing, AfterAcceptance
<1>0. Move(r) /\ Observe
  BY Moves DEF HNext, BaseInv
<1>1. ASSUME pc[r] \in AfterRead \ {"check"}, local'[r].direct = local[r].direct
      PROVE  /\ Known(r) \subseteq Known(r)' /\ "profile" \in Known(r)
             /\ ~local'[r].direct => "oauth" \in Known(r)
             /\ accepted[r] # 0 => accepted'[r] # 0
             /\ Verified(r, {"userinfo", "success"}) => accepted'[r] # 0
  <2>1. Active(r) /\ local[r].info.uid # 0
    BY <1>1, Holder
  <2>2. Known(r) \subseteq Known(r)'
    BY <2>1, KnownGrows
  <2>3. /\ accepted[r] # 0 => accepted'[r] # 0
        /\ Verified(r, {"userinfo", "success"}) => accepted'[r] # 0
    BY <1>0, <2>1 DEF Observe
  <2> QED
    BY <1>1, <2>2, <2>3 DEF GrantInv, GrantBacked
<1>2. CASE pc'[r] = pc[r] /\ (pc[r] = "idle" \/ local'[r] = local[r])
  <2>1. GrantBacked(r)
    BY DEF GrantInv
  <2> QED
    BY <1>1, <1>2, <2>1 DEF GrantBacked, AfterRead, Writing, AfterAcceptance
<1>3. CASE pc'[r] \in Finished \/ pc'[r] \in {"lookup", "create", "reread", "check"}
  BY <1>3 DEF Finished, AfterRead, Writing, AfterAcceptance
<1>4. CASE CheckMove(r) /\ local'[r].user = local[r].user
                        /\ local'[r].direct = local[r].direct
  BY <1>4, CheckGrants DEF AfterAcceptance
<1>5. CASE /\ local'[r].direct = local[r].direct
           /\ pc[r] = "verify" /\ pc'[r] \in {"userinfo", "success"}
  BY <1>1, <1>5 DEF Verified, AfterRead
<1>6. CASE /\ local'[r].direct = local[r].direct
           /\ pc[r] \in {"verify"} \cup AfterRejection
           /\ pc'[r] \in AfterRejection
  BY <1>1, <1>6 DEF AfterRejection, AfterAcceptance, AfterRead, Writing
<1>7. CASE /\ local'[r].direct = local[r].direct
           /\ pc[r] \in AfterAcceptance
           /\ pc'[r] \in (AfterAcceptance \ {"userinfo"}) \cup {"session"}
  <2>1. accepted[r] # 0 \/ "unverified" \in Known(r)
    BY <1>7 DEF GrantInv, GrantBacked
  <2> QED
    BY <1>1, <1>7, <2>1 DEF AfterAcceptance, AfterRead, Writing
<1>8. CASE /\ local'[r].direct = local[r].direct
           /\ pc[r] = "session" /\ pc'[r] = "code" /\ ~local[r].direct
  BY <1>1, <1>8 DEF AfterAcceptance, AfterRead, Writing
<1> QED
  BY <1>0, <1>2, <1>3, <1>4, <1>5, <1>6, <1>7, <1>8 DEF Move

LEMMA StepStores ==
  ASSUME BaseInv, GrantInv, HNext PROVE SessionJustified' /\ CodeJustified'
<1>0. StoreFact /\ Observe /\ TypeInv'
  BY StoreFacts, StepType DEF HNext, BaseInv
<1>1. ASSUME NEW r \in Request
      PROVE  /\ admitted[r] \subseteq admitted'[r]
             /\ pc[r] \in AfterRead => Known(r) = admitted'[r]
             /\ accepted[r] # 0 => accepted'[r] # 0
  <2>1. admitted[r] \subseteq admitted'[r]
    BY <1>0 DEF Observe
  <2>2. pc[r] \in AfterRead => Known(r) = admitted'[r]
    BY Holder, KnownRecorded
  <2>3. accepted[r] # 0 => accepted'[r] # 0
    BY <1>0, Holder DEF Observe, Verified, AfterRead
  <2> QED
    BY <2>1, <2>2, <2>3
<1>2. ASSUME NEW s \in session_store', ~s.is_admin
      PROVE  \/ accepted'[s.id] # 0 /\ "profile" \in admitted'[s.id]
             \/ "unverified" \in admitted'[s.id]
  <2>1. s.id \in Request
    BY <1>0, <1>2 DEF TypeInv, MemoryOK, SessionSubject
  <2>2. CASE s \in session_store
    BY <1>1, <1>2, <2>1, <2>2 DEF GrantInv, SessionJustified
  <2>3. CASE s \notin session_store
    <3>1. pc[s.id] = "session"
      BY <1>0, <1>2, <2>3 DEF StoreFact
    <3> QED
      BY <1>1, <2>1, <3>1 DEF GrantInv, GrantBacked, AfterRead, Writing
  <2> QED
    BY <2>2, <2>3
<1>3. ASSUME NEW c \in code_store' PROVE "oauth" \in admitted'[c.id]
  <2>1. c.id \in Request
    BY <1>0 DEF TypeInv, MemoryOK, Code
  <2>2. CASE c \in code_store
    BY <1>1, <2>1, <2>2 DEF GrantInv, CodeJustified
  <2>3. CASE c \notin code_store
    <3>1. pc[c.id] = "code"
      BY <1>0, <2>3 DEF StoreFact
    <3> QED
      BY <1>1, <2>1, <3>1 DEF GrantInv, GrantBacked, AfterRead, Writing
  <2> QED
    BY <2>2, <2>3
<1> QED
  BY <1>2, <1>3 DEF SessionJustified, CodeJustified

LEMMA StepGrant ==
  ASSUME ~WritesMayFail PROVE BaseInv /\ GrantInv /\ [HNext]_hvars => GrantInv'
<1> SUFFICES ASSUME BaseInv, GrantInv, [HNext]_hvars PROVE GrantInv'
  OBVIOUS
<1>1. CASE HNext
  BY <1>1, StepCheckBacked, StepGrantBacked, StepStores DEF GrantInv
<1>2. CASE UNCHANGED hvars
  BY <1>2 DEF hvars, vars, histVars, GrantInv, CheckBacked, GrantBacked, Known,
              AdmitsUser, StateAt, Expired, Present, SessionJustified, CodeJustified
<1> QED
  BY <1>1, <1>2

-----------------------------------------------------------------------------
LEMMA Base == HSpec => []BaseInv
  BY InitBase, StepBase, PTL DEF HSpec

LEMMA Grants == ASSUME ~WritesMayFail PROVE HSpec => []GrantInv
<1>1. HInit => BaseInv /\ GrantInv
  BY InitBase, InitGrant
<1>2. BaseInv /\ GrantInv /\ [HNext]_hvars => (BaseInv /\ GrantInv)'
  BY StepBase, StepGrant
<1> QED
  BY <1>1, <1>2, PTL DEF HSpec

\* Every variable of the login service and of its history keeps its type.
THEOREM HistoryTyped == HSpec => []HTypeOK
<1>1. BaseInv => HTypeOK
  BY DEF BaseInv, TypeInv, DatabaseOK, MemoryOK, RequestsOK, AdministratorsOK,
         HistoryOK, TypeOK, HTypeOK, Table
<1> QED
  BY <1>1, Base, PTL

\* No login leaves a log line of an account that is gone, also with failing
\* writes, deletions and crashes.
THEOREM LogLinesOwned == HSpec => []LogsOwned
<1>1. BaseInv => LogsOwned
  BY DEF BaseInv, LogsInv
<1> QED
  BY <1>1, Base, PTL

\* A session stands for a verification, or an exemption, by an account that was
\* not locked at some moment of the request; as long as no write fails.
THEOREM SessionsJustified ==
  ASSUME ~WritesMayFail PROVE HSpec => []SessionJustified
<1>1. GrantInv => SessionJustified
  BY DEF GrantInv
<1> QED
  BY <1>1, Grants, PTL

\* A code stands for an account that allowed OAuth at some moment of the
\* request; as long as no write fails.
THEOREM CodesJustified == ASSUME ~WritesMayFail PROVE HSpec => []CodeJustified
<1>1. GrantInv => CodeJustified
  BY DEF GrantInv
<1> QED
  BY <1>1, Grants, PTL

\* A ban without an end is ended by an administrator, or by a login that read
\* the account before it, and by nothing else.
THEOREM BansHold == HSpec => BanHolds
<1> DEFINE A == \A u \in User : Untimed(users[u], "Locked") =>
             \/ ByAdministrator
             \/ SameRestriction(u)
             \/ \E r \in Request : /\ pc[r] \in {"check", "lockout"}
                                   /\ pc'[r] # pc[r]
                                   /\ local[r].info.uid = users[u].uid
                                   /\ ~Untimed(local[r].info, "Locked")
<1>1. BaseInv /\ [HNext]_hvars => [A]_vars
  <2> SUFFICES ASSUME BaseInv, HNext, NEW u \in User,
                      Untimed(users[u], "Locked"),
                      ~ByAdministrator, ~SameRestriction(u)
               PROVE  \E r \in Request : /\ pc[r] \in {"check", "lockout"}
                                         /\ pc'[r] # pc[r]
                                         /\ local[r].info.uid = users[u].uid
                                         /\ ~Untimed(local[r].info, "Locked")
    BY DEF hvars
  <2>1. RowFact(u)
    BY RowFacts DEF BaseInv, HNext
  <2>2. PICK r \in Request :
           /\ pc[r] = "lockout" \/ /\ pc[r] = "check"
                                   /\ Expired(local[r].info, now)
           /\ pc'[r] # pc[r]
           /\ local[r].info.uid = users[u].uid
    BY <2>1 DEF RowFact, SameRestriction
  <2>3. ~Untimed(local[r].info, "Locked")
    BY <2>2 DEF BaseInv, Unbanned, AfterRead, Writing, Expired, Untimed
  <2> QED
    BY <2>2, <2>3
<1> QED
  BY <1>1, Base, PTL DEF HSpec, BanHolds

-----------------------------------------------------------------------------
(* Every failure is counted.                                               *)

\* No write fails, the service is not stopped and no account is deleted.
Undisturbed == ~WritesMayFail /\ ~MemoryLoss /\ ~AdminEdits

\* Uids in use are older than the next one.
UidsOld ==
    /\ \A u \in User : users[u].uid < nextUid
    /\ \A r \in Request : /\ rejected[r] < nextUid
                          /\ pc[r] \in AfterRead => local[r].info.uid < nextUid

\* No account goes away, so that the one a request has created is there.
NothingDeleted ==
    /\ \A a \in Administrator : adm[a].stage \in {"idle", "set_state"}
    /\ \A r \in Request : pc[r] = "reread" => Present(users, local[r].user)

\* The history of the acceptances agrees with the handlers.
AcceptanceKnown ==
    \A r \in Request :
        /\ pc[r] \in AfterAcceptance => accepted[r] = local[r].info.uid
        /\ pc[r] \in {"idle", "verify"} \cup Reading => accepted[r] = 0

CountInv == UidsOld /\ NothingDeleted /\ AcceptanceKnown /\ FailuresAllCounted

LEMMA InitCount == HInit => CountInv
<1> SUFFICES ASSUME HInit PROVE CountInv
  OBVIOUS
<1>1. UidsOld /\ FailuresAllCounted
  BY DEF HInit, Init, UidsOld, NoUsers, NoRow, NewRow, AfterRead, Writing,
         FailuresAllCounted, Present
<1>2. NothingDeleted /\ AcceptanceKnown
  BY DEF HInit, Init, NothingDeleted, AcceptanceKnown, AfterAcceptance, NoAdm
<1> QED
  BY <1>1, <1>2 DEF CountInv

\* What happens to a row while no failure is recorded: nothing to its counter;
\* a success of its account; or the row is created.
CountRow(u) ==
    LET old == users[u]
        new == users'[u]
    IN  \/ /\ new.uid = old.uid
           /\ \/ new.failed = old.failed
              \/ \E r \in Request : /\ pc[r] = "success"
                                    /\ local[r].info.uid = old.uid
        \/ /\ old.uid = 0 /\ new.uid = nextUid /\ new.failed = 0
           /\ nextUid' = nextUid + 1

\* A step that records no failure.
Quiet ==
    /\ \A u \in User : CountRow(u)
    /\ \A r \in Request : pc[r] \in {"reset", "failure"} =>
                              pc'[r] \in {"reset", "failure"}
    /\ \A r \in Request : pc'[r] \in {"reset", "failure"} =>
                              pc[r] \in {"verify", "reset", "failure"}
    /\ nextUid' >= nextUid
    /\ \A a \in Administrator : adm'[a].stage \in {"idle", "set_state"}

LEMMA UpsertCount ==
  ASSUME NEW t \in Table, NEW v \in User, NEW profile \in SUBSET ProfileField,
         users = t, nextUid \in Nat \ {0},
         Insert(UpsertUser(t, v, profile, nextUid), v)
  PROVE  (\A u \in User : CountRow(u)) /\ nextUid' >= nextUid
  BY DEF Table, Row, UpsertUser, NewRow, Present, Insert, CountRow

LEMMA QuietStep ==
  ASSUME BaseInv, CountInv, Next, Undisturbed,
         \A r \in Request : ~RecordFailure(r)
  PROVE  Quiet
<1>0. /\ users \in Table /\ nextUid \in Nat \ {0} /\ pc \in [Request -> Stage]
      /\ adm \in [Administrator -> Adm]
  BY DEF BaseInv, TypeInv, DatabaseOK, RequestsOK, AdministratorsOK
<1>a. UNCHANGED <<users, nextUid>> =>
         (\A u \in User : CountRow(u)) /\ nextUid' >= nextUid
  BY <1>0 DEF CountRow
<1>b. ASSUME NEW r \in Request, NEW stage,
             pc' = [pc EXCEPT ![r] = stage], UNCHANGED adm,
             (\A u \in User : CountRow(u)) /\ nextUid' >= nextUid,
             pc[r] \in {"reset", "failure"} => stage = "failure",
             stage \in {"reset", "failure"} => pc[r] \in {"verify", "reset"}
      PROVE  Quiet
  BY <1>0, <1>b DEF Quiet, CountInv, NothingDeleted
<1>c. ASSUME UNCHANGED <<pc, users, nextUid>>,
             \A a \in Administrator : adm'[a].stage \in {"idle", "set_state"}
      PROVE  Quiet
  BY <1>a, <1>c DEF Quiet
<1>d. \A a \in Administrator : adm[a].stage \in {"idle", "set_state"}
  BY DEF CountInv, NothingDeleted
<1>u. ~WritesMayFail /\ ~MemoryLoss /\ ~AdminEdits
  BY DEF Undisturbed
<1>1. CASE Enter
  BY <1>1, <1>a, <1>b DEF Enter, LoginBegin, ContinueBegin, Goto, dbVars
<1>2. ASSUME NEW r \in Request,
             \/ Found(r) \/ Missing(r) \/ Vanished(r) \/ LogAttempt(r)
             \/ NewSession(r) \/ IssueCode(r) \/ Answer(r)
      PROVE  Quiet
  <2>1. UNCHANGED <<users, nextUid, adm>>
    BY <1>2 DEF Found, Missing, Vanished, LogAttempt, NewSession, IssueCode,
                Answer, Accepted, Rejected, FetchProfile, Cancel, dbVars
  <2>2. PICK stage :
           /\ pc' = [pc EXCEPT ![r] = stage]
           /\ pc[r] \notin {"reset", "failure"}
           /\ stage \in {"reset", "failure"} => pc[r] = "verify"
    <3>1. CASE Found(r) \/ Missing(r) \/ Vanished(r) \/ NewSession(r) \/ IssueCode(r)
      BY <3>1 DEF Found, Missing, Vanished, NewSession, IssueCode, Advance,
                  Finish, Goto
    <3>2. CASE LogAttempt(r)
      <4>1. pc[r] \notin {"reset", "failure"}
        BY <3>2 DEF LogAttempt
      <4>2. \/ pc' = [pc EXCEPT ![r] = "session"]
            \/ pc' = [pc EXCEPT ![r] = "lockout"]
            \/ pc' = [pc EXCEPT ![r] = "done"]
        BY <3>2 DEF LogAttempt, AfterFailure, Advance, Goto
      <4> QED
        BY <4>1, <4>2
    <3>3. CASE Accepted(r) \/ Rejected(r)
      BY <3>3 DEF Accepted, Rejected, Advance, Goto
    <3>4. CASE FetchProfile(r) \/ Cancel(r)
      BY <3>4 DEF FetchProfile, Cancel, Awaiting, Finish, Goto
    <3> QED
      BY <1>2, <3>1, <3>2, <3>3, <3>4 DEF Answer
  <2>3. (\A u \in User : CountRow(u)) /\ nextUid' >= nextUid
    BY <1>a, <2>1
  <2> QED
    BY <1>b, <2>1, <2>2, <2>3
<1>3. ASSUME NEW r \in Request, Create(r) \/ SyncProfile(r) \/ ResetProfile(r)
      PROVE  Quiet
  <2>1. Active(r)
    BY <1>3 DEF Create, SyncProfile, ResetProfile, Active, Finished
  <2>2. local[r].user \in User /\ local[r].got \in SUBSET ProfileField
    BY <2>1, ActiveType DEF BaseInv, TypeInv, Local
  <2>3. \E profile \in SUBSET ProfileField :
           Insert(UpsertUser(users, local[r].user, profile, nextUid),
                  local[r].user)
    BY <1>3, <1>u, <2>2 DEF Create, SyncProfile, ResetProfile, Upsert
  <2>4. (\A u \in User : CountRow(u)) /\ nextUid' >= nextUid
    BY <1>0, <2>2, <2>3, UpsertCount
  <2>5. UNCHANGED adm
    BY <1>3 DEF Create, SyncProfile, ResetProfile
  <2>6. PICK stage :
           /\ pc' = [pc EXCEPT ![r] = stage]
           /\ pc[r] \in {"reset", "failure"} => stage = "failure"
           /\ stage \in {"reset", "failure"} => pc[r] = "reset"
    BY <1>3, <1>u DEF Create, SyncProfile, ResetProfile, Advance, Goto
  <2> QED
    BY <1>b, <2>4, <2>5, <2>6
<1>4. ASSUME NEW r \in Request,
             Check(r) \/ SetFlag(r) \/ RecordSuccess(r) \/ Lockout(r)
      PROVE  Quiet
  <2>1. (\A u \in User : CountRow(u)) /\ UNCHANGED <<nextUid, adm>>
    <3>1. CASE Check(r)
      <4>1. /\ UNCHANGED <<nextUid, adm>>
            /\ \/ UNCHANGED users
               \/ users' = SetUserState(users, local[r].info.uid, "Normal", "none", 0)
        BY <3>1 DEF Check, Write
      <4> QED
        BY <1>0, <1>a, <4>1 DEF SetUserState, Table, Row, CountRow
    <3>2. CASE SetFlag(r)
      BY <1>0, <3>2 DEF SetFlag, Write, SetUserFlag, Table, Row, CountRow
    <3>3. CASE RecordSuccess(r)
      BY <1>0, <3>3 DEF RecordSuccess, Record, RecordLoginSuccess, Table, Row, CountRow
    <3>4. CASE Lockout(r)
      BY <1>0, <3>4 DEF Lockout, Write, SetUserState, Table, Row, CountRow
    <3> QED
      BY <1>4, <3>1, <3>2, <3>3, <3>4
  <2>2. PICK stage : /\ pc' = [pc EXCEPT ![r] = stage]
                     /\ pc[r] \notin {"reset", "failure"}
                     /\ stage \notin {"reset", "failure"}
    <3>1. CASE Check(r)
      BY <3>1 DEF Check, Branch, Onward, Finish, Goto
    <3>2. CASE SetFlag(r) \/ RecordSuccess(r) \/ Lockout(r)
      BY <3>2 DEF SetFlag, RecordSuccess, Lockout, Record, Advance, Finish, Goto
    <3> QED
      BY <1>4, <3>1, <3>2
  <2>3. nextUid' >= nextUid
    BY <1>0, <2>1
  <2> QED
    BY <1>b, <2>1, <2>2, <2>3
<1>5. ASSUME NEW r \in Request, Unwrap(r) PROVE FALSE
  BY <1>5 DEF Unwrap, CountInv, NothingDeleted
<1>6. ASSUME NEW a \in Administrator, AdminStep(a) PROVE Quiet
  <2>1. CASE AdminLogin(a)
    BY <1>c, <1>d, <2>1 DEF AdminLogin, dbVars
  <2>2. CASE \E u \in User : AdminRead(a, u)
    <3>1. PICK u \in User, c \in AdminChange :
            adm' = [adm EXCEPT ![a] =
                    [stage |-> "set_state", user |-> u, uid |-> users[u].uid,
                     state |-> c.state, hours |-> c.hours]]
      BY <2>2 DEF AdminRead
    <3> QED
      BY <1>0, <1>c, <1>d, <2>2, <3>1 DEF AdminRead, dbVars
  <2>3. CASE AdminSetState(a)
    <3>1. (\A u \in User : CountRow(u)) /\ UNCHANGED <<nextUid, pc>>
      BY <1>0, <2>3 DEF AdminSetState, Write, SetUserState, Table, Row, CountRow
    <3> QED
      BY <1>0, <1>d, <2>3, <3>1 DEF AdminSetState, AdmEnd, NoAdm, Quiet
  <2> QED
    BY <1>6, <1>d, <1>u, <2>1, <2>2, <2>3
       DEF AdminStep, AdminAddRead, AdminDeleteRead, AdminAdd, AdminDeleteLogs,
           AdminDeleteUser
<1>7. CASE Tick
  BY <1>7, <1>c, <1>d DEF Tick, dbVars
<1> QED
  BY <1>1, <1>2, <1>3, <1>4, <1>5, <1>6, <1>7, <1>u
     DEF Next, Step, SessionGone, CodeGone, Crash

\* A step that records the failure of request r.
Recorded(r) ==
    /\ pc[r] = "failure"
    /\ pc'[r] = "failure_log"
    /\ \A q \in Request \ {r} : pc'[q] = pc[q]
    /\ users' = RecordLoginFailure(users, local[r].info.uid)
    /\ UNCHANGED <<nextUid, adm>>

LEMMA CountStep ==
  ASSUME BaseInv, CountInv, Next, Undisturbed
  PROVE  Quiet \/ \E r \in Request : Recorded(r)
<1>1. ASSUME NEW r \in Request, RecordFailure(r) PROVE Recorded(r)
  BY <1>1 DEF RecordFailure, Record, Recorded, Advance, Goto, Undisturbed,
              BaseInv, TypeInv, RequestsOK
<1> QED
  BY <1>1, QuietStep

LEMMA StepUids ==
  ASSUME BaseInv, CountInv, HNext, Undisturbed PROVE UidsOld'
<1> USE DEF HNext
<1>0. /\ users \in Table /\ users' \in Table
      /\ nextUid \in Nat /\ nextUid' \in Nat /\ rejected \in [Request -> Nat]
  BY StepType DEF BaseInv, TypeInv, DatabaseOK, HistoryOK
<1>1. nextUid' >= nextUid
  BY <1>0, CountStep DEF Quiet, Recorded
<1>2. ASSUME NEW u \in User PROVE users'[u].uid < nextUid'
  <2>1. users[u].uid < nextUid /\ users[u].uid \in Nat /\ users'[u].uid \in Nat
    BY <1>0 DEF CountInv, UidsOld, Table, Row
  <2>2. CASE Quiet
    BY <1>0, <1>1, <2>1, <2>2 DEF Quiet, CountRow
  <2>3. CASE \E r \in Request : Recorded(r)
    BY <1>0, <1>1, <2>1, <2>3 DEF Recorded, RecordLoginFailure, Table, Row
  <2> QED
    BY <2>2, <2>3, CountStep
<1>3. ASSUME NEW r \in Request PROVE rejected'[r] < nextUid'
  <2>1. \/ rejected'[r] = rejected[r]
        \/ pc[r] = "verify" /\ rejected'[r] = local[r].info.uid
    BY DEF Observe, Verified
  <2>2. pc[r] = "verify" => local[r].info.uid < nextUid /\ local[r].info.uid \in Nat
    BY Holder DEF CountInv, UidsOld, AfterRead
  <2>3. rejected[r] < nextUid /\ rejected[r] \in Nat
    BY <1>0 DEF CountInv, UidsOld
  <2> QED
    BY <1>0, <1>1, <2>1, <2>2, <2>3
<1>4. ASSUME NEW r \in Request, pc'[r] \in AfterRead
      PROVE  local'[r].info.uid < nextUid'
  <2>1. CASE local'[r].info = local[r].info /\ pc[r] \in AfterRead
    <3>1. local[r].info.uid < nextUid /\ local[r].info.uid \in Nat
      BY <2>1, Holder DEF CountInv, UidsOld
    <3> QED
      BY <1>0, <1>1, <2>1, <3>1
  <2>2. CASE /\ Present(users, local[r].user) /\ pc[r] \in {"lookup", "reread"}
             /\ local'[r].info = users[local[r].user]
    <3>1. local[r].user \in User
      BY <2>2, ActiveType DEF BaseInv, TypeInv, Active, Finished
    <3>2. users[local[r].user].uid < nextUid /\ users[local[r].user].uid \in Nat
      BY <1>0, <3>1 DEF CountInv, UidsOld, Table, Row
    <3> QED
      BY <1>0, <1>1, <2>2, <3>2
  <2>3. Move(r)
    BY Moves DEF BaseInv
  <2> QED
    BY <1>4, <2>1, <2>2, <2>3
       DEF Move, CheckMove, AfterRead, AfterRejection, AfterAcceptance, Writing,
           Finished
<1> QED
  BY <1>2, <1>3, <1>4 DEF UidsOld

\* Only its creation brings a request to the second reading of its row.
LEMMA Created ==
  ASSUME TypeInv, Next, Undisturbed, NEW r \in Request, pc'[r] = "reread"
  PROVE  /\ local'[r].user = local[r].user
         /\ \/ pc[r] = "reread"
            \/ local[r].user \in User /\ Present(users', local[r].user)
<1>0. /\ users \in Table /\ nextUid \in Nat \ {0} /\ pc \in [Request -> Stage]
      /\ Active(r) => local[r].user \in User
  BY ActiveType DEF TypeInv, DatabaseOK, RequestsOK
<1>1. CASE pc[r] = "create"
  <2>1. local[r].user \in User
    BY <1>0, <1>1 DEF Active, Finished
  <2>2. CASE Create(r)
    <3>1. users' = UpsertUser(users, local[r].user, {}, nextUid) /\ UNCHANGED local
      BY <2>2 DEF Create, Insert, Advance, Undisturbed
    <3> QED
      BY <1>0, <2>1, <3>1 DEF UpsertUser, NewRow, Present, Table
  <2>3. ASSUME ~Create(r) PROVE FALSE
    <3>1. ASSUME NEW q \in Request, Step(q) \/ Answer(q) PROVE FALSE
      <4>1. CASE q = r
        BY <1>1, <2>3, <3>1, <4>1
           DEF Step, Found, Missing, Vanished, Unwrap, Check, SetFlag,
               SyncProfile, RecordSuccess, LogAttempt, NewSession, IssueCode,
               ResetProfile, RecordFailure, Lockout, Answer, Accepted, Rejected,
               FetchProfile, Cancel, Awaiting
      <4>2. CASE Unwrap(q)
        BY <1>1, <4>2 DEF Unwrap, LoseMemory
      <4>3. CASE q # r /\ ~Unwrap(q)
        <5>1. \E stage : pc' = [pc EXCEPT ![q] = stage]
          <6>1. CASE Step(q)
            BY <4>3, <6>1
               DEF Step, Found, Missing, Create, Vanished, Check, SetFlag,
                   SyncProfile, RecordSuccess, Record, LogAttempt, NewSession,
                   IssueCode, ResetProfile, RecordFailure, Lockout, Advance,
                   Finish, Goto
          <6>2. CASE Answer(q)
            BY <6>2 DEF Answer, Accepted, Rejected, FetchProfile, Cancel,
                        Advance, Finish, Goto
          <6> QED
            BY <3>1, <6>1, <6>2
        <5> QED
          BY <1>0, <1>1, <4>3, <5>1
      <4> QED
        BY <4>1, <4>2, <4>3
    <3>2. CASE Enter
      BY <1>0, <1>1, <3>2 DEF Enter, LoginBegin, ContinueBegin, Goto
    <3>3. ASSUME NEW a \in Administrator, AdminStep(a) PROVE FALSE
      <4>1. UNCHANGED pc
        BY <3>3 DEF AdminStep, AdminLogin, AdminRead, AdminSetState,
                    AdminAddRead, AdminAdd, AdminDeleteRead, AdminDeleteLogs,
                    AdminDeleteUser
      <4> QED
        BY <1>1, <4>1
    <3>4. CASE \/ \E s \in session_store : SessionGone(s)
               \/ \E c \in code_store : CodeGone(c)
               \/ Tick \/ Crash
      BY <1>0, <1>1, <3>4 DEF SessionGone, CodeGone, Tick, Crash, LoseMemory
    <3> QED
      BY <3>1, <3>2, <3>3, <3>4 DEF Next
  <2> QED
    BY <2>2, <2>3
<1>2. CASE pc[r] # "create"
  <2>1. pc[r] = "reread" /\ local'[r] = local[r]
    BY <1>2, Moves
       DEF Move, CheckMove, Branch, Onward, AfterRejection, AfterAcceptance, Finished
  <2> QED
    BY <2>1
<1> QED
  BY <1>1, <1>2

LEMMA StepDeleted ==
  ASSUME BaseInv, CountInv, HNext, Undisturbed PROVE NothingDeleted'
<1> USE DEF HNext
<1>0. users \in Table /\ nextUid \in Nat \ {0}
  BY DEF BaseInv, TypeInv, DatabaseOK
<1>1. \A a \in Administrator : adm'[a].stage \in {"idle", "set_state"}
  BY CountStep DEF Quiet, Recorded, CountInv, NothingDeleted
<1>2. \A u \in User : Present(users, u) => Present(users', u)
  <2>1. CASE Quiet
    BY <1>0, <2>1 DEF Quiet, CountRow, Present
  <2>2. CASE \E r \in Request : Recorded(r)
    BY <1>0, <2>2 DEF Recorded, RecordLoginFailure, Table, Row, Present
  <2> QED
    BY <2>1, <2>2, CountStep
<1>3. ASSUME NEW r \in Request, pc'[r] = "reread"
      PROVE  Present(users', local'[r].user)
  <2>1. CASE pc[r] = "reread"
    <3>1. local[r].user \in User
      BY <2>1, ActiveType DEF BaseInv, TypeInv, Active, Finished
    <3> QED
      BY <1>2, <1>3, <2>1, <3>1, Created DEF CountInv, NothingDeleted, BaseInv
  <2> QED
    BY <1>3, <2>1, Created DEF BaseInv
<1> QED
  BY <1>1, <1>3 DEF NothingDeleted

LEMMA StepAcceptance ==
  ASSUME BaseInv, CountInv, HNext PROVE AcceptanceKnown'
<1> SUFFICES ASSUME NEW r \in Request
             PROVE  /\ pc'[r] \in AfterAcceptance =>
                          accepted'[r] = local'[r].info.uid
                    /\ pc'[r] \in {"idle", "verify"} \cup Reading =>
                          accepted'[r] = 0
  BY DEF AcceptanceKnown
<1>1. Move(r)
  BY Moves DEF HNext, BaseInv
<1>2. accepted'[r] = IF Verified(r, {"userinfo", "success"})
                     THEN local[r].info.uid ELSE accepted[r]
  BY DEF HNext, Observe
<1>3. /\ pc[r] \in AfterAcceptance => accepted[r] = local[r].info.uid
      /\ pc[r] \in {"idle", "verify"} \cup Reading => accepted[r] = 0
  BY DEF CountInv, AcceptanceKnown
<1>4. CASE pc'[r] = pc[r]
  <2>1. accepted'[r] = accepted[r]
    BY <1>2, <1>4 DEF Verified
  <2>2. pc[r] \in AfterAcceptance => local'[r].info = local[r].info
    BY <1>1, <1>4 DEF Move, CheckMove, AfterAcceptance, Finished
  <2> QED
    BY <1>3, <1>4, <2>1, <2>2
<1>5. CASE pc[r] = "verify" /\ pc'[r] # "verify"
  BY <1>1, <1>2, <1>3, <1>5
     DEF Move, CheckMove, Verified, AfterRejection, AfterAcceptance, Reading,
         Finished
<1>6. CASE CheckMove(r)
  <2>1. pc[r] = "check" /\ pc'[r] \in {"code", "session", "verify"}
    BY <1>6 DEF CheckMove, Branch, Onward
  <2> QED
    BY <1>2, <1>3, <2>1 DEF Verified, AfterAcceptance, Reading
<1>7. CASE pc[r] # "verify" /\ pc'[r] # pc[r] /\ ~CheckMove(r)
  BY <1>1, <1>2, <1>3, <1>7
     DEF Move, Verified, AfterRejection, AfterAcceptance, Reading, Finished
<1> QED
  BY <1>4, <1>5, <1>6, <1>7

\* What the steps do to the set of counted rejections.
LEMMA CountedStep ==
  ASSUME BaseInv, HNext, NEW uid \in Nat \ {0}
  PROVE  /\ Quiet => Counted(uid)' = Counted(uid)
         /\ \A r \in Request : Recorded(r) =>
               /\ r \notin Counted(uid)
               /\ Counted(uid)' = IF uid = local[r].info.uid
                                  THEN Counted(uid) \cup {r} ELSE Counted(uid)
<1>1. \A q \in Request :
         /\ rejected'[q] = IF Verified(q, {"reset", "failure"})
                           THEN local[q].info.uid ELSE rejected[q]
         /\ pc[q] \in AfterRejection => rejected[q] = local[q].info.uid
         /\ pc[q] = "verify" => rejected[q] = 0
  BY DEF HNext, Observe, BaseInv, LockoutInv, RejectionKnown, AfterRejection, Finished
<1>2. ASSUME Quiet PROVE Counted(uid)' = Counted(uid)
  <2>1. ASSUME NEW q \in Request
        PROVE  /\ rejected'[q] = uid /\ pc'[q] \notin {"reset", "failure"}
                  <=> rejected[q] = uid /\ pc[q] \notin {"reset", "failure"}
    BY <1>1, <1>2 DEF Quiet, Verified
  <2> QED
    BY <2>1 DEF Counted, RejectedFor
<1>3. ASSUME NEW r \in Request, Recorded(r)
      PROVE  /\ r \notin Counted(uid)
             /\ Counted(uid)' = IF uid = local[r].info.uid
                                THEN Counted(uid) \cup {r} ELSE Counted(uid)
  <2>1. r \notin Counted(uid)
    BY <1>3 DEF Recorded, Counted
  <2>2. \A q \in Request \ {r} : q \in Counted(uid)' <=> q \in Counted(uid)
    BY <1>1, <1>3 DEF Recorded, Counted, RejectedFor, Verified
  <2>3. r \in Counted(uid)' <=> uid = local[r].info.uid
    BY <1>1, <1>3 DEF Recorded, Counted, RejectedFor, Verified, AfterRejection
  <2>4. Counted(uid) \subseteq Request /\ Counted(uid)' \subseteq Request
    BY DEF Counted, RejectedFor
  <2> QED
    BY <2>1, <2>2, <2>3, <2>4
<1> QED
  BY <1>2, <1>3

LEMMA StepCounted ==
  ASSUME BaseInv, CountInv, HNext, Undisturbed PROVE FailuresAllCounted'
<1> SUFFICES ASSUME NEW u \in User, Present(users', u),
                    \A r \in Request : accepted'[r] # users'[u].uid,
                    NEW uid, uid = users'[u].uid
             PROVE  users'[u].failed = Cardinality(Counted(uid)')
  BY DEF FailuresAllCounted
<1>0. /\ users \in Table /\ users' \in Table /\ nextUid \in Nat \ {0}
      /\ uid \in Nat \ {0} /\ Counted(uid) \subseteq Request
  BY StepType DEF BaseInv, TypeInv, DatabaseOK, HNext, Table, Row, Present,
                  Counted, RejectedFor
\* An account that had no acceptance still has none.
<1>1. \A r \in Request : accepted[r] # uid
  BY <1>0 DEF HNext, Observe, Verified, CountInv, AcceptanceKnown
<1>2. users[u].uid = uid => users[u].failed = Cardinality(Counted(uid))
  BY <1>0, <1>1 DEF CountInv, FailuresAllCounted, Present
<1>3. CASE Quiet
  <2>1. Counted(uid)' = Counted(uid)
    BY <1>0, <1>3, CountedStep
  <2>2. CASE users[u].uid = uid
    <3>1. \A r \in Request : pc[r] = "success" => local[r].info.uid # uid
      BY <1>1 DEF CountInv, AcceptanceKnown, AfterAcceptance
    <3>2. users'[u].failed = users[u].failed
      BY <1>0, <1>3, <2>2, <3>1 DEF Quiet, CountRow
    <3> QED
      BY <1>2, <2>1, <2>2, <3>2
  <2>3. CASE users[u].uid # uid
    <3>1. uid = nextUid /\ users'[u].failed = 0
      BY <1>3, <2>3 DEF Quiet, CountRow
    <3>2. \A r \in Request : rejected[r] # uid
      BY <1>0, <3>1 DEF CountInv, UidsOld, BaseInv, HistoryOK
    <3>3. Counted(uid) = {}
      BY <3>2 DEF Counted, RejectedFor
    <3> QED
      BY <2>1, <3>1, <3>3, FS_EmptySet
  <2> QED
    BY <2>2, <2>3
<1>4. ASSUME NEW r \in Request, Recorded(r)
      PROVE  users'[u].failed = Cardinality(Counted(uid)')
  <2>1. users[u].uid = uid
    BY <1>0, <1>4 DEF Recorded, RecordLoginFailure, Table, Row
  <2>2. users'[u].failed = IF uid = local[r].info.uid THEN users[u].failed + 1
                                                     ELSE users[u].failed
    BY <1>0, <1>4, <2>1 DEF Recorded, RecordLoginFailure, Table, Row
  <2>3. IsFiniteSet(Counted(uid))
    BY <1>0, RequestAssumption, FS_Subset
  <2>4. Cardinality(Counted(uid) \cup {r}) = Cardinality(Counted(uid)) + 1
    BY <1>0, <1>4, <2>3, CountedStep, FS_AddElement
  <2> QED
    BY <1>0, <1>2, <1>4, <2>1, <2>2, <2>4, CountedStep
<1> QED
  BY <1>3, <1>4, CountStep DEF HNext

LEMMA StepCount ==
  ASSUME Undisturbed PROVE BaseInv /\ CountInv /\ [HNext]_hvars => CountInv'
<1>1. CASE UNCHANGED hvars
  BY <1>1 DEF hvars, vars, histVars, CountInv, UidsOld, NothingDeleted,
              AcceptanceKnown, FailuresAllCounted, Present, Counted, RejectedFor
<1>2. BaseInv /\ CountInv /\ HNext => CountInv'
  BY StepUids, StepDeleted, StepAcceptance, StepCounted DEF CountInv
<1> QED
  BY <1>1, <1>2

\* Concurrent failures are all counted, as long as no write fails, the service
\* is not stopped and administrators do not delete accounts.
THEOREM FailuresCounted ==
  ASSUME Undisturbed PROVE HSpec => []FailuresAllCounted
<1>1. HInit => BaseInv /\ CountInv
  BY InitBase, InitCount
<1>2. BaseInv /\ CountInv /\ [HNext]_hvars => (BaseInv /\ CountInv)'
  BY StepBase, StepCount
<1>3. CountInv => FailuresAllCounted
  BY DEF CountInv
<1> QED
  BY <1>1, <1>2, <1>3, PTL DEF HSpec
=============================================================================
