-------------------------------- MODULE Auth --------------------------------
(***************************************************************************)
(* The login service of zline_sso: auth.rs (login, continue, logout) and   *)
(* the account operations of admin.rs, running concurrently.               *)
(*                                                                         *)
(* tokio runs the handlers on several threads and nothing orders their     *)
(* statements, so a handler is a sequence of steps: one per SQL statement, *)
(* per lock of an in-memory store and per answer of the external system.   *)
(* pc[r] names the step request r takes next and local[r] holds the        *)
(* variables of its handler; what a handler read stays in local[r] while   *)
(* the table moves on.                                                     *)
(*                                                                         *)
(* A request that is refused before it reads or writes anything shared     *)
(* (unknown client, redirect URI not registered, payload that does not     *)
(* decrypt, no cookie, session not found) changes no state and is no       *)
(* action. Roles and tags are in no step of these handlers.                *)
(***************************************************************************)
EXTENDS Accounts

CONSTANTS Request,          \* login and continue requests, each used once
          Administrator,    \* administrators, each with one browser
          AdminChange,      \* [state, hours] an administrator may ask for
          AdminEdits,       \* do administrators add and delete accounts?
          ExternalAnswer,   \* profiles the external system may answer
          RequestForm,      \* [direct, sync]: what a request asks for
          WritesMayFail,    \* may an SQL write fail (busy, disk full)?
          MemoryLoss,       \* do sessions and codes leave the memory, and does
                            \* the process restart?
          MaxTime,          \* bound of the clock
          MaxUid            \* bound of the uids handed out

ASSUME AdminChangeAssumption ==
    AdminChange \subseteq [state: UserState, hours: Nat]
ASSUME ExternalAnswerAssumption == ExternalAnswer \subseteq SUBSET ProfileField
ASSUME RequestFormAssumption ==
    RequestForm \subseteq [direct: BOOLEAN, sync: BOOLEAN]
ASSUME SwitchAssumption == /\ AdminEdits \in BOOLEAN
                           /\ WritesMayFail \in BOOLEAN
                           /\ MemoryLoss \in BOOLEAN
ASSUME BoundAssumption == MaxTime \in Nat /\ MaxUid \in Nat
ASSUME ActorAssumption == Request \cap Administrator = {}

VARIABLES users,          \* the users table
          logs,           \* uids that login_logs has rows for
          nextUid,        \* the next fresh uuid
          session_store,  \* AppState.session_store
          code_store,     \* AppState.code_store
          pc, local,      \* the requests
          adm,            \* the administrators' operations
          now             \* the wall clock, in seconds

dbVars == <<users, logs, nextUid>>
memVars == <<session_store, code_store>>
vars == <<users, logs, nextUid, session_store, code_store, pc, local, adm, now>>

-----------------------------------------------------------------------------
\* Steps before and after the two awaits of a login.
Reading == {"lookup", "create", "reread", "check"}
Awaiting == {"verify", "userinfo"}
Writing == {"flag", "sync", "success", "success_log", "session", "code",
            "reset", "failure", "failure_log", "lockout"}
Finished == {"done", "aborted"}
Stage == {"idle"} \cup Reading \cup Awaiting \cup Writing \cup Finished

Nobody == "nobody"
Local == [user: User \cup {Nobody}, kind: {"login", "continue"},
          direct: BOOLEAN, sync: BOOLEAN,
          new: BOOLEAN,             \* new_user_record
          info: Row,                \* user_info, as it was read
          state: UserState,         \* user_state, after the expiry check
          got: SUBSET ProfileField] \* what the external system answered

NoLocal == [user |-> Nobody, kind |-> "login", direct |-> TRUE, sync |-> FALSE,
            new |-> FALSE, info |-> NoRow, state |-> "Normal", got |-> {}]

\* A session and a code are named by the request (or the administrator) they
\* were created for: each creates at most one, under a fresh uuid.
Session == [id: Request \cup Administrator, user: User \cup {Nobody},
            is_admin: BOOLEAN]
Code == [id: Request, user: User]

\* The operation an administrator has under way: the statement that comes
\* next, and what was read for it.
AdmStage == {"idle", "set_state", "insert", "delete_logs", "delete_user"}
Adm == [stage: AdmStage, user: User \cup {Nobody}, uid: Nat,
        state: UserState, hours: Nat]
NoAdm == [stage |-> "idle", user |-> Nobody, uid |-> 0,
          state |-> "Normal", hours |-> 0]

TypeOK ==
    /\ users \in [User -> Row]
    /\ logs \in SUBSET Nat
    /\ nextUid \in Nat \ {0}
    /\ session_store \in SUBSET Session
    /\ code_store \in SUBSET Code
    /\ pc \in [Request -> Stage]
    /\ local \in [Request -> Local]
    /\ adm \in [Administrator -> Adm]
    /\ now \in Nat

Init ==
    /\ users = NoUsers
    /\ logs = {}
    /\ nextUid = 1
    /\ session_store = {}
    /\ code_store = {}
    /\ pc = [r \in Request |-> "idle"]
    /\ local = [r \in Request |-> NoLocal]
    /\ adm = [a \in Administrator |-> NoAdm]
    /\ now = 0

-----------------------------------------------------------------------------
Goto(r, stage) == pc' = [pc EXCEPT ![r] = stage]
Advance(r, stage) == Goto(r, stage) /\ UNCHANGED local
Finish(r) == Goto(r, "done") /\ local' = [local EXCEPT ![r] = NoLocal]

\* An UPDATE whose error the handler ignores.
Write(table) == /\ \/ users' = table
                   \/ WritesMayFail /\ UNCHANGED users
                /\ UNCHANGED nextUid

\* An INSERT that consumes a fresh uuid if it adds a row. MaxUid bounds them.
Insert(table, u) ==
    /\ Present(users, u) \/ nextUid <= MaxUid
    /\ users' = table
    /\ nextUid' = IF Present(users, u) THEN nextUid ELSE nextUid + 1

\* upsert_user with its error ignored.
Upsert(u, profile) ==
    \/ Insert(UpsertUser(users, u, profile, nextUid), u)
    \/ WritesMayFail /\ UNCHANGED <<users, nextUid>>

-----------------------------------------------------------------------------
(* Entering a handler.                                                     *)

\* login_handler up to its first statement.
LoginBegin(r, u) ==
    /\ pc[r] = "idle"
    /\ \E form \in RequestForm :
          local' = [local EXCEPT ![r] =
                      [NoLocal EXCEPT !.user = u, !.direct = form.direct,
                                      !.sync = form.sync]]
    /\ Goto(r, "lookup")
    /\ UNCHANGED <<dbVars, memVars, adm, now>>

\* continue_handler up to its first statement. The session is looked at once,
\* here; an administrator's session goes no further than this.
ContinueBegin(r, s) ==
    /\ pc[r] = "idle"
    /\ s \in session_store
    /\ ~s.is_admin
    /\ \E form \in RequestForm :
          local' = [local EXCEPT ![r] =
                      [NoLocal EXCEPT !.user = s.user, !.kind = "continue",
                                      !.direct = form.direct]]
    /\ Goto(r, "lookup")
    /\ UNCHANGED <<dbVars, memVars, adm, now>>

\* login_handler for an administrator's name and password: no statement, one
\* session, and only in the user centre.
AdminLogin(a) ==
    /\ session_store' = session_store \cup
                          {[id |-> a, user |-> Nobody, is_admin |-> TRUE]}
    /\ UNCHANGED <<dbVars, code_store, pc, local, adm, now>>

\* logout_handler, and a session that cleanup_expired drops.
SessionGone(s) ==
    /\ MemoryLoss
    /\ session_store' = session_store \ {s}
    /\ UNCHANGED <<dbVars, code_store, pc, local, adm, now>>

\* A code that is exchanged for a token or that cleanup_expired drops.
CodeGone(c) ==
    /\ MemoryLoss
    /\ code_store' = code_store \ {c}
    /\ UNCHANGED <<dbVars, session_store, pc, local, adm, now>>

-----------------------------------------------------------------------------
(* Reading the account.                                                    *)

\* get_user_full_info finds the row, at the first reading or after the
\* creation.
Found(r) ==
    LET l == local[r]
        row == users[l.user]
    IN  /\ pc[r] \in {"lookup", "reread"}
        /\ Present(users, l.user)
        /\ local' = [local EXCEPT ![r].info = row,
                                  ![r].sync = \/ l.sync
                                              \/ row.flag = "Uninitialized"]
        /\ Goto(r, "check")
        /\ UNCHANGED <<dbVars, memVars, adm, now>>

Missing(r) ==
    /\ pc[r] = "lookup"
    /\ ~Present(users, local[r].user)
    /\ local' = [local EXCEPT ![r].new = (local[r].kind = "login")]
    /\ Goto(r, "create")
    /\ UNCHANGED <<dbVars, memVars, adm, now>>

\* upsert_user of an empty profile. A failure ends a login; continue ignores
\* it and reads again.
Create(r) ==
    /\ pc[r] = "create"
    /\ \/ /\ Insert(UpsertUser(users, local[r].user, {}, nextUid),
                    local[r].user)
          /\ Advance(r, "reread")
       \/ /\ WritesMayFail
          /\ UNCHANGED <<users, nextUid>>
          /\ \/ local[r].kind = "login" /\ Finish(r)
             \/ local[r].kind = "continue" /\ Advance(r, "reread")
    /\ UNCHANGED <<logs, memVars, adm, now>>

\* The row a login created is gone again: "internal error".
Vanished(r) ==
    /\ pc[r] = "reread"
    /\ ~Present(users, local[r].user)
    /\ local[r].kind = "login"
    /\ Finish(r)
    /\ UNCHANGED <<dbVars, memVars, adm, now>>

\* What is left of the requests and operations when the process ends: the
\* database.
LoseMemory(aborting) ==
    /\ session_store' = {}
    /\ code_store' = {}
    /\ pc' = [r \in Request |->
                CASE r \in aborting -> "aborted"
                  [] pc[r] \in {"idle", "aborted"} -> pc[r]
                  [] OTHER -> "done"]
    /\ local' = [r \in Request |-> NoLocal]
    /\ adm' = [a \in Administrator |-> NoAdm]
    /\ UNCHANGED <<dbVars, now>>

\* continue_handler unwraps the same empty answer, and the release profile
\* aborts the process on a panic.
Unwrap(r) ==
    /\ pc[r] = "reread"
    /\ ~Present(users, local[r].user)
    /\ local[r].kind = "continue"
    /\ LoseMemory({r})

\* Where a handler goes with an account that is not refused; an exempt one
\* needs no verification.
Onward(l, exempt) ==
    IF l.kind = "continue" THEN IF l.direct THEN "done" ELSE "code"
                           ELSE IF exempt THEN "session" ELSE "verify"

\* Not the code: the OAuth refusal of the Restricted arm forgotten.
Bug_RestrictedOAuth(l, st) ==
    IF st = "Locked" THEN "done" ELSE Onward(l, st = "BypassExternal")

\* Not the code: a restricted user let into the user centre unverified.
Bug_RestrictedUnverified(l, st) ==
    IF st = "Locked" \/ (st = "Restricted" /\ ~l.direct)
    THEN "done" ELSE Onward(l, st \in {"Restricted", "BypassExternal"})

\* Not the code: a locked user verified as any other.
Bug_LockedVerified(l, st) ==
    IF st = "Restricted" /\ ~l.direct
    THEN "done" ELSE Onward(l, st = "BypassExternal")

\* Where a handler goes with the account in state st.
Branch(l, st) ==
    IF st = "Locked" \/ (st = "Restricted" /\ ~l.direct)
    THEN "done" ELSE Onward(l, st = "BypassExternal")

\* clear_expired_restriction on the row read earlier, and the match on the
\* state it answers.
Check(r) ==
    LET l == local[r]
        st == StateAt(l.info, now)
    IN  /\ pc[r] = "check"
        /\ IF Expired(l.info, now)
           THEN Write(SetUserState(users, l.info.uid, "Normal", "none", 0))
           ELSE UNCHANGED <<users, nextUid>>
        /\ IF Branch(l, st) = "done"
           THEN Finish(r)
           ELSE /\ Goto(r, Branch(l, st))
                /\ local' = [local EXCEPT ![r].state = st]
        /\ UNCHANGED <<logs, memVars, adm, now>>

-----------------------------------------------------------------------------
(* The external verification and what a login does with its answer.        *)

\* login_with_jincai answers Ok. The account's restriction is not read again.
Accepted(r) ==
    /\ pc[r] = "verify"
    /\ Advance(r, IF local[r].sync THEN "userinfo" ELSE "success")
    /\ UNCHANGED <<dbVars, memVars, adm, now>>

\* login_with_jincai answers Err: a wrong password, and every transport error.
Rejected(r) ==
    /\ pc[r] = "verify"
    /\ Advance(r, IF local[r].new /\ local[r].state = "Normal"
                  THEN "reset" ELSE "failure")
    /\ UNCHANGED <<dbVars, memVars, adm, now>>

\* get_external_user_info, errors taken for an empty answer. Only the Normal
\* arm goes on to set the flag.
FetchProfile(r) ==
    /\ pc[r] = "userinfo"
    /\ \E answer \in ExternalAnswer \cup {{}} :
          /\ local' = [local EXCEPT ![r].got = answer]
          /\ Goto(r, IF answer \cap {"external_uid", "full_name"} = {}
                     THEN "success"
                     ELSE IF local[r].state = "Normal" THEN "flag" ELSE "sync")
    /\ UNCHANGED <<dbVars, memVars, adm, now>>

\* The client goes away while the handler waits for the external system: the
\* handler is dropped there, and none of its later statements run.
Cancel(r) ==
    /\ pc[r] \in Awaiting
    /\ Finish(r)
    /\ UNCHANGED <<dbVars, memVars, adm, now>>

SetFlag(r) ==
    /\ pc[r] = "flag"
    /\ Write(SetUserFlag(users, local[r].info.uid, "Normal"))
    /\ Advance(r, "sync")
    /\ UNCHANGED <<logs, memVars, adm, now>>

\* upsert_user by the username: it inserts the account anew if it was deleted.
SyncProfile(r) ==
    /\ pc[r] = "sync"
    /\ Upsert(local[r].user, local[r].got)
    /\ Advance(r, "success")
    /\ UNCHANGED <<logs, memVars, adm, now>>

\* The UPDATE of record_login_success or record_login_failure: if it fails,
\* the log line is skipped and the handler goes on to the stage after it.
Record(r, table, log_stage, next_stage) ==
    /\ UNCHANGED nextUid
    /\ \/ users' = table /\ Advance(r, log_stage)
       \/ WritesMayFail /\ UNCHANGED users /\ Advance(r, next_stage)

RecordSuccess(r) ==
    /\ pc[r] = "success"
    /\ Record(r, RecordLoginSuccess(users, local[r].info.uid),
              "success_log", "session")
    /\ UNCHANGED <<logs, memVars, adm, now>>

\* Where a failed login goes after it was recorded.
AfterFailure(l) == IF ReachesThreshold(l.info) THEN "lockout" ELSE "done"

\* Not the code: the counter written back from the row that was read.
Bug_WriteBackCounter(r) ==
    LET l == local[r]
    IN  /\ pc[r] = "failure"
        /\ Record(r, [u \in User |-> IF users[u].uid = l.info.uid
                        THEN [users[u] EXCEPT !.failed = l.info.failed + 1]
                        ELSE users[u]],
                  "failure_log", AfterFailure(l))
        /\ UNCHANGED <<logs, memVars, adm, now>>

RecordFailure(r) ==
    /\ pc[r] = "failure"
    /\ Record(r, RecordLoginFailure(users, local[r].info.uid),
              "failure_log", AfterFailure(local[r]))
    /\ UNCHANGED <<logs, memVars, adm, now>>

\* Not the code: login_logs without the foreign key.
Bug_LogWithoutForeignKey(r) ==
    /\ pc[r] \in {"success_log", "failure_log"}
    /\ logs' = logs \cup {local[r].info.uid}
    /\ Advance(r, IF pc[r] = "success_log" THEN "session"
                                          ELSE AfterFailure(local[r]))
    /\ UNCHANGED <<users, nextUid, memVars, adm, now>>

\* log_login_attempt: the foreign key refuses a line for a deleted account,
\* and the handler ignores it.
LogAttempt(r) ==
    /\ pc[r] \in {"success_log", "failure_log"}
    /\ \/ /\ HasUid(users, local[r].info.uid)
          /\ logs' = logs \cup {local[r].info.uid}
       \/ /\ WritesMayFail \/ ~HasUid(users, local[r].info.uid)
          /\ UNCHANGED logs
    /\ Advance(r, IF pc[r] = "success_log" THEN "session"
                                          ELSE AfterFailure(local[r]))
    /\ UNCHANGED <<users, nextUid, memVars, adm, now>>

\* The session, after a verification or in the BypassExternal arm. The
\* Restricted arm is only reached by direct logins.
NewSession(r) ==
    /\ pc[r] = "session"
    /\ session_store' = session_store \cup
          {[id |-> r, user |-> local[r].user, is_admin |-> FALSE]}
    /\ IF local[r].direct THEN Finish(r) ELSE Advance(r, "code")
    /\ UNCHANGED <<dbVars, code_store, adm, now>>

\* handle_login_response for an application.
IssueCode(r) ==
    /\ pc[r] = "code"
    /\ code_store' = code_store \cup {[id |-> r, user |-> local[r].user]}
    /\ Finish(r)
    /\ UNCHANGED <<dbVars, session_store, adm, now>>

\* A rejected first login writes the empty profile once more.
ResetProfile(r) ==
    /\ pc[r] = "reset"
    /\ Upsert(local[r].user, {})
    /\ Advance(r, "failure")
    /\ UNCHANGED <<logs, memVars, adm, now>>

\* Not the code: the lockout written by username instead of uid.
Bug_LockoutByName(r) ==
    /\ pc[r] = "lockout"
    /\ Write(SetUserState(users, users[local[r].user].uid, "Locked", "lockout",
                          now + LockoutDuration))
    /\ Finish(r)
    /\ UNCHANGED <<logs, memVars, adm, now>>

\* The lockout, decided by the counter that was read before the verification.
Lockout(r) ==
    /\ pc[r] = "lockout"
    /\ Write(SetUserState(users, local[r].info.uid, "Locked", "lockout",
                          now + LockoutDuration))
    /\ Finish(r)
    /\ UNCHANGED <<logs, memVars, adm, now>>

-----------------------------------------------------------------------------
(* The administrators. require_admin is asked once, when a handler starts. *)

SignedIn(a) == \E s \in session_store : s.id = a /\ s.is_admin

AdmGoto(a, stage) == adm' = [adm EXCEPT ![a].stage = stage]
AdmEnd(a) == adm' = [adm EXCEPT ![a] = NoAdm]

\* The first read of set_state, ban (a change to Locked) and unban (a change
\* to Normal).
AdminRead(a, u) ==
    /\ adm[a].stage = "idle"
    /\ SignedIn(a)
    /\ Present(users, u)
    /\ \E c \in AdminChange :
          adm' = [adm EXCEPT ![a] =
                    [stage |-> "set_state", user |-> u, uid |-> users[u].uid,
                     state |-> c.state, hours |-> c.hours]]
    /\ UNCHANGED <<dbVars, memVars, pc, local, now>>

\* The write of those three.
AdminSetState(a) ==
    LET op == adm[a]
        restricting == op.state \in {"Restricted", "Locked"}
    IN  /\ op.stage = "set_state"
        /\ Write(SetUserState(users, op.uid, op.state,
                              IF restricting THEN "admin" ELSE "none",
                              IF restricting THEN RestrictionEnd(op.hours, now)
                                             ELSE 0))
        /\ AdmEnd(a)
        /\ UNCHANGED <<logs, memVars, pc, local, now>>

\* admin_add_user_handler: the check that the name is free, and the INSERT.
AdminAddRead(a, u) ==
    /\ AdminEdits
    /\ adm[a].stage = "idle"
    /\ SignedIn(a)
    /\ ~Present(users, u)
    /\ adm' = [adm EXCEPT ![a] = [NoAdm EXCEPT !.stage = "insert", !.user = u]]
    /\ UNCHANGED <<dbVars, memVars, pc, local, now>>

AdminAdd(a) ==
    /\ adm[a].stage = "insert"
    /\ \/ \E profile \in {{}, {"full_name"}} :
             Insert(AddUser(users, adm[a].user, profile, nextUid), adm[a].user)
       \/ WritesMayFail /\ UNCHANGED <<users, nextUid>>
    /\ AdmEnd(a)
    /\ UNCHANGED <<logs, memVars, pc, local, now>>

\* admin_delete_user_handler: its two reads (the first only refuses), then the
\* log lines, then the row, whose remaining log lines the foreign key drops.
AdminDeleteRead(a, u) ==
    /\ AdminEdits
    /\ adm[a].stage = "idle"
    /\ SignedIn(a)
    /\ Present(users, u)
    /\ adm' = [adm EXCEPT ![a] = [NoAdm EXCEPT !.stage = "delete_logs",
                                     !.user = u, !.uid = users[u].uid]]
    /\ UNCHANGED <<dbVars, memVars, pc, local, now>>

AdminDeleteLogs(a) ==
    /\ adm[a].stage = "delete_logs"
    /\ \/ logs' = logs \ {adm[a].uid} /\ AdmGoto(a, "delete_user")
       \/ WritesMayFail /\ UNCHANGED logs /\ AdmEnd(a)
    /\ UNCHANGED <<users, nextUid, memVars, pc, local, now>>

AdminDeleteUser(a) ==
    /\ adm[a].stage = "delete_user"
    /\ \/ /\ users' = DeleteUid(users, adm[a].uid)
          /\ logs' = logs \ {adm[a].uid}
       \/ WritesMayFail /\ UNCHANGED <<users, logs>>
    /\ AdmEnd(a)
    /\ UNCHANGED <<nextUid, memVars, pc, local, now>>

-----------------------------------------------------------------------------
Tick ==
    /\ now < MaxTime
    /\ now' = now + 1
    /\ UNCHANGED <<dbVars, memVars, pc, local, adm>>

\* The process stops and starts again on the same database.
Crash == MemoryLoss /\ LoseMemory({})

Enter == \E r \in Request : \/ \E u \in User : LoginBegin(r, u)
                            \/ \E s \in session_store : ContinueBegin(r, s)

\* The steps of a handler that are its own.
Step(r) ==
    \/ Found(r) \/ Missing(r) \/ Create(r) \/ Vanished(r) \/ Unwrap(r)
    \/ Check(r)
    \/ SetFlag(r) \/ SyncProfile(r) \/ RecordSuccess(r) \/ LogAttempt(r)
    \/ NewSession(r) \/ IssueCode(r)
    \/ ResetProfile(r) \/ RecordFailure(r) \/ Lockout(r)

\* The answers it waits for.
Answer(r) == Accepted(r) \/ Rejected(r) \/ FetchProfile(r) \/ Cancel(r)

AdminStep(a) ==
    \/ AdminLogin(a)
    \/ \E u \in User : AdminRead(a, u) \/ AdminAddRead(a, u) \/ AdminDeleteRead(a, u)
    \/ AdminSetState(a) \/ AdminAdd(a) \/ AdminDeleteLogs(a) \/ AdminDeleteUser(a)

Next ==
    \/ Enter
    \/ \E r \in Request : Step(r) \/ Answer(r)
    \/ \E a \in Administrator : AdminStep(a)
    \/ \E s \in session_store : SessionGone(s)
    \/ \E c \in code_store : CodeGone(c)
    \/ Tick
    \/ Crash

Spec == Init /\ [][Next]_vars
=============================================================================
