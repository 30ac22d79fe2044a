------------------------------ MODULE Accounts ------------------------------
(***************************************************************************)
(* The "users" table of zline_sso (db.rs) as a value, and the statements   *)
(* the handlers run on it.                                                 *)
(*                                                                         *)
(* Each operator below is one SQL statement, and SQLite commits each       *)
(* statement on its own: no handler of the program opens a transaction.    *)
(* The modules that EXTEND this one therefore make every statement a step. *)
(***************************************************************************)
EXTENDS Naturals

CONSTANTS User,              \* usernames (UNIQUE in the table)
          Threshold,         \* account_lockout.failed_attempts_threshold
          LockoutDuration    \* account_lockout.lockout_duration_minutes

ASSUME ThresholdAssumption == Threshold \in Nat \ {0}
ASSUME LockoutDurationAssumption == LockoutDuration \in Nat

-----------------------------------------------------------------------------
\* models::UserState; any other integer in the column reads as Locked.
UserState == {"Normal", "Restricted", "Locked", "BypassExternal"}

\* models::UserFlag, as far as the code ever writes it.
UserFlag == {"Uninitialized", "Normal"}

\* The columns filled from the external system. "student" stands for
\* student_id and gender, which are read together from one CSV line.
ProfileField == {"external_uid", "full_name", "student"}

\* state_description, reduced to who wrote it: nobody (empty), the
\* administrator (build_restriction) or the lockout of a login.
Reason == {"none", "admin", "lockout"}

\* A row. uid 0 is no uuid: it marks a username without a row.
\* end is restriction_end_time in seconds, 0 for NULL.
Row == [uid: Nat, state: UserState, end: Nat, why: Reason,
        failed: Nat, flag: UserFlag, profile: SUBSET ProfileField]

NewRow(uid, profile) ==
    [uid |-> uid, state |-> "Normal", end |-> 0, why |-> "none",
     failed |-> 0, flag |-> "Uninitialized", profile |-> profile]

NoRow == NewRow(0, {})
NoUsers == [u \in User |-> NoRow]

Present(t, u) == t[u].uid # 0
HasUid(t, uid) == \E u \in User : t[u].uid = uid

-----------------------------------------------------------------------------
\* upsert_user: keyed by the username, not by the uid. An existing row loses
\* the profile it had; its state, flag, role and counter are kept.
UpsertUser(t, u, profile, uid) ==
    [t EXCEPT ![u] = IF Present(t, u) THEN [@ EXCEPT !.profile = profile]
                                      ELSE NewRow(uid, profile)]

\* admin's add_user: a plain INSERT, refused by UNIQUE(username).
AddUser(t, u, profile, uid) ==
    IF Present(t, u) THEN t ELSE [t EXCEPT ![u] = NewRow(uid, profile)]

\* The UPDATEs below are all "WHERE uid = ?": they touch no row, and report
\* success, when the account is gone.
RecordLoginSuccess(t, uid) ==
    [u \in User |-> IF t[u].uid = uid THEN [t[u] EXCEPT !.failed = 0] ELSE t[u]]

\* Not the code: a counter of the attempts that are left.
Bug_CountDown(t, uid) ==
    [u \in User |-> IF t[u].uid = uid THEN [t[u] EXCEPT !.failed = @ - 1]
                                      ELSE t[u]]

RecordLoginFailure(t, uid) ==
    [u \in User |-> IF t[u].uid = uid THEN [t[u] EXCEPT !.failed = @ + 1]
                                      ELSE t[u]]

\* The counter is left alone: a released account keeps its failed attempts.
SetUserState(t, uid, state, why, end) ==
    [u \in User |-> IF t[u].uid = uid
                    THEN [t[u] EXCEPT !.state = state, !.why = why, !.end = end]
                    ELSE t[u]]

SetUserFlag(t, uid, flag) ==
    [u \in User |-> IF t[u].uid = uid THEN [t[u] EXCEPT !.flag = flag] ELSE t[u]]

DeleteUid(t, uid) ==
    [u \in User |-> IF t[u].uid = uid THEN NoRow ELSE t[u]]

-----------------------------------------------------------------------------
\* The condition of clear_expired_restriction, on a row read earlier.
Expired(row, time) ==
    /\ row.state \in {"Restricted", "Locked"}
    /\ row.end > 0
    /\ time >= row.end

\* The state clear_expired_restriction answers for that row.
StateAt(row, time) == IF Expired(row, time) THEN "Normal" ELSE row.state

\* Not the code: one failure too early.
Bug_OneTooEarly(row) == row.failed + 2 >= Threshold

\* The test of both login arms, on the counter read before the external
\* verification.
ReachesThreshold(row) == row.failed + 1 >= Threshold

\* The end time of build_restriction: 0 hours is "until lifted by hand".
RestrictionEnd(hours, time) == IF hours > 0 THEN time + hours ELSE 0
=============================================================================
