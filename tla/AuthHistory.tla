---------------------------- MODULE AuthHistory -----------------------------
(***************************************************************************)
(* Auth with history variables, and the properties of the login service    *)
(* that relate what it grants to what happened while it decided.           *)
(*                                                                         *)
(* The history variables only watch: every step of Auth is a step of this  *)
(* module and the other way round.                                         *)
(***************************************************************************)
EXTENDS Auth, FiniteSets

ASSUME RequestAssumption == IsFiniteSet(Request)

VARIABLES accepted,   \* uid a request was accepted for by the external system
          rejected,   \* uid a request was rejected for; 0 if it was not
          admitted    \* what the account allowed since the request began

histVars == <<accepted, rejected, admitted>>
hvars == <<vars, histVars>>

\* What an account in state st admits its user to.
Admits(st) ==
    CASE st = "Normal" -> {"profile", "oauth"}
      [] st = "Restricted" -> {"profile"}
      [] st = "Locked" -> {}
      [] st = "BypassExternal" -> {"profile", "oauth", "unverified"}

\* An unknown name is admitted as the Normal account that is created for it.
AdmitsUser(u) == IF Present(users, u) THEN Admits(StateAt(users[u], now))
                                      ELSE Admits("Normal")

Active(r) == pc[r] \notin {"idle"} \cup Finished

HTypeOK ==
    /\ TypeOK
    /\ accepted \in [Request -> Nat]
    /\ rejected \in [Request -> Nat]
    /\ admitted \in [Request -> SUBSET {"profile", "oauth", "unverified"}]

HInit ==
    /\ Init
    /\ accepted = [r \in Request |-> 0]
    /\ rejected = [r \in Request |-> 0]
    /\ admitted = [r \in Request |-> {}]

\* The stage after a verification tells its verdict.
Verified(r, stages) == pc[r] = "verify" /\ pc'[r] \in stages

Observe ==
    /\ accepted' = [r \in Request |->
          IF Verified(r, {"userinfo", "success"}) THEN local[r].info.uid
                                                 ELSE accepted[r]]
    /\ rejected' = [r \in Request |->
          IF Verified(r, {"reset", "failure"}) THEN local[r].info.uid
                                              ELSE rejected[r]]
    /\ admitted' = [r \in Request |->
          IF Active(r) THEN admitted[r] \cup AdmitsUser(local[r].user)
                       ELSE admitted[r]]

HNext == Next /\ Observe

HSpec == HInit /\ [][HNext]_hvars

-----------------------------------------------------------------------------
RejectedFor(uid) == {r \in Request : rejected[r] = uid}

\* The rejected requests whose failure is no longer to be recorded.
Counted(uid) == {r \in RejectedFor(uid) : pc[r] \notin {"reset", "failure"}}

\* An account is locked by the login service only after at least Threshold
\* different logins of that very account were rejected by the external system:
\* not because a failure was counted twice, because the counter of a deleted
\* account was carried over, or because an accepted login counted.
LockoutJustified ==
    \A u \in User :
        Present(users, u) /\ users[u].why = "lockout" =>
            Cardinality(RejectedFor(users[u].uid)) >= Threshold

\* Concurrent failures are all counted: as long as no login of the account was
\* accepted, its counter is the number of rejected logins that got past their
\* recording. (An increment of the value read before the verification would
\* lose some.) No crash and no failing write is assumed.
FailuresAllCounted ==
    \A u \in User :
        /\ Present(users, u)
        /\ \A r \in Request : accepted[r] # users[u].uid
        => users[u].failed = Cardinality(Counted(users[u].uid))

\* No session without a verification: a user's session was created by a request
\* that the external system accepted, or during which the account was in the
\* BypassExternal state; and at some moment of that request the account was not
\* locked.
SessionJustified ==
    \A s \in session_store :
        ~s.is_admin =>
            \/ accepted[s.id] # 0 /\ "profile" \in admitted[s.id]
            \/ "unverified" \in admitted[s.id]

\* No authorization code for a restricted or locked account: at some moment
\* between the request's start and its end the account allowed OAuth, however
\* administrators, lockouts and expiries interleaved with it.
CodeJustified == \A c \in code_store : "oauth" \in admitted[c.id]

\* Deleting an account leaves no log line behind, also when a login of that
\* account writes its log line between the two statements of the deletion.
LogsOwned == \A uid \in logs : HasUid(users, uid)

\* A restriction that an administrator set without an end.
Untimed(row, st) == row.state = st /\ row.why = "admin" /\ row.end = 0

\* This step is a statement of an administrator's handler.
ByAdministrator == adm' # adm

\* The restriction of u's account is the same after this step.
SameRestriction(u) ==
    users'[u].uid = users[u].uid =>
        users'[u].state = users[u].state /\ users'[u].end = users[u].end

\* A ban without an end holds against every login that begins after it: only an
\* administrator ends it, or a login that read the account before the ban. (Such
\* a login may clear a restriction that has run out, or lock the account for
\* LockoutDuration, and writes over the ban that came in between.)
BanHolds ==
    [][\A u \in User : Untimed(users[u], "Locked") =>
          \/ ByAdministrator
          \/ SameRestriction(u)
          \/ \E r \in Request : /\ pc[r] \in {"check", "lockout"}
                                /\ pc'[r] # pc[r]
                                /\ local[r].info.uid = users[u].uid
                                /\ ~Untimed(local[r].info, "Locked")]_vars

-----------------------------------------------------------------------------
(* Why LockoutJustified holds: the inductive invariant of its proof.       *)

\* Handlers that hold a row, and those that know of a rejection.
AfterRead == {"check", "verify", "userinfo"} \cup Writing
AfterRejection == {"reset", "failure", "failure_log", "lockout"}

\* A counter never runs ahead of the rejections that were recorded.
CounterBacked ==
    \A u \in User : Present(users, u) =>
        users[u].failed <= Cardinality(Counted(users[u].uid))

\* Nor does the copy of a counter that a handler holds; and the rejections it
\* was read from do not include the one the handler is about to record.
SnapshotBacked ==
    \A r \in Request : pc[r] \in AfterRead =>
        /\ local[r].info.uid # 0
        /\ local[r].info.failed
              <= Cardinality(Counted(local[r].info.uid) \ {r})

\* The history of the rejections agrees with the handlers.
RejectionKnown ==
    \A r \in Request :
        /\ pc[r] \in AfterRejection => rejected[r] = local[r].info.uid
        /\ pc[r] \notin AfterRejection \cup Finished => rejected[r] = 0
        /\ pc[r] = "lockout" => ReachesThreshold(local[r].info)

LockoutInv == /\ LockoutJustified
              /\ CounterBacked
              /\ SnapshotBacked
              /\ RejectionKnown
=============================================================================
