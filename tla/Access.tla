------------------------------- MODULE Access -------------------------------
(***************************************************************************)
(* What zline_sso lets be read about an account, from the reading of its    *)
(* state at a login to the answer of the userinfo endpoint.                 *)
(*                                                                         *)
(* Composes Oidc (sessions, codes, tokens, cleanup, restarts) with the      *)
(* state of the accounts, the configuration a start reads, and userinfo.    *)
(* Neither a code nor a token nor a session is taken back when its account  *)
(* changes, and userinfo does not look at the state of the account: what    *)
(* bounds the access of a locked account is the way it was come by.         *)
(***************************************************************************)
EXTENDS Oidc

CONSTANTS Request,        \* userinfo requests, each used once
          Field,          \* what return_extra_userinfo can name
          Configuration,  \* whitelists a start may find: each gives every
                          \* client its return_extra_userinfo
          Leeway          \* by which jsonwebtoken lets a token outlive its exp

ASSUME ConfigurationAssumption ==
    Configuration \subseteq [Client -> SUBSET Field]
ASSUME LeewayAssumption == Leeway \in Nat

VARIABLES account,    \* the state of each user's row
          whitelist,  \* AppState.config: return_extra_userinfo by client
          request,    \* the userinfo requests under way
          answer      \* what each userinfo request was answered

VARIABLES shown,      \* history: the whitelist an authorization was given under
          earlier,    \* history: for a locked account, the login and continue
                      \* requests that had read it before it was locked
          cut         \* history: accounts locked since before the last start

accountVars == <<account, whitelist, request, answer>>
historyVars == <<shown, earlier, cut>>
avars == <<vars, accountVars, historyVars>>

-----------------------------------------------------------------------------
\* models::UserState, and "absent" for no row. BypassExternal differs from
\* Normal before the account is read only.
AccountState == {"absent", "Normal", "Restricted", "Locked"}

\* A userinfo request with the token it has verified, named by the token
\* request that got it; and what it answered.
RequestLocal == [stage: {"idle", "read", "done"}, by: Exchange \cup {None}]
NoRequest == [stage |-> "idle", by |-> None]
Answer == [by: Exchange, fields: SUBSET Field]

ATypeOK ==
    /\ OTypeOK
    /\ account \in [User -> AccountState]
    /\ whitelist \in Configuration
    /\ request \in [Request -> RequestLocal]
    /\ answer \in [Request -> Answer \cup {None}]
    /\ shown \in [Authorization -> SUBSET Field]
    /\ earlier \in [User -> SUBSET Authorization]
    /\ cut \in SUBSET User

AInit ==
    /\ Init
    /\ account = [u \in User |-> "absent"]
    /\ whitelist \in Configuration
    /\ request = [q \in Request |-> NoRequest]
    /\ answer = [q \in Request |-> None]
    /\ shown = [a \in Authorization |-> {}]
    /\ earlier = [u \in User |-> {}]
    /\ cut = {}

-----------------------------------------------------------------------------
(* Login and continue, with the reading of the account.                    *)

\* What an account in state st admits its user to: an application, or (client
\* None) the user centre. An unknown user gets an account.
Admits(st, client) == \/ st \in {"absent", "Normal"}
                      \/ st = "Restricted" /\ client = None

\* Request a, which begins with this step, reads the account and is admitted.
\* (A login goes on to the external verification, which takes any time.)
Admit(a) ==
    LET u == auth'[a].user
    IN  /\ Admits(account[u], auth'[a].client)
        /\ account' = [account EXCEPT ![u] = IF @ = "absent" THEN "Normal"
                                                              ELSE @]
        /\ UNCHANGED <<whitelist, request, answer, historyVars>>

Login(a) == LoginBegin(a) /\ Admit(a)

\* Not the code: a session taken for enough.
Bug_ContinueBySession(a) ==
    /\ \E s \in session_store : ContinueBegin(a, s)
    /\ UNCHANGED <<accountVars, historyVars>>

Continue(a) == \E s \in session_store : ContinueBegin(a, s) /\ Admit(a)

Issue(a) ==
    /\ IssueCode(a)
    /\ shown' = [shown EXCEPT ![a] = whitelist[auth[a].client]]
    /\ UNCHANGED <<accountVars, earlier, cut>>

-----------------------------------------------------------------------------
\* u's row changes: an administrator's operation, a lockout, a restriction that
\* has run out, a deletion, an account added. Nothing else is touched.
SetAccount(u) ==
    /\ \E st \in AccountState \ {account[u]} :
          /\ account[u] = "absent" => st = "Normal"
          /\ account' = [account EXCEPT ![u] = st]
          /\ earlier' = [earlier EXCEPT ![u] =
                IF st = "Locked" THEN {a \in Authorization : auth[a].user = u}
                                 ELSE {}]
    /\ cut' = cut \ {u}
    /\ UNCHANGED <<vars, whitelist, request, answer, shown>>

-----------------------------------------------------------------------------
(* userinfo_handler.                                                       *)

\* Not the code: validate_exp switched off along with validate_aud.
Bug_NoExpiry(token) == token.kid = keys

\* jsonwebtoken accepts the token: the key of this start, not expired.
Valid(token) == token.kid = keys /\ clock <= token.exp + Leeway

UserinfoVerify(q, x) ==
    /\ request[q].stage = "idle"
    /\ tokens[x] # None
    /\ Valid(tokens[x])
    /\ request' = [request EXCEPT ![q] = [stage |-> "read", by |-> x]]
    /\ UNCHANGED <<vars, account, whitelist, answer, historyVars>>

\* The row is read by the username of the token. There may be none, or its
\* account may be locked: the fields the client is entitled to are answered all
\* the same, empty if there is no row. No connection: an error is answered.
UserinfoAnswer(q) ==
    /\ request[q].stage = "read"
    /\ request' = [request EXCEPT ![q] = [NoRequest EXCEPT !.stage = "done"]]
    /\ \/ LET x == request[q].by
          IN  answer' = [answer EXCEPT ![q] =
                [by |-> x, fields |-> whitelist[tokens[x].client]]]
       \/ UNCHANGED answer
    /\ UNCHANGED <<vars, account, whitelist, historyVars>>

-----------------------------------------------------------------------------
\* A start reads the configuration anew and keeps the table.
Start ==
    /\ Restart
    /\ whitelist' \in Configuration
    /\ request' = [q \in Request |->
                     IF request[q].stage = "read"
                     THEN [NoRequest EXCEPT !.stage = "done"] ELSE request[q]]
    /\ cut' = {u \in User : account[u] = "Locked"}
    /\ UNCHANGED <<account, answer, shown, earlier>>

\* Assumption: between its look at the age of a code and the issue of the
\* tokens a token request computes for less than the unit of the clock.
Pass == Tick /\ \A x \in Exchange : exchange[x].stage # "sign"

\* The steps of Oidc that neither read nor change an account.
Elsewhere ==
    /\ \/ \E a \in Authorization : NewSession(a)
       \/ \E s \in session_store : Logout(s)
       \/ \E x \in Exchange : ExchangeBegin(x) \/ ExchangeStep(x)
       \/ Cleanup
       \/ Pass
       \/ StepBack
    /\ UNCHANGED <<accountVars, historyVars>>

ANext ==
    \/ \E a \in Authorization : Login(a) \/ Continue(a) \/ Issue(a)
    \/ \E u \in User : SetAccount(u)
    \/ \E q \in Request : \/ UserinfoAnswer(q)
                          \/ \E x \in Exchange : UserinfoVerify(q, x)
    \/ Start
    \/ Elsewhere

ASpec == AInit /\ [][ANext]_avars

-----------------------------------------------------------------------------
\* profile_api_handler answers u's profile to every session of u in the store:
\* it looks at neither the age of the session nor the state of the account.
ProfileReaders(u) == {s.id : s \in {t \in session_store : t.user = u}}

\* The login and continue requests through which u's account can be read now,
\* or from which something that can read it may still come: those under way,
\* and the sessions, codes, token requests, tokens and userinfo requests that
\* came from them.
Reach(u) ==
    {a \in Authorization : /\ auth[a].user = u
                           /\ auth[a].stage \in {"session", "code"}}
    \cup ProfileReaders(u)
    \cup {c.id : c \in {d \in code_store : d.user = u}}
    \cup {exchange[x].session.id : x \in
            {y \in Exchange : /\ exchange[y].stage \in {"sign", "remove"}
                              /\ exchange[y].session.user = u}}
    \cup {tokens[x].nonce : x \in
            {y \in Exchange : /\ tokens[y] # None
                              /\ tokens[y].user = u
                              /\ \/ Valid(tokens[y])
                                 \/ \E q \in Request : request[q].by = y}}

\* A lock holds for everything that comes after it: whatever can read a locked
\* account goes back to a login or continue request that had read the account
\* before it was locked. No session, and no chain of continue, code, token and
\* userinfo, leads around the lock.
LockHolds ==
    \A u \in User : account[u] = "Locked" => Reach(u) \subseteq earlier[u]

\* Locking an account and starting the service anew ends all access at once:
\* no session, code, token or half-finished request of before is left.
RestartRevokes == \A u \in cut : Reach(u) = {}

\* The access through a code ends by itself: userinfo takes its token only
\* within the lives of the code and of the token (and the leeway) after the code
\* was issued, whatever happened to the account.
AccessBounded ==
    \A x \in Exchange : tokens[x] # None /\ Valid(tokens[x]) =>
        clock <= exchange[x].session.created_at + CodeTTL + TokenTTL + Leeway

\* A client is answered the fields that were configured for it when the user
\* signed in to it, no others: not those of another client the code got to,
\* and not those of a later configuration.
FieldsAuthorized ==
    \A q \in Request : answer[q] # None =>
        answer[q].fields \subseteq shown[tokens[answer[q].by].nonce]
=============================================================================
