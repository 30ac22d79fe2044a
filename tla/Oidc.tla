-------------------------------- MODULE Oidc --------------------------------
(***************************************************************************)
(* Sessions, authorization codes and tokens of zline_sso: the in-memory     *)
(* stores of AppState, the token endpoint of oidc.rs and the cleanup task   *)
(* of main.rs.                                                              *)
(*                                                                         *)
(* The token endpoint holds the mutex of code_store from its lookup to its  *)
(* end; every other use of a store is one locked statement. Whether a user  *)
(* may have a session or a code is the subject of Auth, not of this module. *)
(***************************************************************************)
EXTENDS Naturals

CONSTANTS User, Client, Redirect,
          Registered,      \* <<client, uri>>: the uri matches an entry of the
                           \* client's redirect_uris (utils::redirect_matches)
          Authorization,   \* login and continue requests, each used once
          Exchange,        \* token requests, each used once
          None,
          CodeTTL, SessionTTL, TokenTTL,
          ClockMayStep,    \* may the wall clock be set back?
          MaxTime,         \* bound of the clock
          MaxKeys          \* bound of the starts of the process

ASSUME RegisteredAssumption == Registered \subseteq Client \X Redirect
ASSUME NumbersAssumption == /\ CodeTTL \in Nat
                            /\ SessionTTL \in Nat
                            /\ TokenTTL \in Nat
                            /\ MaxTime \in Nat
                            /\ MaxKeys \in Nat \ {0}
ASSUME ClockAssumption == ClockMayStep \in BOOLEAN

VARIABLES session_store,   \* AppState.session_store
          code_store,      \* AppState.code_store
          code_lock,       \* who holds the mutex of code_store
          auth,            \* the login and continue requests
          exchange,        \* the token requests
          tokens,          \* what each token request answered
          cleaner,         \* the store the cleanup task turns to next
          keys,            \* AppState.keys: one key per start of the process
          clock            \* the wall clock

vars == <<session_store, code_store, code_lock, auth, exchange, tokens,
          cleaner, keys, clock>>

-----------------------------------------------------------------------------
\* Sessions and codes are named by the request that created them, which has a
\* fresh uuid for each. The redirect of a code is the one of its authorization
\* request; the program does not store it.
Session == [id: Authorization, user: User, created_at: Nat]
Code == [id: Authorization, user: User, client: Client, redirect: Redirect,
         created_at: Nat]

\* An access token and the id token that comes with it. Each authorization
\* request has a nonce of its own.
Token == [nonce: Authorization, user: User, client: Client, kid: Nat, exp: Nat]

ASSUME NoneAssumption == None \notin User \cup Client \cup Exchange \cup Token

\* A login or continue request. Without a client it is for the user centre.
AuthStage == {"idle", "session", "code", "granted", "done"}
AuthLocal == [stage: AuthStage, user: User \cup {None},
              client: Client \cup {None}, redirect: Redirect \cup {None}]
NoAuth == [stage |-> "idle", user |-> None, client |-> None, redirect |-> None]

\* A token request, and its copies of the stored code and of the token.
ExchangeStage == {"idle", "lookup", "sign", "remove", "done"}
ExchangeLocal == [stage: ExchangeStage, code: Authorization \cup {None},
                  client: Client \cup {None}, redirect: Redirect \cup {None},
                  session: Code \cup {None}, token: Token \cup {None}]
NoExchange == [stage |-> "idle", code |-> None, client |-> None,
               redirect |-> None, session |-> None, token |-> None]

OTypeOK ==
    /\ session_store \in SUBSET Session
    /\ code_store \in SUBSET Code
    /\ code_lock \in Exchange \cup {None}
    /\ auth \in [Authorization -> AuthLocal]
    /\ exchange \in [Exchange -> ExchangeLocal]
    /\ tokens \in [Exchange -> Token \cup {None}]
    /\ cleaner \in {"sessions", "codes"}
    /\ keys \in Nat
    /\ clock \in Nat

Init ==
    /\ session_store = {}
    /\ code_store = {}
    /\ code_lock = None
    /\ auth = [a \in Authorization |-> NoAuth]
    /\ exchange = [x \in Exchange |-> NoExchange]
    /\ tokens = [x \in Exchange |-> None]
    /\ cleaner = "sessions"
    /\ keys = 1
    /\ clock = 0

\* SystemTime::elapsed fails when the clock was set back past the creation;
\* the handlers take that for "not expired".
Elapsed(t) == IF clock >= t THEN clock - t ELSE 0

\* Bound: nothing is created so late that it could not expire.
CanExpire(ttl) == clock + ttl <= MaxTime

-----------------------------------------------------------------------------
(* Getting a session and a code.                                           *)

\* login_handler, admitted: for the user centre or for an application whose
\* redirect URI is registered.
LoginBegin(a) ==
    /\ auth[a].stage = "idle"
    /\ \E u \in User, app \in Registered \cup {<<None, None>>} :
          auth' = [auth EXCEPT ![a] = [stage |-> "session", user |-> u,
                                       client |-> app[1], redirect |-> app[2]]]
    /\ UNCHANGED <<session_store, code_store, code_lock, exchange, tokens,
                   cleaner, keys, clock>>

NewSession(a) ==
    /\ auth[a].stage = "session"
    /\ CanExpire(SessionTTL)
    /\ session_store' = session_store \cup
          {[id |-> a, user |-> auth[a].user, created_at |-> clock]}
    /\ auth' = [auth EXCEPT ![a].stage =
                  IF auth[a].client = None THEN "done" ELSE "code"]
    /\ UNCHANGED <<code_store, code_lock, exchange, tokens, cleaner, keys,
                   clock>>

\* continue_handler for an application: it looks the session up once, and does
\* not look at its age.
ContinueBegin(a, s) ==
    /\ auth[a].stage = "idle"
    /\ \E app \in Registered :
          auth' = [auth EXCEPT ![a] = [stage |-> "code", user |-> s.user,
                                       client |-> app[1], redirect |-> app[2]]]
    /\ UNCHANGED <<session_store, code_store, code_lock, exchange, tokens,
                   cleaner, keys, clock>>

\* handle_login_response.
IssueCode(a) ==
    /\ auth[a].stage = "code"
    /\ code_lock = None
    /\ CanExpire(CodeTTL)
    /\ code_store' = code_store \cup
          {[id |-> a, user |-> auth[a].user, client |-> auth[a].client,
            redirect |-> auth[a].redirect, created_at |-> clock]}
    /\ auth' = [auth EXCEPT ![a].stage = "granted"]
    /\ UNCHANGED <<session_store, code_lock, exchange, tokens, cleaner, keys,
                   clock>>

Logout(s) ==
    /\ session_store' = session_store \ {s}
    /\ UNCHANGED <<code_store, code_lock, auth, exchange, tokens, cleaner,
                   keys, clock>>

-----------------------------------------------------------------------------
(* The token endpoint.                                                     *)

\* A request with a valid client secret. It may name any code, also one that
\* is not issued yet: no code of that name exists then.
ExchangeBegin(x) ==
    /\ exchange[x].stage = "idle"
    /\ \E code \in Authorization, client \in Client, redirect \in Redirect :
          exchange' = [exchange EXCEPT ![x] =
             [NoExchange EXCEPT !.stage = "lookup", !.code = code,
                                !.client = client, !.redirect = redirect]]
    /\ UNCHANGED <<session_store, code_store, code_lock, auth, tokens, cleaner,
                   keys, clock>>

\* Not the code: the client of the code not compared with that of the request.
Bug_AnyClient(c, x) ==
    /\ c.id = exchange[x].code
    /\ Elapsed(c.created_at) <= CodeTTL
    /\ <<c.client, exchange[x].redirect>> \in Registered

\* The checks that a stored code passes for a request.
Redeemable(c, x) ==
    /\ c.id = exchange[x].code
    /\ c.client = exchange[x].client
    /\ Elapsed(c.created_at) <= CodeTTL
    /\ <<c.client, exchange[x].redirect>> \in Registered

\* Not the code: the mutex given back after the lookup.
Bug_LookupUnlocked(x) ==
    /\ exchange[x].stage = "lookup"
    /\ code_lock = None
    /\ \E c \in code_store :
          /\ Redeemable(c, x)
          /\ exchange' = [exchange EXCEPT ![x].stage = "sign",
                                          ![x].session = c]
    /\ UNCHANGED <<session_store, code_store, code_lock, auth, tokens, cleaner,
                   keys, clock>>

\* The lookup and the checks; the mutex is kept.
Lookup(x) ==
    /\ exchange[x].stage = "lookup"
    /\ code_lock = None
    /\ \E c \in code_store :
          /\ Redeemable(c, x)
          /\ exchange' = [exchange EXCEPT ![x].stage = "sign",
                                          ![x].session = c]
    /\ code_lock' = x
    /\ UNCHANGED <<session_store, code_store, auth, tokens, cleaner, keys,
                   clock>>

\* Not the code: a code taken from the store by the first attempt at it.
Bug_RefuseConsumes(x) ==
    /\ \/ /\ exchange[x].stage = "lookup"
          /\ code_lock = None
          /\ \A c \in code_store : ~Redeemable(c, x)
       \/ exchange[x].stage = "sign"
    /\ exchange' = [exchange EXCEPT ![x].stage = "done"]
    /\ code_store' = {c \in code_store : c.id # exchange[x].code}
    /\ code_lock' = None
    /\ UNCHANGED <<session_store, auth, tokens, cleaner, keys, clock>>

\* An error is answered, with the mutex given back. The code stays.
Refuse(x) ==
    /\ \/ /\ exchange[x].stage = "lookup"
          /\ code_lock = None
          /\ \A c \in code_store : ~Redeemable(c, x)
       \/ exchange[x].stage = "sign"       \* the signing fails
    /\ exchange' = [exchange EXCEPT ![x].stage = "done"]
    /\ code_lock' = None
    /\ UNCHANGED <<session_store, code_store, auth, tokens, cleaner, keys,
                   clock>>

Sign(x) ==
    /\ exchange[x].stage = "sign"
    /\ LET c == exchange[x].session
       IN  exchange' = [exchange EXCEPT
             ![x].stage = "remove",
             ![x].token = [nonce |-> c.id, user |-> c.user,
                           client |-> exchange[x].client, kid |-> keys,
                           exp |-> clock + TokenTTL]]
    /\ UNCHANGED <<session_store, code_store, code_lock, auth, tokens, cleaner,
                   keys, clock>>

\* Not the code: the stored session answered in place of the tokens.
Bug_AnswerStored(x) ==
    /\ exchange[x].stage = "remove"
    /\ code_store' = {c \in code_store : c.id # exchange[x].code}
    /\ tokens' = [tokens EXCEPT ![x] = exchange[x].session]
    /\ exchange' = [exchange EXCEPT ![x].stage = "done"]
    /\ code_lock' = None
    /\ UNCHANGED <<session_store, auth, cleaner, keys, clock>>

\* The code is consumed and the tokens are answered.
Remove(x) ==
    /\ exchange[x].stage = "remove"
    /\ code_store' = {c \in code_store : c.id # exchange[x].code}
    /\ tokens' = [tokens EXCEPT ![x] = exchange[x].token]
    /\ exchange' = [exchange EXCEPT ![x].stage = "done"]
    /\ code_lock' = None
    /\ UNCHANGED <<session_store, auth, cleaner, keys, clock>>

-----------------------------------------------------------------------------
(* cleanup_expired, once a minute: first the sessions, then the codes.      *)

\* Not the code: the comparison of retain the wrong way round.
Bug_RetainExpired ==
    /\ cleaner = "sessions"
    /\ session_store' = {s \in session_store :
                            Elapsed(s.created_at) >= SessionTTL}
    /\ cleaner' = "codes"
    /\ UNCHANGED <<code_store, code_lock, auth, exchange, tokens, keys, clock>>

CleanSessions ==
    /\ cleaner = "sessions"
    /\ session_store' = {s \in session_store :
                            Elapsed(s.created_at) < SessionTTL}
    /\ cleaner' = "codes"
    /\ UNCHANGED <<code_store, code_lock, auth, exchange, tokens, keys, clock>>

\* Not the code: the codes retained without the mutex.
Bug_CleanWithoutLock ==
    /\ cleaner = "codes"
    /\ code_store' = {c \in code_store : Elapsed(c.created_at) < CodeTTL}
    /\ cleaner' = "sessions"
    /\ UNCHANGED <<session_store, code_lock, auth, exchange, tokens, keys,
                   clock>>

\* Not the code: nothing is cleaned while nobody is logged in.
Bug_CleanWhileLoggedIn ==
    /\ cleaner = "codes"
    /\ code_lock = None
    /\ code_store' = {c \in code_store : \/ session_store = {}
                                         \/ Elapsed(c.created_at) < CodeTTL}
    /\ cleaner' = "sessions"
    /\ UNCHANGED <<session_store, code_lock, auth, exchange, tokens, keys,
                   clock>>

CleanCodes ==
    /\ cleaner = "codes"
    /\ code_lock = None
    /\ code_store' = {c \in code_store : Elapsed(c.created_at) < CodeTTL}
    /\ cleaner' = "sessions"
    /\ UNCHANGED <<session_store, code_lock, auth, exchange, tokens, keys,
                   clock>>

-----------------------------------------------------------------------------
\* Not the code: the signing key of the last start read back from a file.
Bug_KeepKey ==
    /\ keys < MaxKeys
    /\ keys' = keys
    /\ session_store' = {}
    /\ code_store' = {}
    /\ code_lock' = None
    /\ auth' = [a \in Authorization |->
                  IF auth[a].stage \in {"idle", "granted"} THEN auth[a]
                  ELSE [auth[a] EXCEPT !.stage = "done"]]
    /\ exchange' = [x \in Exchange |->
                      IF exchange[x].stage = "idle" THEN exchange[x]
                      ELSE [exchange[x] EXCEPT !.stage = "done"]]
    /\ cleaner' = "sessions"
    /\ UNCHANGED <<tokens, clock>>

\* The process stops and starts again: new stores, a new key.
Restart ==
    /\ keys < MaxKeys
    /\ keys' = keys + 1
    /\ session_store' = {}
    /\ code_store' = {}
    /\ code_lock' = None
    /\ auth' = [a \in Authorization |->
                  IF auth[a].stage \in {"idle", "granted"} THEN auth[a]
                  ELSE [auth[a] EXCEPT !.stage = "done"]]
    /\ exchange' = [x \in Exchange |->
                      IF exchange[x].stage = "idle" THEN exchange[x]
                      ELSE [exchange[x] EXCEPT !.stage = "done"]]
    /\ cleaner' = "sessions"
    /\ UNCHANGED <<tokens, clock>>

Tick ==
    /\ clock < MaxTime
    /\ clock' = clock + 1
    /\ UNCHANGED <<session_store, code_store, code_lock, auth, exchange,
                   tokens, cleaner, keys>>

StepBack ==
    /\ ClockMayStep
    /\ clock > 0
    /\ clock' = clock - 1
    /\ UNCHANGED <<session_store, code_store, code_lock, auth, exchange,
                   tokens, cleaner, keys>>

AuthStep(a) ==
    \/ LoginBegin(a) \/ NewSession(a) \/ IssueCode(a)
    \/ \E s \in session_store : ContinueBegin(a, s)

\* The steps of a token request under way.
ExchangeStep(x) == Lookup(x) \/ Refuse(x) \/ Sign(x) \/ Remove(x)

Cleanup == CleanSessions \/ CleanCodes

Next ==
    \/ \E a \in Authorization : AuthStep(a)
    \/ \E s \in session_store : Logout(s)
    \/ \E x \in Exchange : ExchangeBegin(x) \/ ExchangeStep(x)
    \/ Cleanup
    \/ Restart
    \/ Tick
    \/ StepBack

Spec == Init /\ [][Next]_vars

-----------------------------------------------------------------------------
\* A token request that passed the checks owns its code until it ends: nobody
\* else takes, drops or replaces it, and no second request holds the mutex.
HolderOwnsCode ==
    \A x \in Exchange : exchange[x].stage \in {"sign", "remove"} =>
        code_lock = x /\ exchange[x].session \in code_store

\* A code is not spoilt: it leaves the store with tokens for its own client and
\* user, at the end of its life, or with the process. Requests of other clients,
\* wrong redirects, failed signatures and the logout of its user leave it there.
Redeemed(c) ==
    \E x \in Exchange : /\ tokens[x] = None
                        /\ tokens'[x] # None
                        /\ tokens'[x].nonce = c.id
                        /\ tokens'[x].user = c.user
                        /\ tokens'[x].client = c.client
CodeNotSpoilt ==
    [][\A c \in code_store :
          \/ c \in code_store'
          \/ Redeemed(c)
          \/ Elapsed(c.created_at) >= CodeTTL
          \/ keys' # keys]_vars

\* The token endpoint keeps the promise of one-time codes: together with the
\* mutex, its checks give each code to one request of the right client at most,
\* with the user and the nonce of the code, whatever the cleanup, a restart and
\* concurrent token requests do.
GrantOf(c) == [nonce |-> c.id, user |-> c.user, client |-> c.client]
Promise == INSTANCE OneTimeCode WITH
    outstanding <- {GrantOf(c) : c \in code_store},
    spent <- {a \in Authorization : auth[a].stage = "granted"},
    redeemed <- [x \in Exchange |-> IF tokens[x] = None THEN None
                   ELSE [nonce |-> tokens[x].nonce, user |-> tokens[x].user,
                         client |-> tokens[x].client]],
    NoGrant <- None
CodesOnce == Promise!Spec

=============================================================================
