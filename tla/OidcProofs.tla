----------------------------- MODULE OidcProofs -----------------------------
(***************************************************************************)
(* Theorems about sessions, authorization codes, tokens and what they are   *)
(* good for, for every set of users, clients, fields, configurations and    *)
(* requests, every clock, every life of codes and tokens and any number of  *)
(* restarts. Three parts:                                                   *)
(*   1. the stores and the token endpoint (Oidc);                           *)
(*   2. the cleanup task with the GeoIP cache beside the stores             *)
(*      (Housekeeping);                                                     *)
(*   3. what can be read of an account (Access).                            *)
(* Housekeeping and Access both implement Oidc, so that what part 1 proves  *)
(* holds of them as well.                                                   *)
(***************************************************************************)
EXTENDS Access, Housekeeping, TLAPS

-----------------------------------------------------------------------------
(* PART 1. The stores and the token endpoint.                               *)

-----------------------------------------------------------------------------
(* The inductive invariant. The types alone know neither what the mutex is  *)
(* for nor that a name stands for one code.                                 *)

\* A request under way has a user, and one about to issue a code an application.
Admitted(a) ==
    /\ auth[a].stage \in {"session", "code"} => auth[a].user \in User
    /\ auth[a].stage = "session" =>
          <<auth[a].client, auth[a].redirect>> \in Registered \cup {<<None, None>>}
    /\ auth[a].stage = "code" =>
          <<auth[a].client, auth[a].redirect>> \in Registered

\* A code is its request's only one.
Unique ==
    /\ \A c \in code_store : auth[c.id].stage = "granted"
    /\ \A c, d \in code_store : c.id = d.id => c = d

\* A token request past its checks has the mutex, and the code is still there.
Holding(x) ==
    exchange[x].stage \in {"sign", "remove"} =>
        /\ code_lock = x
        /\ exchange[x].session \in code_store
        /\ exchange[x].session.id = exchange[x].code
        /\ exchange[x].session.client = exchange[x].client

\* What it is about to answer is for its code.
Signed(x) ==
    exchange[x].stage = "remove" =>
        /\ exchange[x].token \in Token
        /\ exchange[x].token.nonce = exchange[x].session.id
        /\ exchange[x].token.user = exchange[x].session.user
        /\ exchange[x].token.client = exchange[x].session.client

Unanswered(x) == exchange[x].stage # "done" => tokens[x] = None

OInv ==
    /\ OTypeOK
    /\ \A a \in Authorization : Admitted(a)
    /\ Unique
    /\ \A x \in Exchange : Holding(x) /\ Signed(x) /\ Unanswered(x)

LEMMA InitInv == Init => OInv /\ Promise!Init
<1> SUFFICES ASSUME Init PROVE OInv /\ Promise!Init
  OBVIOUS
<1>1. NoAuth \in AuthLocal /\ NoExchange \in ExchangeLocal
  BY DEF NoAuth, AuthLocal, AuthStage, NoExchange, ExchangeLocal, ExchangeStage
<1>2. OTypeOK
  BY <1>1 DEF Init, OTypeOK
<1>3. \A a \in Authorization : Admitted(a)
  BY DEF Init, Admitted, NoAuth
<1>4. \A x \in Exchange : Holding(x) /\ Signed(x) /\ Unanswered(x)
  BY DEF Init, Holding, Signed, Unanswered, NoExchange
<1>5. Promise!Init
  BY DEF Init, Promise!Init, NoAuth
<1> QED
  BY <1>2, <1>3, <1>4, <1>5 DEF OInv, Unique, Init

-----------------------------------------------------------------------------
(* The steps of login and continue.                                        *)

\* One request moves on and no code is touched: the codes of the others stand.
LEMMA AuthMoves ==
    ASSUME OInv, NEW a \in Authorization, NEW r \in AuthLocal,
           auth' = [auth EXCEPT ![a] = r],
           auth[a].stage # "granted", Admitted(a)',
           session_store' \in SUBSET Session,
           UNCHANGED <<code_store, code_lock, exchange, tokens, cleaner, keys,
                       clock>>
    PROVE  OInv'
<1> USE DEF OInv
<1>1. auth' \in [Authorization -> AuthLocal]
  BY DEF OTypeOK
<1>2. OTypeOK'
  BY <1>1 DEF OTypeOK
<1>3. \A b \in Authorization \ {a} : auth'[b] = auth[b]
  BY DEF OTypeOK
<1>4. \A b \in Authorization : Admitted(b)'
  <2> SUFFICES ASSUME NEW b \in Authorization, b # a PROVE Admitted(b)'
    OBVIOUS
  <2> QED
    BY <1>3 DEF Admitted
<1>5. Unique'
  <2>1. \A c \in code_store : c.id \in Authorization \ {a}
    BY DEF Unique, OTypeOK, Code
  <2> QED
    BY <1>3, <2>1 DEF Unique
<1>6. \A x \in Exchange : Holding(x)' /\ Signed(x)' /\ Unanswered(x)'
  BY DEF Holding, Signed, Unanswered
<1> QED
  BY <1>2, <1>4, <1>5, <1>6

\* The outcome of a step that neither the codes nor the answers see.
Unseen == UNCHANGED Promise!vars

LEMMA AuthUnseen ==
    ASSUME OInv, NEW a \in Authorization, NEW r \in AuthLocal,
           auth' = [auth EXCEPT ![a] = r],
           auth[a].stage # "granted", r.stage # "granted",
           UNCHANGED <<code_store, tokens>>
    PROVE  Unseen
<1>1. \A b \in Authorization : auth'[b].stage = "granted" <=> auth[b].stage = "granted"
  BY DEF OInv, OTypeOK
<1>2. {b \in Authorization : auth'[b].stage = "granted"}
         = {b \in Authorization : auth[b].stage = "granted"}
  BY <1>1
<1> QED
  BY <1>2 DEF Unseen, Promise!vars

LEMMA StepLoginBegin ==
    ASSUME OInv, NEW a \in Authorization, LoginBegin(a) PROVE OInv' /\ Unseen
<1>1. PICK u \in User, app \in Registered \cup {<<None, None>>} :
         auth' = [auth EXCEPT ![a] = [stage |-> "session", user |-> u,
                                      client |-> app[1], redirect |-> app[2]]]
  BY DEF LoginBegin
<1> DEFINE r == [stage |-> "session", user |-> u, client |-> app[1],
                 redirect |-> app[2]]
<1>2. r \in AuthLocal /\ r.stage = "session" /\ r.user \in User
         /\ <<r.client, r.redirect>> \in Registered \cup {<<None, None>>}
  BY RegisteredAssumption DEF AuthLocal, AuthStage
<1>3. auth' = [auth EXCEPT ![a] = r]
  BY <1>1
<1> HIDE DEF r
<1>4. Admitted(a)'
  BY <1>2, <1>3 DEF Admitted, OInv, OTypeOK
<1>5. session_store' \in SUBSET Session
  BY DEF LoginBegin, OInv, OTypeOK
<1> QED
  BY <1>2, <1>3, <1>4, <1>5, AuthMoves, AuthUnseen DEF LoginBegin

LEMMA StepContinueBegin ==
    ASSUME OInv, NEW a \in Authorization, NEW s \in session_store,
           ContinueBegin(a, s)
    PROVE  OInv' /\ Unseen
<1>1. PICK app \in Registered :
         auth' = [auth EXCEPT ![a] = [stage |-> "code", user |-> s.user,
                                      client |-> app[1], redirect |-> app[2]]]
  BY DEF ContinueBegin
<1> DEFINE r == [stage |-> "code", user |-> s.user, client |-> app[1],
                 redirect |-> app[2]]
<1>2. s.user \in User
  BY DEF OInv, OTypeOK, Session
<1>3. r \in AuthLocal /\ r.stage = "code" /\ r.user \in User
         /\ <<r.client, r.redirect>> \in Registered
  BY <1>2, RegisteredAssumption DEF AuthLocal, AuthStage
<1>4. auth' = [auth EXCEPT ![a] = r]
  BY <1>1
<1> HIDE DEF r
<1>5. Admitted(a)'
  BY <1>3, <1>4 DEF Admitted, OInv, OTypeOK
<1>6. session_store' \in SUBSET Session
  BY DEF ContinueBegin, OInv, OTypeOK
<1> QED
  BY <1>3, <1>4, <1>5, <1>6, AuthMoves, AuthUnseen DEF ContinueBegin

LEMMA StepNewSession ==
    ASSUME OInv, NEW a \in Authorization, NewSession(a) PROVE OInv' /\ Unseen
<1> DEFINE stage == IF auth[a].client = None THEN "done" ELSE "code"
           r == [auth[a] EXCEPT !.stage = stage]
<1>1. auth[a] \in AuthLocal /\ Admitted(a) /\ auth[a].stage = "session"
  BY DEF OInv, OTypeOK, NewSession
<1>2. r \in AuthLocal /\ r.stage = stage /\ r.user = auth[a].user
         /\ r.client = auth[a].client /\ r.redirect = auth[a].redirect
  BY <1>1 DEF AuthLocal, AuthStage
<1>3. auth' = [auth EXCEPT ![a] = r]
  BY DEF NewSession, OInv, OTypeOK
<1>4. stage = "code" => <<auth[a].client, auth[a].redirect>> \in Registered
  BY <1>1 DEF Admitted
<1>5. stage \in {"done", "code"}
  OBVIOUS
<1> HIDE DEF r, stage
<1>6. Admitted(a)'
  BY <1>1, <1>2, <1>3, <1>4, <1>5 DEF Admitted, OInv, OTypeOK
<1>7. session_store' \in SUBSET Session
  BY <1>1 DEF NewSession, OInv, OTypeOK, Session, Admitted
<1> QED
  BY <1>1, <1>2, <1>3, <1>5, <1>6, <1>7, AuthMoves, AuthUnseen DEF NewSession

\* A new code is the first of its request.
LEMMA StepIssueCode ==
    ASSUME OInv, NEW a \in Authorization, IssueCode(a)
    PROVE  OInv' /\ Promise!Next
<1> USE DEF OInv
<1> DEFINE n == [id |-> a, user |-> auth[a].user, client |-> auth[a].client,
                 redirect |-> auth[a].redirect, created_at |-> clock]
<1>1. auth[a] \in AuthLocal /\ Admitted(a) /\ auth[a].stage = "code"
  BY DEF OTypeOK, IssueCode
<1>2. /\ auth[a].user \in User /\ auth[a].client \in Client
      /\ auth[a].redirect \in Redirect
  BY <1>1, RegisteredAssumption DEF Admitted
<1>3. n \in Code /\ n.id = a /\ n.user = auth[a].user /\ n.client = auth[a].client
  BY <1>2 DEF Code, OTypeOK
<1>4. code_store' = code_store \cup {n}
  BY DEF IssueCode
<1> HIDE DEF n
<1>5. auth' = [auth EXCEPT ![a] = [auth[a] EXCEPT !.stage = "granted"]]
  BY DEF IssueCode, OTypeOK
<1>6. auth' \in [Authorization -> AuthLocal] /\ auth'[a].stage = "granted"
      /\ \A b \in Authorization \ {a} : auth'[b] = auth[b]
  BY <1>1, <1>5 DEF OTypeOK, AuthLocal, AuthStage
<1>7. OTypeOK'
  BY <1>3, <1>4, <1>6 DEF IssueCode, OTypeOK
<1>8. \A b \in Authorization : Admitted(b)'
  BY <1>6 DEF Admitted
<1>9. \A c \in code_store : c.id \in Authorization \ {a}
  BY <1>1 DEF Unique, OTypeOK, Code
<1>10. Unique'
  BY <1>3, <1>4, <1>6, <1>9 DEF Unique
<1>11. \A x \in Exchange : Holding(x)' /\ Signed(x)' /\ Unanswered(x)'
  BY <1>4 DEF IssueCode, Holding, Signed, Unanswered
<1>12. GrantOf(n) \in Promise!Grant /\ GrantOf(n).nonce = a
  BY <1>2, <1>3 DEF GrantOf, Promise!Grant
<1>13. {GrantOf(c) : c \in code_store}' = {GrantOf(c) : c \in code_store}
                                            \cup {GrantOf(n)}
  BY <1>4
<1>14. {b \in Authorization : auth'[b].stage = "granted"}
          = {b \in Authorization : auth[b].stage = "granted"} \cup {a}
  BY <1>6
<1>15. Promise!Issue(GrantOf(n))
  BY <1>1, <1>12, <1>13, <1>14 DEF Promise!Issue, IssueCode
<1>16. Promise!Next
  BY <1>12, <1>15 DEF Promise!Next, Promise!Issue
<1> QED
  BY <1>7, <1>8, <1>10, <1>11, <1>16

-----------------------------------------------------------------------------
(* The steps of the token endpoint.                                        *)

\* What a token request needs to stand where it does.
Standing(x) == Holding(x) /\ Signed(x) /\ Unanswered(x)

\* One token request moves on; the others have no mutex.
LEMMA ExchangeMoves ==
    ASSUME OInv, NEW x \in Exchange, NEW r \in ExchangeLocal,
           exchange' = [exchange EXCEPT ![x] = r],
           code_lock' \in {x, None} \cup {code_lock},
           code_lock' = code_lock \/ code_lock = x \/ code_lock = None,
           Standing(x)',
           UNCHANGED <<session_store, code_store, auth, tokens, cleaner, keys,
                       clock>>
    PROVE  OInv' /\ Unseen
<1> USE DEF OInv
<1>1. exchange' \in [Exchange -> ExchangeLocal]
      /\ \A y \in Exchange \ {x} : exchange'[y] = exchange[y]
  BY DEF OTypeOK
<1>2. OTypeOK'
  BY <1>1 DEF OTypeOK
<1>3. ASSUME NEW y \in Exchange, y # x PROVE Standing(y)'
  <2>1. exchange'[y] = exchange[y] /\ Standing(y)
    BY <1>1, <1>3 DEF Standing
  <2>2. exchange[y].stage \in {"sign", "remove"} => code_lock' = y
    BY <1>3, <2>1, NoneAssumption DEF Standing, Holding
  <2> QED
    BY <2>1, <2>2 DEF Standing, Holding, Signed, Unanswered
<1>4. \A a \in Authorization : Admitted(a)'
  BY DEF Admitted
<1>5. Unseen
  BY DEF Unseen, Promise!vars
<1> QED
  BY <1>2, <1>3, <1>4, <1>5 DEF Unique, Standing

LEMMA StepExchangeBegin ==
    ASSUME OInv, NEW x \in Exchange, ExchangeBegin(x) PROVE OInv' /\ Unseen
<1>1. PICK code \in Authorization, client \in Client, redirect \in Redirect :
         exchange' = [exchange EXCEPT ![x] =
             [NoExchange EXCEPT !.stage = "lookup", !.code = code,
                                !.client = client, !.redirect = redirect]]
  BY DEF ExchangeBegin
<1> DEFINE r == [NoExchange EXCEPT !.stage = "lookup", !.code = code,
                                   !.client = client, !.redirect = redirect]
<1>2. r \in ExchangeLocal /\ r.stage = "lookup"
  BY DEF NoExchange, ExchangeLocal, ExchangeStage
<1>3. exchange' = [exchange EXCEPT ![x] = r]
  BY <1>1
<1> HIDE DEF r
<1>4. exchange'[x] = r /\ tokens' = tokens /\ tokens[x] = None
  BY <1>3 DEF ExchangeBegin, OInv, OTypeOK, Unanswered
<1>5. Standing(x)'
  BY <1>2, <1>4 DEF Standing, Holding, Signed, Unanswered
<1> QED
  BY <1>2, <1>3, <1>5, ExchangeMoves DEF ExchangeBegin

LEMMA StepLookup ==
    ASSUME OInv, NEW x \in Exchange, Lookup(x) PROVE OInv' /\ Unseen
<1>1. PICK c \in code_store :
         /\ Redeemable(c, x)
         /\ exchange' = [exchange EXCEPT ![x].stage = "sign",
                                         ![x].session = c]
  BY DEF Lookup
<1> DEFINE r == [exchange[x] EXCEPT !.stage = "sign", !.session = c]
<1>2. exchange[x] \in ExchangeLocal /\ c \in Code
  BY DEF OInv, OTypeOK
<1>3. /\ r \in ExchangeLocal
      /\ r.stage = "sign" /\ r.session = c
      /\ r.code = exchange[x].code /\ r.client = exchange[x].client
  BY <1>2 DEF ExchangeLocal, ExchangeStage
<1>4. exchange' = [exchange EXCEPT ![x] = r]
  BY <1>1 DEF OInv, OTypeOK, ExchangeLocal
<1> HIDE DEF r
<1>5. exchange'[x] = r /\ tokens' = tokens /\ tokens[x] = None
  BY <1>4 DEF Lookup, OInv, OTypeOK, Unanswered
<1>6. Standing(x)'
  BY <1>1, <1>3, <1>5 DEF Standing, Holding, Signed, Unanswered, Redeemable, Lookup
<1> QED
  BY <1>3, <1>4, <1>6, ExchangeMoves DEF Lookup

LEMMA StepRefuse ==
    ASSUME OInv, NEW x \in Exchange, Refuse(x) PROVE OInv' /\ Unseen
<1> DEFINE r == [exchange[x] EXCEPT !.stage = "done"]
<1>1. exchange[x] \in ExchangeLocal
  BY DEF OInv, OTypeOK
<1>2. r \in ExchangeLocal /\ r.stage = "done"
  BY <1>1 DEF ExchangeLocal, ExchangeStage
<1>3. exchange' = [exchange EXCEPT ![x] = r]
  BY DEF Refuse, OInv, OTypeOK
<1> HIDE DEF r
<1>4. Standing(x)'
  BY <1>2, <1>3 DEF Standing, Holding, Signed, Unanswered, OInv, OTypeOK
<1>5. code_lock = x \/ code_lock = None
  BY DEF Refuse, OInv, Holding
<1> QED
  BY <1>2, <1>3, <1>4, <1>5, ExchangeMoves DEF Refuse

LEMMA StepSign ==
    ASSUME OInv, NEW x \in Exchange, Sign(x) PROVE OInv' /\ Unseen
<1> DEFINE c == exchange[x].session
           t == [nonce |-> c.id, user |-> c.user, client |-> exchange[x].client,
                 kid |-> keys, exp |-> clock + TokenTTL]
           r == [exchange[x] EXCEPT !.stage = "remove", !.token = t]
<1>1. exchange[x] \in ExchangeLocal /\ Standing(x) /\ exchange[x].stage = "sign"
  BY DEF OInv, OTypeOK, Sign, Standing
<1>2. c \in Code /\ c \in code_store /\ exchange[x].client = c.client
  BY <1>1 DEF Standing, Holding, OInv, OTypeOK
<1>3. t \in Token /\ t.nonce = c.id /\ t.user = c.user /\ t.client = c.client
  BY <1>2, NumbersAssumption DEF Token, Code, OInv, OTypeOK
<1>4. exchange' = [exchange EXCEPT ![x] = r]
  BY <1>1 DEF Sign, OInv, OTypeOK, ExchangeLocal
<1> HIDE DEF t
<1>5. /\ r \in ExchangeLocal /\ r.stage = "remove" /\ r.token = t
      /\ r.session = c /\ r.code = exchange[x].code /\ r.client = exchange[x].client
  BY <1>1, <1>3 DEF ExchangeLocal, ExchangeStage
<1> HIDE DEF r
<1>6. exchange'[x] = r /\ UNCHANGED <<code_lock, code_store, tokens>>
  BY <1>4 DEF Sign, OInv, OTypeOK
<1>7. Standing(x)'
  BY <1>1, <1>3, <1>5, <1>6 DEF Standing, Holding, Signed, Unanswered
<1> QED
  BY <1>4, <1>5, <1>7, ExchangeMoves DEF Sign

\* The answer redeems the one grant of the code.
LEMMA StepRemove ==
    ASSUME OInv, NEW x \in Exchange, Remove(x) PROVE OInv' /\ Promise!Next
<1> DEFINE c == exchange[x].session
           t == exchange[x].token
           r == [exchange[x] EXCEPT !.stage = "done"]
<1>1. exchange[x] \in ExchangeLocal /\ Standing(x) /\ exchange[x].stage = "remove"
  BY DEF OInv, OTypeOK, Remove, Standing
<1>2. c \in Code /\ c \in code_store /\ c.id = exchange[x].code /\ code_lock = x
  BY <1>1 DEF Standing, Holding, OInv, OTypeOK
<1>3. t \in Token /\ t # None /\ t.nonce = c.id /\ t.user = c.user
         /\ t.client = c.client /\ tokens[x] = None
  BY <1>1, NoneAssumption DEF Standing, Signed, Unanswered
<1>4. code_store' = code_store \ {c}
  BY <1>2 DEF Remove, OInv, Unique
<1>5. r \in ExchangeLocal /\ r.stage = "done"
  BY <1>1 DEF ExchangeLocal, ExchangeStage
<1>6. exchange' = [exchange EXCEPT ![x] = r]
  BY DEF Remove, OInv, OTypeOK
<1>7. tokens' = [tokens EXCEPT ![x] = t]
  BY DEF Remove
<1> HIDE DEF c, t, r
<1>8. exchange' \in [Exchange -> ExchangeLocal] /\ exchange'[x].stage = "done"
      /\ \A y \in Exchange \ {x} : exchange'[y] = exchange[y]
  BY <1>5, <1>6 DEF OInv, OTypeOK
<1>9. tokens' \in [Exchange -> Token \cup {None}] /\ tokens'[x] = t
      /\ \A y \in Exchange \ {x} : tokens'[y] = tokens[y]
  BY <1>3, <1>7 DEF OInv, OTypeOK
<1>10. OTypeOK'
  BY <1>4, <1>8, <1>9 DEF OInv, OTypeOK, Remove
<1>11. ASSUME NEW y \in Exchange PROVE Standing(y)'
  <2>1. CASE y = x
    BY <1>8, <2>1 DEF Standing, Holding, Signed, Unanswered
  <2>2. CASE y # x
    <3>1. exchange'[y] = exchange[y] /\ tokens'[y] = tokens[y] /\ Standing(y)
      BY <1>8, <1>9, <2>2 DEF OInv, Standing
    <3>2. exchange[y].stage \notin {"sign", "remove"}
      BY <1>2, <2>2, <3>1 DEF Standing, Holding
    <3> QED
      BY <3>1, <3>2 DEF Standing, Holding, Signed, Unanswered
  <2> QED
    BY <2>1, <2>2
<1>12. Unique' /\ \A a \in Authorization : Admitted(a)'
  BY <1>4 DEF Remove, OInv, Unique, Admitted
<1>13. {GrantOf(d) : d \in code_store}'
          = {GrantOf(d) : d \in code_store} \ {GrantOf(c)}
  <2>1. ASSUME NEW d \in code_store, d # c PROVE GrantOf(d) # GrantOf(c)
    <3>1. d.id # c.id
      BY <1>2, <2>1 DEF OInv, Unique
    <3>2. GrantOf(d).nonce # GrantOf(c).nonce
      BY <3>1 DEF GrantOf
    <3> QED
      BY <3>2
  <2> QED
    BY <1>4, <2>1
<1> DEFINE answered == [y \in Exchange |-> IF tokens[y] = None THEN None
             ELSE [nonce |-> tokens[y].nonce, user |-> tokens[y].user,
                   client |-> tokens[y].client]]
<1>14. answered' = [answered EXCEPT ![x] = GrantOf(c)]
  BY <1>3, <1>9 DEF GrantOf
<1>15. answered[x] = None
  BY <1>3
<1>16. Promise!Redeem(x, GrantOf(c))
  BY <1>2, <1>13, <1>14, <1>15 DEF Promise!Redeem, Remove
<1>17. Promise!Next
  BY <1>2, <1>16 DEF Promise!Next, Promise!Redeem
<1> QED
  BY <1>10, <1>11, <1>12, <1>17 DEF OInv, Standing

-----------------------------------------------------------------------------
(* The other steps.                                                        *)

LEMMA StepLogout ==
    ASSUME OInv, NEW s \in session_store, Logout(s) PROVE OInv' /\ Unseen
  BY DEF Logout, OInv, OTypeOK, Admitted, Unique, Holding, Signed, Unanswered,
         Unseen, Promise!vars

LEMMA StepCleanSessions == OInv /\ CleanSessions => OInv' /\ Unseen
  BY DEF CleanSessions, OInv, OTypeOK, Admitted, Unique, Holding, Signed,
         Unanswered, Unseen, Promise!vars

\* Nobody is past the checks when the cleanup has the mutex.
LEMMA StepCleanCodes == OInv /\ CleanCodes => OInv' /\ Promise!Next
<1> SUFFICES ASSUME OInv, CleanCodes PROVE OInv' /\ Promise!Next
  OBVIOUS
<1> USE DEF OInv, CleanCodes
<1>1. code_store' \subseteq code_store
  OBVIOUS
<1>2. OTypeOK'
  BY <1>1 DEF OTypeOK
<1>3. ASSUME NEW x \in Exchange PROVE Standing(x)'
  BY NoneAssumption DEF Standing, Holding, Signed, Unanswered
<1>4. Unique' /\ \A a \in Authorization : Admitted(a)'
  BY <1>1 DEF Unique, Admitted
<1>5. {GrantOf(c) : c \in code_store}' \in SUBSET {GrantOf(c) : c \in code_store}
  BY <1>1
<1>6. Promise!Forget
  BY <1>5 DEF Promise!Forget
<1> QED
  BY <1>2, <1>3, <1>4, <1>6 DEF Standing, Promise!Next

LEMMA StepRestart == OInv /\ Restart => OInv' /\ Promise!Next
<1> SUFFICES ASSUME OInv, Restart PROVE OInv' /\ Promise!Next
  OBVIOUS
<1> USE DEF OInv, Restart
<1>1. ASSUME NEW a \in Authorization
      PROVE  /\ auth'[a] \in AuthLocal
             /\ auth'[a].stage \in {"idle", "granted", "done"}
             /\ auth'[a].stage = "granted" <=> auth[a].stage = "granted"
  <2>1. auth[a] \in AuthLocal
    BY DEF OTypeOK
  <2>2. auth'[a] = IF auth[a].stage \in {"idle", "granted"} THEN auth[a]
                   ELSE [auth[a] EXCEPT !.stage = "done"]
    OBVIOUS
  <2> HIDE DEF Restart
  <2> QED
    BY <2>1, <2>2 DEF AuthLocal, AuthStage
<1>2. auth' \in [Authorization -> AuthLocal]
  BY <1>1
<1>3. ASSUME NEW x \in Exchange
      PROVE  exchange'[x] \in ExchangeLocal
             /\ exchange'[x].stage \in {"idle", "done"}
             /\ (exchange'[x].stage = "idle" => exchange[x].stage = "idle")
  <2>1. exchange[x] \in ExchangeLocal
    BY DEF OTypeOK
  <2>2. exchange'[x] = IF exchange[x].stage = "idle" THEN exchange[x]
                       ELSE [exchange[x] EXCEPT !.stage = "done"]
    OBVIOUS
  <2> HIDE DEF Restart
  <2> QED
    BY <2>1, <2>2 DEF ExchangeLocal, ExchangeStage
<1>4. exchange' \in [Exchange -> ExchangeLocal]
  BY <1>3
<1>5. OTypeOK'
  BY <1>2, <1>4 DEF OTypeOK
<1>6. \A x \in Exchange : Standing(x)'
  BY <1>3 DEF Standing, Holding, Signed, Unanswered
<1>7. Unique' /\ \A a \in Authorization : Admitted(a)'
  BY <1>1 DEF Unique, Admitted
<1>8. {a \in Authorization : auth'[a].stage = "granted"}
         = {a \in Authorization : auth[a].stage = "granted"}
  BY <1>1
<1>9. {GrantOf(c) : c \in code_store}' \in SUBSET {GrantOf(c) : c \in code_store}
  OBVIOUS
<1>10. Promise!Forget
  BY <1>8, <1>9 DEF Promise!Forget
<1> QED
  BY <1>5, <1>6, <1>7, <1>10 DEF Standing, Promise!Next

LEMMA StepClock == OInv /\ (Tick \/ StepBack) => OInv' /\ Unseen
<1> SUFFICES ASSUME OInv, Tick \/ StepBack PROVE OInv' /\ Unseen
  OBVIOUS
<1>1. clock' \in Nat
  BY DEF Tick, StepBack, OInv, OTypeOK
<1>2. UNCHANGED <<session_store, code_store, code_lock, auth, exchange, tokens,
                  cleaner, keys>>
  BY DEF Tick, StepBack
<1> QED
  BY <1>1, <1>2 DEF OInv, OTypeOK, Admitted, Unique, Holding, Signed, Unanswered,
                    Unseen, Promise!vars

LEMMA StepInv ==
    ASSUME OInv, [Next]_vars PROVE OInv' /\ [Promise!Next]_Promise!vars
<1>1. CASE UNCHANGED vars
  BY <1>1 DEF vars, OInv, OTypeOK, Admitted, Unique, Holding, Signed,
              Unanswered, Promise!vars
<1>2. ASSUME NEW a \in Authorization, AuthStep(a)
      PROVE  OInv' /\ [Promise!Next]_Promise!vars
  <2>1. CASE LoginBegin(a)
    BY <2>1, StepLoginBegin DEF Unseen
  <2>2. CASE NewSession(a)
    BY <2>2, StepNewSession DEF Unseen
  <2>3. CASE IssueCode(a)
    BY <2>3, StepIssueCode
  <2>4. CASE \E s \in session_store : ContinueBegin(a, s)
    BY <2>4, StepContinueBegin DEF Unseen
  <2> QED
    BY <1>2, <2>1, <2>2, <2>3, <2>4 DEF AuthStep
<1>3. ASSUME NEW x \in Exchange, ExchangeBegin(x) \/ ExchangeStep(x)
      PROVE  OInv' /\ [Promise!Next]_Promise!vars
  <2>1. CASE ExchangeBegin(x)
    BY <2>1, StepExchangeBegin DEF Unseen
  <2>2. CASE Lookup(x)
    BY <2>2, StepLookup DEF Unseen
  <2>3. CASE Refuse(x)
    BY <2>3, StepRefuse DEF Unseen
  <2>4. CASE Sign(x)
    BY <2>4, StepSign DEF Unseen
  <2>5. CASE Remove(x)
    BY <2>5, StepRemove
  <2> QED
    BY <1>3, <2>1, <2>2, <2>3, <2>4, <2>5 DEF ExchangeStep
<1>4. CASE \E s \in session_store : Logout(s)
  BY <1>4, StepLogout DEF Unseen
<1>5. CASE CleanSessions
  BY <1>5, StepCleanSessions DEF Unseen
<1>6. CASE CleanCodes
  BY <1>6, StepCleanCodes
<1>7. CASE Restart
  BY <1>7, StepRestart
<1>8. CASE Tick \/ StepBack
  BY <1>8, StepClock DEF Unseen
<1> QED
  BY <1>1, <1>2, <1>3, <1>4, <1>5, <1>6, <1>7, <1>8 DEF Next, Cleanup

-----------------------------------------------------------------------------
\* The inductive invariant holds, whatever logins, token requests, cleanups,
\* restarts and the clock do.
THEOREM Invariance == Spec => []OInv
<1>1. Init => OInv
  BY InitInv
<1>2. OInv /\ [Next]_vars => OInv'
  BY StepInv
<1> QED
  BY <1>1, <1>2, PTL DEF Spec

\* Every variable of the stores and of the token endpoint keeps its type.
THEOREM StoresTyped == Spec => []OTypeOK
<1>1. OInv => OTypeOK
  BY DEF OInv
<1> QED
  BY <1>1, Invariance, PTL

\* A token request past its checks owns its code until it ends: the cleanup, a
\* logout, other token requests and the clock cannot take it away.
THEOREM CodeHeld == Spec => []HolderOwnsCode
<1>1. OInv => HolderOwnsCode
  BY DEF OInv, Holding, HolderOwnsCode
<1> QED
  BY <1>1, Invariance, PTL

\* The codes a step takes from the store are redeemed, dead, or lost with the
\* process.
LEMMA StepSpares ==
    ASSUME OInv, [Next]_vars, NEW c \in code_store, c \notin code_store'
    PROVE  \/ Redeemed(c)
           \/ Elapsed(c.created_at) >= CodeTTL
           \/ keys' # keys
<1>1. ASSUME NEW x \in Exchange, Remove(x) PROVE Redeemed(c)
  <2> DEFINE d == exchange[x].session
  <2>1. exchange[x].stage = "remove" /\ Standing(x)
    BY <1>1 DEF Remove, OInv, Standing
  <2>2. d \in code_store /\ d.id = exchange[x].code
    BY <2>1 DEF Standing, Holding
  <2>3. c = d
    BY <1>1, <2>2 DEF Remove, OInv, Unique
  <2>4. tokens'[x] = exchange[x].token
    BY <1>1 DEF Remove, OInv, OTypeOK
  <2>5. /\ tokens[x] = None /\ tokens'[x] # None /\ tokens'[x].nonce = c.id
        /\ tokens'[x].user = c.user /\ tokens'[x].client = c.client
    BY <2>1, <2>3, <2>4, NoneAssumption DEF Standing, Signed, Unanswered
  <2> QED
    BY <2>5 DEF Redeemed
<1>2. CASE CleanCodes
  <2>1. ~(Elapsed(c.created_at) < CodeTTL)
    BY <1>2 DEF CleanCodes
  <2>2. Elapsed(c.created_at) \in Nat /\ CodeTTL \in Nat
    BY NumbersAssumption DEF Elapsed, OInv, OTypeOK, Code
  <2> QED
    BY <2>1, <2>2
<1>3. CASE Restart
  BY <1>3 DEF Restart, OInv, OTypeOK
<1>4. CASE code_store \subseteq code_store'
  BY <1>4
<1>5. CASE \/ \E a \in Authorization : AuthStep(a)
           \/ \E s \in session_store : Logout(s)
           \/ \E x \in Exchange :
                 ExchangeBegin(x) \/ Lookup(x) \/ Refuse(x) \/ Sign(x)
           \/ CleanSessions \/ Tick \/ StepBack \/ UNCHANGED vars
  BY <1>4, <1>5 DEF AuthStep, LoginBegin, NewSession, IssueCode, ContinueBegin,
                    Logout, ExchangeBegin, Lookup, Refuse, Sign, CleanSessions,
                    Tick, StepBack, vars
<1> QED
  BY <1>1, <1>2, <1>3, <1>5 DEF Next, ExchangeStep, Cleanup

\* No request spoils a code for the client it was issued to: not the requests of
\* other clients, not a signature that fails, not the logout of its user.
THEOREM CodesUnspoilt == Spec => CodeNotSpoilt
<1>1. OInv /\ [Next]_vars =>
         [\A c \in code_store :
             \/ c \in code_store'
             \/ Redeemed(c)
             \/ Elapsed(c.created_at) >= CodeTTL
             \/ keys' # keys]_vars
  BY StepSpares
<1> QED
  BY <1>1, Invariance, PTL DEF Spec, CodeNotSpoilt

\* The token endpoint implements OneTimeCode: each code is redeemed by one
\* request at most, that of the right client, with its own user and nonce.
THEOREM CodesRedeemedOnce == Spec => CodesOnce
<1>1. Init => OInv /\ Promise!Init
  BY InitInv
<1>2. OInv /\ [Next]_vars => OInv' /\ [Promise!Next]_Promise!vars
  BY StepInv
<1> QED
  BY <1>1, <1>2, PTL DEF Spec, CodesOnce, Promise!Spec

-----------------------------------------------------------------------------
(* PART 2. Housekeeping: every step is one of Oidc or leaves its stores      *)
(* alone, so that nothing proved of Oidc is lost by the cache.              *)

LEMMA CacheStep == HNext => [Next]_vars
<1> SUFFICES ASSUME HNext PROVE [Next]_vars
  OBVIOUS
<1>1. ASSUME NEW a \in Authorization, Insert(a) \/ \E ip \in Address : NotCached(a, ip)
      PROVE  [Next]_vars
  BY <1>1 DEF Insert, NotCached
<1>2. CASE Others
  BY <1>2 DEF Others, Next, AuthStep
<1>3. CASE Clean
  BY <1>3 DEF Clean, CleanCache, Next, Cleanup
<1>4. CASE HRestart
  BY <1>4 DEF HRestart, Next
<1> QED
  BY <1>1, <1>2, <1>3, <1>4 DEF HNext

LEMMA CacheTyped == KTypeOK /\ OTypeOK' /\ [HNext]_hvars => KTypeOK'
<1> SUFFICES ASSUME KTypeOK, OTypeOK', [HNext]_hvars PROVE KTypeOK'
  OBVIOUS
<1>1. CASE UNCHANGED hvars
  BY <1>1 DEF hvars, geoVars, KTypeOK
<1>2. ASSUME NEW a \in Authorization, Insert(a) PROVE KTypeOK'
  <2>1. resolving[a] \in Address
    BY <1>2 DEF Insert, KTypeOK
  <2> QED
    BY <1>2, <2>1 DEF Insert, KTypeOK
<1>3. ASSUME NEW a \in Authorization, NEW ip \in Address, NotCached(a, ip)
      PROVE  KTypeOK'
  BY <1>3 DEF NotCached, KTypeOK
<1>4. CASE Others
  BY <1>4 DEF Others, geoVars, KTypeOK
<1>5. CASE Clean
  BY <1>5 DEF Clean, CleanCache, geoVars, KTypeOK
<1>6. CASE HRestart
  BY <1>6 DEF HRestart, KTypeOK
<1> QED
  BY <1>1, <1>2, <1>3, <1>4, <1>5, <1>6 DEF HNext

\* With the cache and the cleanup in the order of the code, the service is still
\* the one of Oidc: the detailed specification implements it.
THEOREM CleanupImplementsOidc == HSpec => Spec
<1>1. HInit => Init
  BY DEF HInit
<1>2. [HNext]_hvars => [Next]_vars
  BY CacheStep DEF hvars, vars
<1> QED
  BY <1>1, <1>2, PTL DEF HSpec, Spec

\* Stores, token requests, cache and lookups keep their types under the cleanup.
THEOREM CleanupTyped == HSpec => []KTypeOK
<1>1. HInit => KTypeOK
  <2>1. HInit => OTypeOK
    BY InitInv DEF HInit, OInv
  <2> QED
    BY <2>1 DEF HInit, KTypeOK
<1> QED
  BY <1>1, CacheTyped, CleanupImplementsOidc, StoresTyped, PTL DEF HSpec

\* While the task cleans and logins fill the cache, each code is redeemed once at
\* most, and by its client.
THEOREM CleanupKeepsCodes == HSpec => CodesOnce
  BY CleanupImplementsOidc, CodesRedeemedOnce

-----------------------------------------------------------------------------
(* PART 3. What can be read of an account.                                  *)

-----------------------------------------------------------------------------
(* Every step of Access is one of Oidc, so that the invariant of Oidc holds. *)

LEMMA OidcStep == ANext => [Next]_vars
<1> SUFFICES ASSUME ANext PROVE [Next]_vars
  OBVIOUS
<1>1. CASE \E a \in Authorization : Login(a) \/ Continue(a) \/ Issue(a)
  BY <1>1 DEF Login, Continue, Issue, Next, AuthStep
<1>2. CASE \E u \in User : SetAccount(u)
  BY <1>2 DEF SetAccount
<1>3. CASE \E q \in Request : \/ UserinfoAnswer(q)
                              \/ \E x \in Exchange : UserinfoVerify(q, x)
  BY <1>3 DEF UserinfoAnswer, UserinfoVerify
<1>4. CASE Start
  BY <1>4 DEF Start, Next
<1>5. CASE Elsewhere
  BY <1>5 DEF Elsewhere, Next, AuthStep, Pass
<1> QED
  BY <1>1, <1>2, <1>3, <1>4, <1>5 DEF ANext

LEMMA OidcInv == ASSUME OInv, [ANext]_avars PROVE OInv'
<1>1. [Next]_vars
  BY OidcStep DEF avars
<1> QED
  BY <1>1, StepInv

-----------------------------------------------------------------------------
(* The inductive invariant, in parts that say of each thing in the memory   *)
(* of the service what it came from.                                        *)

\* Sessions, codes and tokens belong to the user of the request they came from,
\* and a token's request has had its code.
Traced ==
    /\ \A a \in Authorization : auth[a].stage = "idle" => auth[a].user = None
    /\ \A s \in session_store : auth[s.id].user = s.user
    /\ \A c \in code_store : auth[c.id].user = c.user
    /\ \A x \in Exchange : tokens[x] # None =>
          /\ auth[tokens[x].nonce].user = tokens[x].user
          /\ auth[tokens[x].nonce].stage = "granted"

\* No token is of a key that is still to come, and one that is about to be
\* answered, or has just been verified, is of the present one.
Keyed ==
    /\ \A x \in Exchange :
          /\ tokens[x] # None => tokens[x].kid <= keys
          /\ exchange[x].stage = "remove" => exchange[x].token.kid = keys
    /\ \A q \in Request :
          IF request[q].stage = "read"
          THEN /\ request[q].by \in Exchange
               /\ tokens[request[q].by] # None
               /\ tokens[request[q].by].kid = keys
          ELSE request[q].by = None

\* Tokens expire in time after their code. (A clock that was set back may have
\* left codes of the future.)
Timely == \A x \in Exchange :
    /\ exchange[x].stage = "sign" =>
          clock <= exchange[x].session.created_at + CodeTTL
    /\ exchange[x].stage = "remove" =>
          exchange[x].token.exp
             <= exchange[x].session.created_at + CodeTTL + TokenTTL
    /\ tokens[x] # None =>
          /\ exchange[x].session \in Code
          /\ tokens[x].exp
                <= exchange[x].session.created_at + CodeTTL + TokenTTL

\* Codes, and tokens of the present key, stand for what their request was given
\* under the present configuration.
Entitled ==
    /\ \A c \in code_store : shown[c.id] = whitelist[c.client]
    /\ \A x \in Exchange : tokens[x] # None /\ tokens[x].kid = keys =>
          shown[tokens[x].nonce] = whitelist[tokens[x].client]
    /\ \A q \in Request : answer[q] # None => tokens[answer[q].by] # None
    /\ FieldsAuthorized

\* What is within reach of an account, or comes within it when the clock is set
\* back: the tokens of this start, expired or not.
Within(u) ==
    {a \in Authorization : /\ auth[a].user = u
                           /\ auth[a].stage \in {"session", "code"}}
    \cup ProfileReaders(u)
    \cup {c.id : c \in {d \in code_store : d.user = u}}
    \cup {exchange[x].session.id : x \in
            {y \in Exchange : /\ exchange[y].stage \in {"sign", "remove"}
                              /\ exchange[y].session.user = u}}
    \cup {tokens[x].nonce : x \in
            {y \in Exchange : /\ tokens[y] # None
                              /\ tokens[y].user = u
                              /\ tokens[y].kid = keys}}

LockKept == \A u \in User :
    account[u] = "Locked" => Within(u) \subseteq earlier[u]

\* Accounts locked since before the last start are locked, and out of reach.
CutOff == \A u \in cut : account[u] = "Locked" /\ Within(u) = {}

AInv == OInv /\ ATypeOK /\ Traced /\ Keyed /\ Timely /\ Entitled
        /\ LockKept /\ CutOff

\* A token userinfo takes, or has taken, is of this start.
LEMMA ReachWithin == ASSUME Keyed, NEW u \in User PROVE Reach(u) \subseteq Within(u)
<1>1. ASSUME NEW x \in Exchange, Valid(tokens[x]) \/ \E q \in Request : request[q].by = x
      PROVE  tokens[x].kid = keys
  BY <1>1, NoneAssumption DEF Valid, Keyed
<1> QED
  BY <1>1 DEF Reach, Within

-----------------------------------------------------------------------------
(* What a step does, told for each variable on its own.                    *)

AuthFact(a) ==
    \/ /\ auth[a].stage = "idle"
       /\ auth'[a].stage \in {"session", "code"}
       /\ auth'[a].user \in User
       /\ account[auth'[a].user] # "Locked"
       /\ account'[auth'[a].user] # "Locked"
    \/ /\ auth'[a].user = auth[a].user
       /\ auth'[a].stage = "idle" <=> auth[a].stage = "idle"
       /\ auth[a].stage = "granted" => auth'[a].stage = "granted"
       /\ auth'[a].stage \in {"session", "code"} =>
             auth[a].stage \in {"session", "code"}

SessionFact == \A s \in session_store' \ session_store :
    auth[s.id].stage = "session" /\ auth[s.id].user = s.user

CodeFact == \A c \in code_store' \ code_store :
    /\ auth[c.id].stage = "code" /\ auth[c.id].user = c.user
    /\ auth'[c.id].stage = "granted"
    /\ c.created_at = clock
    /\ shown'[c.id] = whitelist[c.client] /\ whitelist' = whitelist

ExchangeFact(x) ==
    /\ exchange'[x].stage = "sign" =>
          \/ exchange'[x] = exchange[x]
          \/ /\ exchange[x].stage = "lookup"
             /\ exchange'[x].session \in code_store
             /\ Elapsed(exchange'[x].session.created_at) <= CodeTTL
             /\ clock' = clock
    /\ exchange'[x].stage = "remove" =>
          \/ exchange'[x] = exchange[x]
          \/ /\ exchange[x].stage = "sign"
             /\ exchange'[x].session = exchange[x].session
             /\ exchange'[x].token.kid = keys
             /\ exchange'[x].token.exp = clock + TokenTTL
             /\ keys' = keys
    /\ exchange[x].stage \notin {"idle", "lookup"} =>
          exchange'[x].session = exchange[x].session

TokenFact(x) == \/ tokens'[x] = tokens[x]
                \/ /\ exchange[x].stage = "remove"
                   /\ tokens'[x] = exchange[x].token
                   /\ keys' = keys /\ whitelist' = whitelist

ShownFact == \A a \in Authorization :
    \/ shown'[a] = shown[a]
    \/ auth[a].stage = "code" /\ tokens' = tokens

StartFact ==
    \/ keys' = keys /\ whitelist' = whitelist
    \/ /\ keys' = keys + 1
       /\ session_store' = {} /\ code_store' = {} /\ tokens' = tokens
       /\ \A a \in Authorization : auth'[a].stage \notin {"session", "code"}
       /\ \A x \in Exchange : exchange'[x].stage \notin {"sign", "remove"}
       /\ \A q \in Request : request'[q].stage # "read"

ClockFact ==
    clock' # clock =>
        /\ UNCHANGED <<exchange, code_store, tokens>>
        /\ \A x \in Exchange : exchange[x].stage = "sign" => clock' < clock

RequestFact(q) ==
    \/ request'[q] = request[q]
    \/ request'[q].stage = "done" /\ request'[q].by = None
    \/ /\ request'[q].stage = "read"
       /\ request'[q].by \in Exchange
       /\ tokens[request'[q].by] # None /\ Valid(tokens[request'[q].by])
       /\ tokens' = tokens /\ keys' = keys

AnswerFact(q) ==
    \/ answer'[q] = answer[q]
    \/ /\ request[q].stage = "read"
       /\ answer'[q] = [by |-> request[q].by,
                        fields |-> whitelist[tokens[request[q].by].client]]

AccountFact(u) ==
    /\ account'[u] = "Locked" =>
          \/ account[u] = "Locked" /\ earlier'[u] = earlier[u]
          \/ /\ earlier'[u] = {a \in Authorization : auth[a].user = u}
             /\ UNCHANGED vars
    /\ u \in cut' => account'[u] = "Locked" /\ (u \in cut \/ keys' # keys)

StepFacts ==
    /\ \A a \in Authorization : AuthFact(a)
    /\ SessionFact /\ CodeFact /\ ShownFact /\ StartFact /\ ClockFact
    /\ \A x \in Exchange : ExchangeFact(x) /\ TokenFact(x)
    /\ \A q \in Request : RequestFact(q) /\ AnswerFact(q)
    /\ \A u \in User : AccountFact(u)

\* What is left alone, or changed for one request only.
LEMMA SameAuth == ASSUME UNCHANGED auth PROVE \A a \in Authorization : AuthFact(a)
  BY DEF AuthFact

LEMMA SameStores == ASSUME UNCHANGED <<session_store, code_store>>
                    PROVE  SessionFact /\ CodeFact
  BY DEF SessionFact, CodeFact

LEMMA SameExchange == ASSUME UNCHANGED <<exchange, tokens>>
                      PROVE  \A x \in Exchange : ExchangeFact(x) /\ TokenFact(x)
  BY DEF ExchangeFact, TokenFact

LEMMA SameAccount ==
    ASSUME CutOff, UNCHANGED historyVars,
           \A u \in User : account'[u] = "Locked" <=> account[u] = "Locked"
    PROVE  /\ \A u \in User : AccountFact(u)
           /\ ShownFact
  BY DEF AccountFact, ShownFact, CutOff, historyVars

LEMMA SameRequest ==
    ASSUME UNCHANGED <<request, answer>>
    PROVE  \A q \in Request : RequestFact(q) /\ AnswerFact(q)
  BY DEF RequestFact, AnswerFact

LEMMA SameClock == ASSUME OInv, UNCHANGED <<keys, clock, whitelist>>
                   PROVE  StartFact /\ ClockFact
  BY DEF StartFact, ClockFact, OInv, OTypeOK

LEMMA AdmitFacts ==
    ASSUME AInv, NEW a \in Authorization, Admit(a),
           auth'[a].stage \in {"session", "code"}, auth'[a].user \in User,
           auth[a].stage = "idle",
           \A b \in Authorization \ {a} : auth'[b] = auth[b],
           UNCHANGED <<session_store, code_store, code_lock, exchange, tokens,
                       cleaner, keys, clock>>
    PROVE  StepFacts
<1> DEFINE u == auth'[a].user
<1>1. account[u] # "Locked"
  BY DEF Admit, Admits
<1>2. account' = [account EXCEPT ![u] = IF @ = "absent" THEN "Normal" ELSE @]
  BY DEF Admit
<1>3. account'[u] # "Locked"
      /\ \A v \in User : account'[v] = "Locked" <=> account[v] = "Locked"
  BY <1>1, <1>2 DEF AInv, ATypeOK
<1> HIDE DEF u
<1>4. \A b \in Authorization : AuthFact(b)
  BY <1>1, <1>3 DEF AuthFact, u
<1>5. UNCHANGED <<whitelist, request, answer, historyVars>>
  BY DEF Admit
<1> QED
  BY <1>3, <1>4, <1>5, SameStores, SameExchange, SameAccount, SameRequest,
     SameClock DEF StepFacts, AInv

LEMMA FactsLogin ==
    ASSUME AInv, NEW a \in Authorization, Login(a) PROVE StepFacts
<1>1. PICK u \in User, app \in Registered \cup {<<None, None>>} :
         auth' = [auth EXCEPT ![a] = [stage |-> "session", user |-> u,
                                      client |-> app[1], redirect |-> app[2]]]
  BY DEF Login, LoginBegin
<1>2. /\ auth'[a].stage = "session" /\ auth'[a].user = u
      /\ \A b \in Authorization \ {a} : auth'[b] = auth[b]
  BY <1>1 DEF AInv, OInv, OTypeOK
<1> QED
  BY <1>2, AdmitFacts DEF Login, LoginBegin

LEMMA FactsContinue ==
    ASSUME AInv, NEW a \in Authorization, Continue(a) PROVE StepFacts
<1>1. PICK s \in session_store : ContinueBegin(a, s) /\ Admit(a)
  BY DEF Continue
<1>2. PICK app \in Registered :
         auth' = [auth EXCEPT ![a] = [stage |-> "code", user |-> s.user,
                                      client |-> app[1], redirect |-> app[2]]]
  BY <1>1 DEF ContinueBegin
<1>3. s.user \in User
  BY DEF AInv, OInv, OTypeOK, Session
<1>4. /\ auth'[a].stage = "code" /\ auth'[a].user \in User
      /\ \A b \in Authorization \ {a} : auth'[b] = auth[b]
  BY <1>2, <1>3 DEF AInv, OInv, OTypeOK
<1> QED
  BY <1>1, <1>4, AdmitFacts DEF ContinueBegin

\* A request moves on between two of its stages.
LEMMA AuthStage1 ==
    ASSUME OInv, NEW a \in Authorization, NEW stage,
           auth' = [auth EXCEPT ![a].stage = stage],
           \/ auth[a].stage = "session" /\ stage \in {"done", "code"}
           \/ auth[a].stage = "code" /\ stage = "granted"
    PROVE  (\A b \in Authorization : AuthFact(b)) /\ auth'[a].stage = stage
<1>1. auth'[a] = [auth[a] EXCEPT !.stage = stage]
      /\ \A b \in Authorization \ {a} : auth'[b] = auth[b]
  BY DEF OInv, OTypeOK
<1>2. auth[a] \in AuthLocal
  BY DEF OInv, OTypeOK
<1>3. auth'[a].stage = stage /\ auth'[a].user = auth[a].user
  BY <1>1, <1>2 DEF AuthLocal
<1> QED
  BY <1>1, <1>3 DEF AuthFact

LEMMA FactsIssue ==
    ASSUME AInv, NEW a \in Authorization, Issue(a) PROVE StepFacts
<1>1. (\A b \in Authorization : AuthFact(b)) /\ auth'[a].stage = "granted"
  BY AuthStage1 DEF Issue, IssueCode, AInv
<1>2. shown' = [shown EXCEPT ![a] = whitelist[auth[a].client]]
  BY DEF Issue
<1>3. /\ shown'[a] = whitelist[auth[a].client]
      /\ \A b \in Authorization \ {a} : shown'[b] = shown[b]
  BY <1>2 DEF AInv, ATypeOK
<1>4. CodeFact
  BY <1>1, <1>3 DEF CodeFact, Issue, IssueCode, accountVars
<1>5. SessionFact
  BY DEF SessionFact, Issue, IssueCode
<1>6. ShownFact
  BY <1>3 DEF ShownFact, Issue, IssueCode
<1>7. \A u \in User : AccountFact(u)
  BY DEF AccountFact, Issue, accountVars, AInv, CutOff
<1>8. UNCHANGED <<exchange, tokens, keys, clock, whitelist, request, answer>>
  BY DEF Issue, IssueCode, accountVars
<1> QED
  BY <1>1, <1>4, <1>5, <1>6, <1>7, <1>8, SameExchange, SameRequest, SameClock
     DEF StepFacts, AInv

LEMMA FactsSetAccount ==
    ASSUME AInv, NEW u \in User, SetAccount(u) PROVE StepFacts
<1>1. PICK st \in AccountState \ {account[u]} :
         /\ account' = [account EXCEPT ![u] = st]
         /\ earlier' = [earlier EXCEPT ![u] =
               IF st = "Locked" THEN {a \in Authorization : auth[a].user = u}
                                ELSE {}]
  BY DEF SetAccount
<1>2. /\ account'[u] = st /\ \A v \in User \ {u} : account'[v] = account[v]
      /\ st = "Locked" => earlier'[u] = {a \in Authorization : auth[a].user = u}
      /\ \A v \in User \ {u} : earlier'[v] = earlier[v]
  BY <1>1 DEF AInv, ATypeOK
<1>3. UNCHANGED <<vars, whitelist, request, answer, shown>> /\ cut' = cut \ {u}
  BY DEF SetAccount
<1>4. \A v \in User : AccountFact(v)
  BY <1>2, <1>3 DEF AccountFact, AInv, CutOff
<1>5. ShownFact
  BY <1>3 DEF ShownFact
<1> QED
  BY <1>3, <1>4, <1>5, SameAuth, SameStores, SameExchange, SameRequest, SameClock
     DEF StepFacts, AInv, vars

LEMMA FactsUserinfo ==
    ASSUME AInv, NEW q \in Request,
           UserinfoAnswer(q) \/ \E x \in Exchange : UserinfoVerify(q, x)
    PROVE  StepFacts
<1>1. UNCHANGED <<vars, account, whitelist, historyVars>>
  BY DEF UserinfoAnswer, UserinfoVerify
<1>2. ASSUME NEW x \in Exchange, UserinfoVerify(q, x)
      PROVE  \A p \in Request : RequestFact(p) /\ AnswerFact(p)
  <2>1. /\ request'[q] = [stage |-> "read", by |-> x]
        /\ \A p \in Request \ {q} : request'[p] = request[p]
    BY <1>2 DEF UserinfoVerify, AInv, ATypeOK
  <2> QED
    BY <1>1, <1>2, <2>1 DEF UserinfoVerify, RequestFact, AnswerFact, vars
<1>3. ASSUME UserinfoAnswer(q)
      PROVE  \A p \in Request : RequestFact(p) /\ AnswerFact(p)
  <2>1. /\ request'[q].stage = "done" /\ request'[q].by = None
        /\ \A p \in Request \ {q} : request'[p] = request[p]
    BY <1>3 DEF UserinfoAnswer, AInv, ATypeOK, NoRequest
  <2>2. AnswerFact(q) /\ \A p \in Request \ {q} : answer'[p] = answer[p]
    BY <1>3 DEF UserinfoAnswer, AInv, ATypeOK, AnswerFact
  <2> QED
    BY <2>1, <2>2 DEF RequestFact, AnswerFact
<1> QED
  BY <1>1, <1>2, <1>3, SameAuth, SameStores, SameExchange, SameAccount, SameClock
     DEF StepFacts, AInv, vars

LEMMA FactsStart == ASSUME AInv, Start PROVE StepFacts
<1>1. /\ keys' = keys + 1 /\ session_store' = {} /\ code_store' = {}
      /\ tokens' = tokens /\ clock' = clock
  BY DEF Start, Restart
<1>2. ASSUME NEW a \in Authorization
      PROVE  AuthFact(a) /\ auth'[a].stage \notin {"session", "code"}
  <2>1. auth[a] \in AuthLocal
    BY DEF AInv, OInv, OTypeOK
  <2>2. auth'[a] = IF auth[a].stage \in {"idle", "granted"} THEN auth[a]
                   ELSE [auth[a] EXCEPT !.stage = "done"]
    BY DEF Start, Restart
  <2> QED
    BY <2>1, <2>2 DEF AuthFact, AuthLocal
<1>3. ASSUME NEW x \in Exchange
      PROVE  /\ ExchangeFact(x) /\ TokenFact(x)
             /\ exchange'[x].stage \notin {"sign", "remove"}
  <2>1. exchange[x] \in ExchangeLocal
    BY DEF AInv, OInv, OTypeOK
  <2>2. exchange'[x] = IF exchange[x].stage = "idle" THEN exchange[x]
                       ELSE [exchange[x] EXCEPT !.stage = "done"]
    BY DEF Start, Restart
  <2> QED
    BY <1>1, <2>1, <2>2 DEF ExchangeFact, TokenFact, ExchangeLocal
<1>4. ASSUME NEW q \in Request
      PROVE  RequestFact(q) /\ AnswerFact(q) /\ request'[q].stage # "read"
  <2>1. request'[q] = IF request[q].stage = "read"
                      THEN [NoRequest EXCEPT !.stage = "done"] ELSE request[q]
    BY DEF Start
  <2> QED
    BY <2>1 DEF Start, RequestFact, AnswerFact, NoRequest
<1>5. StartFact
  BY <1>1, <1>2, <1>3, <1>4 DEF StartFact
<1>6. SessionFact /\ CodeFact
  BY <1>1 DEF SessionFact, CodeFact
<1>7. ClockFact /\ ShownFact
  BY <1>1 DEF Start, ClockFact, ShownFact, AInv, OInv, OTypeOK
<1>8. \A u \in User : AccountFact(u)
  <2>1. keys' # keys
    BY <1>1 DEF AInv, OInv, OTypeOK
  <2> QED
    BY <2>1 DEF Start, AccountFact
<1> QED
  BY <1>2, <1>3, <1>4, <1>5, <1>6, <1>7, <1>8 DEF StepFacts

-----------------------------------------------------------------------------
(* The steps of Oidc that neither read nor change an account.              *)

LEMMA FactsNewSession ==
    ASSUME AInv, NEW a \in Authorization, NewSession(a),
           UNCHANGED <<accountVars, historyVars>>
    PROVE  StepFacts
<1>1. \A b \in Authorization : AuthFact(b)
  <2> DEFINE stage == IF auth[a].client = None THEN "done" ELSE "code"
  <2>1. stage \in {"done", "code"} /\ auth' = [auth EXCEPT ![a].stage = stage]
    BY DEF NewSession
  <2> HIDE DEF stage
  <2> QED
    BY <2>1, AuthStage1 DEF NewSession, AInv
<1>2. SessionFact /\ CodeFact
  BY DEF NewSession, SessionFact, CodeFact
<1>3. UNCHANGED <<exchange, tokens, keys, clock>>
  BY DEF NewSession
<1> QED
  BY <1>1, <1>2, <1>3, SameExchange, SameAccount, SameRequest, SameClock
     DEF StepFacts, AInv, accountVars

\* A token request that moves on, or begins, and leaves the stores alone.
LEMMA ExchangeQuiet ==
    ASSUME AInv, UNCHANGED <<session_store, code_store, auth, keys, clock>>,
           UNCHANGED <<accountVars, historyVars>>,
           \A x \in Exchange : ExchangeFact(x) /\ TokenFact(x)
    PROVE  StepFacts
  BY SameAuth, SameStores, SameAccount, SameRequest, SameClock
     DEF StepFacts, AInv, accountVars

LEMMA ExchangeBy ==
    ASSUME OInv, NEW x \in Exchange, NEW r,
           exchange' = [exchange EXCEPT ![x] = r], UNCHANGED <<tokens, clock>>
    PROVE  /\ exchange'[x] = r
           /\ \A y \in Exchange \ {x} : ExchangeFact(y) /\ TokenFact(y)
           /\ TokenFact(x)
  BY DEF OInv, OTypeOK, ExchangeFact, TokenFact

LEMMA FactsExchangeBegin ==
    ASSUME AInv, NEW x \in Exchange, ExchangeBegin(x),
           UNCHANGED <<accountVars, historyVars>>
    PROVE  StepFacts
<1>1. PICK code \in Authorization, client \in Client, redirect \in Redirect :
         exchange' = [exchange EXCEPT ![x] =
             [NoExchange EXCEPT !.stage = "lookup", !.code = code,
                                !.client = client, !.redirect = redirect]]
  BY DEF ExchangeBegin
<1> DEFINE r == [NoExchange EXCEPT !.stage = "lookup", !.code = code,
                                   !.client = client, !.redirect = redirect]
<1>2. r.stage = "lookup"
  BY DEF NoExchange
<1>3. exchange' = [exchange EXCEPT ![x] = r]
  BY <1>1
<1> HIDE DEF r
<1>4. ExchangeFact(x)
  BY <1>2, <1>3, ExchangeBy DEF ExchangeBegin, ExchangeFact, AInv
<1>5. \A y \in Exchange : ExchangeFact(y) /\ TokenFact(y)
  BY <1>3, <1>4, ExchangeBy DEF ExchangeBegin, AInv
<1> QED
  BY <1>5, ExchangeQuiet DEF ExchangeBegin

LEMMA FactsLookup ==
    ASSUME AInv, NEW x \in Exchange, Lookup(x),
           UNCHANGED <<accountVars, historyVars>>
    PROVE  StepFacts
<1>1. PICK c \in code_store :
         /\ Redeemable(c, x)
         /\ exchange' = [exchange EXCEPT ![x].stage = "sign",
                                         ![x].session = c]
  BY DEF Lookup
<1> DEFINE r == [exchange[x] EXCEPT !.stage = "sign", !.session = c]
<1>2. exchange[x] \in ExchangeLocal
  BY DEF AInv, OInv, OTypeOK
<1>3. r.stage = "sign" /\ r.session = c
  BY <1>2 DEF ExchangeLocal
<1>4. exchange' = [exchange EXCEPT ![x] = r]
  BY <1>1 DEF AInv, OInv, OTypeOK, ExchangeLocal
<1> HIDE DEF r
<1>5. ExchangeFact(x)
  BY <1>1, <1>3, <1>4, ExchangeBy DEF Lookup, ExchangeFact, Redeemable, AInv
<1>6. \A y \in Exchange : ExchangeFact(y) /\ TokenFact(y)
  BY <1>4, <1>5, ExchangeBy DEF Lookup, AInv
<1> QED
  BY <1>6, ExchangeQuiet DEF Lookup

LEMMA FactsRefuse ==
    ASSUME AInv, NEW x \in Exchange, Refuse(x),
           UNCHANGED <<accountVars, historyVars>>
    PROVE  StepFacts
<1> DEFINE r == [exchange[x] EXCEPT !.stage = "done"]
<1>1. exchange[x] \in ExchangeLocal
  BY DEF AInv, OInv, OTypeOK
<1>2. r.stage = "done" /\ r.session = exchange[x].session
  BY <1>1 DEF ExchangeLocal
<1>3. exchange' = [exchange EXCEPT ![x] = r]
  BY DEF Refuse, AInv, OInv, OTypeOK
<1> HIDE DEF r
<1>4. ExchangeFact(x)
  BY <1>2, <1>3, ExchangeBy DEF Refuse, ExchangeFact, AInv
<1>5. \A y \in Exchange : ExchangeFact(y) /\ TokenFact(y)
  BY <1>3, <1>4, ExchangeBy DEF Refuse, AInv
<1> QED
  BY <1>5, ExchangeQuiet DEF Refuse

LEMMA FactsSign ==
    ASSUME AInv, NEW x \in Exchange, Sign(x),
           UNCHANGED <<accountVars, historyVars>>
    PROVE  StepFacts
<1> DEFINE c == exchange[x].session
           t == [nonce |-> c.id, user |-> c.user, client |-> exchange[x].client,
                 kid |-> keys, exp |-> clock + TokenTTL]
           r == [exchange[x] EXCEPT !.stage = "remove", !.token = t]
<1>1. exchange[x] \in ExchangeLocal
  BY DEF AInv, OInv, OTypeOK
<1>2. exchange' = [exchange EXCEPT ![x] = r]
  BY <1>1 DEF Sign, AInv, OInv, OTypeOK, ExchangeLocal
<1>3. t.kid = keys /\ t.exp = clock + TokenTTL
  OBVIOUS
<1> HIDE DEF t
<1>4. r.stage = "remove" /\ r.session = exchange[x].session /\ r.token = t
  BY <1>1 DEF ExchangeLocal
<1> HIDE DEF r
<1>5. ExchangeFact(x)
  BY <1>2, <1>3, <1>4, ExchangeBy DEF Sign, ExchangeFact, AInv
<1>6. \A y \in Exchange : ExchangeFact(y) /\ TokenFact(y)
  BY <1>2, <1>5, ExchangeBy DEF Sign, AInv
<1> QED
  BY <1>6, ExchangeQuiet DEF Sign

LEMMA FactsRemove ==
    ASSUME AInv, NEW x \in Exchange, Remove(x),
           UNCHANGED <<accountVars, historyVars>>
    PROVE  StepFacts
<1> DEFINE r == [exchange[x] EXCEPT !.stage = "done"]
<1>1. exchange[x] \in ExchangeLocal
  BY DEF AInv, OInv, OTypeOK
<1>2. r.stage = "done" /\ r.session = exchange[x].session
  BY <1>1 DEF ExchangeLocal
<1>3. exchange' = [exchange EXCEPT ![x] = r]
  BY DEF Remove, AInv, OInv, OTypeOK
<1> HIDE DEF r
<1>4. exchange'[x] = r /\ \A y \in Exchange \ {x} : exchange'[y] = exchange[y]
  BY <1>3 DEF AInv, OInv, OTypeOK
<1>5. tokens'[x] = exchange[x].token
      /\ \A y \in Exchange \ {x} : tokens'[y] = tokens[y]
  BY DEF Remove, AInv, OInv, OTypeOK
<1>6. UNCHANGED <<session_store, auth, keys, clock, whitelist>>
  BY DEF Remove, accountVars
<1>7. \A y \in Exchange : ExchangeFact(y) /\ TokenFact(y)
  BY <1>2, <1>4, <1>5, <1>6 DEF Remove, ExchangeFact, TokenFact
<1>8. SessionFact /\ CodeFact
  BY DEF Remove, SessionFact, CodeFact
<1> QED
  BY <1>6, <1>7, <1>8, SameAuth, SameAccount, SameRequest, SameClock
     DEF StepFacts, AInv, accountVars

LEMMA FactsShrink ==
    ASSUME AInv,
           (\E s \in session_store : Logout(s)) \/ CleanSessions \/ CleanCodes,
           UNCHANGED <<accountVars, historyVars>>
    PROVE  StepFacts
<1>1. UNCHANGED <<auth, exchange, tokens, keys, clock>>
  BY DEF Logout, CleanSessions, CleanCodes
<1>2. session_store' \subseteq session_store /\ code_store' \subseteq code_store
  BY DEF Logout, CleanSessions, CleanCodes
<1>3. SessionFact /\ CodeFact
  BY <1>2 DEF SessionFact, CodeFact
<1> QED
  BY <1>1, <1>3, SameAuth, SameExchange, SameAccount, SameRequest, SameClock
     DEF StepFacts, AInv, accountVars

LEMMA FactsClock ==
    ASSUME AInv, Pass \/ StepBack, UNCHANGED <<accountVars, historyVars>>
    PROVE  StepFacts
<1>1. UNCHANGED <<session_store, code_store, auth, exchange, tokens, keys>>
  BY DEF Pass, Tick, StepBack
<1>2. ClockFact
  BY DEF Pass, Tick, StepBack, ClockFact, AInv, OInv, OTypeOK
<1>3. StartFact
  BY <1>1 DEF StartFact, accountVars
<1> QED
  BY <1>1, <1>2, <1>3, SameAuth, SameStores, SameExchange, SameAccount, SameRequest
     DEF StepFacts, AInv, accountVars

LEMMA Facts == ASSUME AInv, ANext PROVE StepFacts
<1>1. CASE \E a \in Authorization : Login(a) \/ Continue(a) \/ Issue(a)
  BY <1>1, FactsLogin, FactsContinue, FactsIssue
<1>2. CASE \E u \in User : SetAccount(u)
  BY <1>2, FactsSetAccount
<1>3. CASE \E q \in Request : \/ UserinfoAnswer(q)
                              \/ \E x \in Exchange : UserinfoVerify(q, x)
  BY <1>3, FactsUserinfo
<1>4. CASE Start
  BY <1>4, FactsStart
<1>5. CASE Elsewhere
  <2>1. UNCHANGED <<accountVars, historyVars>>
    BY <1>5 DEF Elsewhere
  <2>2. CASE \E a \in Authorization : NewSession(a)
    BY <2>1, <2>2, FactsNewSession
  <2>3. CASE (\E s \in session_store : Logout(s)) \/ Cleanup
    BY <2>1, <2>3, FactsShrink DEF Cleanup
  <2>4. ASSUME NEW x \in Exchange, ExchangeBegin(x) \/ ExchangeStep(x)
        PROVE  StepFacts
    BY <2>1, <2>4, FactsExchangeBegin, FactsLookup, FactsRefuse, FactsSign,
       FactsRemove DEF ExchangeStep
  <2>5. CASE Pass \/ StepBack
    BY <2>1, <2>5, FactsClock
  <2> QED
    BY <1>5, <2>2, <2>3, <2>4, <2>5 DEF Elsewhere
<1> QED
  BY <1>1, <1>2, <1>3, <1>4, <1>5 DEF ANext

-----------------------------------------------------------------------------
(* Each part of the invariant survives what a step does.                   *)

LEMMA TypeStep == ASSUME AInv, ANext, OInv' PROVE ATypeOK'
<1> USE DEF AInv, ATypeOK
<1>1. OTypeOK'
  BY DEF OInv
<1>2. CASE \E a \in Authorization : Login(a) \/ Continue(a)
  <2>1. account' \in [User -> AccountState]
    BY <1>2 DEF Login, Continue, Admit, AccountState
  <2>2. UNCHANGED <<whitelist, request, answer, historyVars>>
    BY <1>2 DEF Login, Continue, Admit
  <2> QED
    BY <1>1, <2>1, <2>2 DEF historyVars
<1>3. CASE \E a \in Authorization : Issue(a)
  <2>1. PICK a \in Authorization : Issue(a)
    BY <1>3
  <2>2. auth[a].client \in Client
    BY <2>1, RegisteredAssumption DEF OInv, Admitted, Issue, IssueCode
  <2>3. whitelist[auth[a].client] \in SUBSET Field
    BY <2>2, ConfigurationAssumption
  <2> QED
    BY <1>1, <2>1, <2>3 DEF Issue, accountVars
<1>4. CASE \E u \in User : SetAccount(u)
  BY <1>1, <1>4 DEF SetAccount
<1>5. CASE \E q \in Request, x \in Exchange : UserinfoVerify(q, x)
  BY <1>1, <1>5 DEF UserinfoVerify, RequestLocal, historyVars
<1>6. CASE \E q \in Request : UserinfoAnswer(q)
  <2>1. PICK q \in Request : UserinfoAnswer(q)
    BY <1>6
  <2> DEFINE x == request[q].by
             n == [by |-> x, fields |-> whitelist[tokens[x].client]]
  <2>2. x \in Exchange /\ tokens[x] \in Token
    BY <2>1 DEF UserinfoAnswer, Keyed, OTypeOK
  <2>3. whitelist[tokens[x].client] \in SUBSET Field
    BY <2>2, ConfigurationAssumption DEF Token
  <2>4. n \in Answer
    BY <2>2, <2>3 DEF Answer
  <2>5. answer' \in [Request -> Answer \cup {None}]
    BY <2>1, <2>4 DEF UserinfoAnswer
  <2>6. request' \in [Request -> RequestLocal]
    BY <2>1 DEF UserinfoAnswer, NoRequest, RequestLocal
  <2> QED
    BY <1>1, <2>1, <2>5, <2>6 DEF UserinfoAnswer, historyVars
<1>7. CASE Start
  BY <1>1, <1>7 DEF Start, RequestLocal, NoRequest
<1>8. CASE Elsewhere
  BY <1>1, <1>8 DEF Elsewhere, accountVars, historyVars
<1> QED
  BY <1>2, <1>3, <1>4, <1>5, <1>6, <1>7, <1>8 DEF ANext

LEMMA TracedStep == ASSUME AInv, StepFacts, OInv' PROVE Traced'
<1> USE DEF AInv, StepFacts
<1>1. ASSUME NEW a \in Authorization, auth[a].user \in User
      PROVE  auth'[a].user = auth[a].user
  BY <1>1, NoneAssumption DEF Traced, AuthFact
<1>2. \A a \in Authorization : auth'[a].stage = "idle" => auth'[a].user = None
  BY DEF Traced, AuthFact
<1>3. ASSUME NEW s \in session_store' PROVE auth'[s.id].user = s.user
  <2>1. s.id \in Authorization /\ s.user \in User
    BY DEF OInv, OTypeOK, Session
  <2>2. auth[s.id].user = s.user
    BY DEF Traced, SessionFact
  <2> QED
    BY <1>1, <2>1, <2>2
<1>4. ASSUME NEW c \in code_store' PROVE auth'[c.id].user = c.user
  <2>1. c.id \in Authorization /\ c.user \in User
    BY DEF OInv, OTypeOK, Code
  <2>2. auth[c.id].user = c.user
    BY DEF Traced, CodeFact
  <2> QED
    BY <1>1, <2>1, <2>2
<1>5. ASSUME NEW x \in Exchange, tokens'[x] # None
      PROVE  /\ auth'[tokens'[x].nonce].user = tokens'[x].user
             /\ auth'[tokens'[x].nonce].stage = "granted"
  <2>1. tokens'[x].nonce \in Authorization /\ tokens'[x].user \in User
    BY <1>5 DEF OInv, OTypeOK, Token
  <2>2. /\ auth[tokens'[x].nonce].user = tokens'[x].user
        /\ auth[tokens'[x].nonce].stage = "granted"
    <3>1. CASE tokens'[x] = tokens[x]
      BY <1>5, <3>1 DEF Traced
    <3>2. CASE exchange[x].stage = "remove" /\ tokens'[x] = exchange[x].token
      BY <3>2 DEF Traced, OInv, Signed, Holding, Unique
    <3> QED
      BY <3>1, <3>2 DEF TokenFact
  <2> QED
    BY <1>1, <2>1, <2>2 DEF AuthFact
<1> QED
  BY <1>2, <1>3, <1>4, <1>5 DEF Traced

LEMMA KeyedStep == ASSUME AInv, StepFacts, OInv' PROVE Keyed'
<1> USE DEF AInv, StepFacts
<1>1. keys' = keys \/ (/\ keys' = keys + 1
                      /\ tokens' = tokens
                      /\ \A x \in Exchange : exchange'[x].stage # "remove"
                      /\ \A q \in Request : request'[q].stage # "read")
  BY DEF StartFact
<1>2. keys \in Nat
  BY DEF OInv, OTypeOK
<1>3. ASSUME NEW x \in Exchange, tokens'[x] # None PROVE tokens'[x].kid <= keys'
  <2>1. tokens'[x].kid \in Nat
    BY <1>3 DEF OInv, OTypeOK, Token
  <2> QED
    BY <1>1, <1>2, <1>3, <2>1 DEF TokenFact, Keyed
<1>4. ASSUME NEW x \in Exchange, exchange'[x].stage = "remove"
      PROVE  exchange'[x].token.kid = keys'
  BY <1>1, <1>4 DEF ExchangeFact, Keyed
<1>5. ASSUME NEW q \in Request
      PROVE  IF request'[q].stage = "read"
             THEN /\ request'[q].by \in Exchange
                  /\ tokens'[request'[q].by] # None
                  /\ tokens'[request'[q].by].kid = keys'
             ELSE request'[q].by = None
  <2>1. CASE request'[q] = request[q]
    <3>1. CASE request[q].stage # "read"
      BY <2>1, <3>1 DEF Keyed
    <3>2. CASE request[q].stage = "read"
      <4>1. /\ request[q].by \in Exchange /\ tokens[request[q].by] # None
            /\ tokens[request[q].by].kid = keys
        BY <3>2 DEF Keyed
      <4>2. tokens'[request[q].by] = tokens[request[q].by]
        BY <4>1 DEF TokenFact, OInv, Unanswered
      <4> QED
        BY <1>1, <2>1, <3>2, <4>1, <4>2
    <3> QED
      BY <3>1, <3>2
  <2>2. CASE request'[q].stage = "done" /\ request'[q].by = None
    BY <2>2
  <2>3. CASE /\ request'[q].stage = "read" /\ request'[q].by \in Exchange
             /\ tokens[request'[q].by] # None /\ Valid(tokens[request'[q].by])
             /\ tokens' = tokens /\ keys' = keys
    BY <2>3 DEF Valid
  <2> QED
    BY <2>1, <2>2, <2>3 DEF RequestFact
<1> QED
  BY <1>3, <1>4, <1>5 DEF Keyed

\* A token request that has its answer keeps what it answered for.
LEMMA AnsweredStays ==
    ASSUME AInv, StepFacts, NEW x \in Exchange, tokens[x] # None
    PROVE  tokens'[x] = tokens[x] /\ exchange'[x].session = exchange[x].session
<1>1. exchange[x].stage = "done"
  BY DEF AInv, OInv, Unanswered
<1> QED
  BY <1>1 DEF StepFacts, TokenFact, ExchangeFact

LEMMA TimelyStep == ASSUME AInv, StepFacts, OInv' PROVE Timely'
<1> USE DEF AInv, StepFacts
<1>1. clock \in Nat /\ clock' \in Nat /\ CodeTTL \in Nat /\ TokenTTL \in Nat
  BY NumbersAssumption DEF OInv, OTypeOK
<1>3. ASSUME NEW x \in Exchange, exchange'[x].stage = "sign"
      PROVE  clock' <= exchange'[x].session.created_at + CodeTTL
  <2>1. CASE exchange'[x] = exchange[x]
    <3>1. exchange[x].session.created_at \in Nat
      BY <1>3, <2>1 DEF OInv, Holding, OTypeOK, Code
    <3>2. clock <= exchange[x].session.created_at + CodeTTL
      BY <1>3, <2>1 DEF Timely
    <3>3. clock' = clock \/ clock' < clock
      BY <1>3, <2>1 DEF ClockFact
    <3> QED
      BY <1>1, <2>1, <3>1, <3>2, <3>3
  <2>2. CASE /\ exchange'[x].session \in code_store
             /\ Elapsed(exchange'[x].session.created_at) <= CodeTTL
             /\ clock' = clock
    <3>1. exchange'[x].session.created_at \in Nat
      BY <2>2 DEF OInv, OTypeOK, Code
    <3> QED
      BY <1>1, <2>2, <3>1 DEF Elapsed
  <2> QED
    BY <1>3, <2>1, <2>2 DEF ExchangeFact
<1>4. ASSUME NEW x \in Exchange, exchange'[x].stage = "remove"
      PROVE  exchange'[x].token.exp
                <= exchange'[x].session.created_at + CodeTTL + TokenTTL
  <2>1. CASE exchange'[x] = exchange[x]
    BY <1>4, <2>1 DEF Timely
  <2>2. CASE /\ exchange[x].stage = "sign"
             /\ exchange'[x].session = exchange[x].session
             /\ exchange'[x].token.exp = clock + TokenTTL
    <3>1. clock <= exchange[x].session.created_at + CodeTTL
      BY <2>2 DEF Timely
    <3>2. exchange[x].session.created_at \in Nat
      BY <2>2 DEF OInv, Holding, OTypeOK, Code
    <3> QED
      BY <1>1, <2>2, <3>1, <3>2
  <2> QED
    BY <1>4, <2>1, <2>2 DEF ExchangeFact
<1>5. ASSUME NEW x \in Exchange, tokens'[x] # None
      PROVE  /\ exchange'[x].session \in Code
             /\ tokens'[x].exp
                   <= exchange'[x].session.created_at + CodeTTL + TokenTTL
  <2>1. CASE tokens[x] # None
    BY <2>1, AnsweredStays DEF Timely
  <2>2. CASE tokens[x] = None
    <3>1. exchange[x].stage = "remove" /\ tokens'[x] = exchange[x].token
      BY <1>5, <2>2 DEF TokenFact
    <3>2. exchange'[x].session = exchange[x].session
      BY <3>1 DEF ExchangeFact
    <3>3. exchange[x].session \in Code
      BY <3>1 DEF OInv, Holding, OTypeOK
    <3> QED
      BY <3>1, <3>2, <3>3 DEF Timely
  <2> QED
    BY <2>1, <2>2
<1> QED
  BY <1>3, <1>4, <1>5 DEF Timely

LEMMA EntitledStep == ASSUME AInv, StepFacts, OInv' PROVE Entitled'
<1> USE DEF AInv, StepFacts
<1>1. ASSUME NEW a \in Authorization, auth[a].stage = "granted"
      PROVE  shown'[a] = shown[a]
  BY <1>1 DEF ShownFact
<1>2. ASSUME NEW c \in code_store' PROVE shown'[c.id] = whitelist'[c.client]
  <2>1. CASE c \in code_store
    <3>1. c.id \in Authorization /\ auth[c.id].stage = "granted"
      BY <2>1 DEF OInv, OTypeOK, Code, Unique
    <3>2. whitelist' = whitelist
      BY DEF StartFact
    <3> QED
      BY <1>1, <2>1, <3>1, <3>2 DEF Entitled
  <2>2. CASE c \notin code_store
    BY <2>2 DEF CodeFact
  <2> QED
    BY <2>1, <2>2
<1>3. ASSUME NEW x \in Exchange, tokens'[x] # None, tokens'[x].kid = keys'
      PROVE  shown'[tokens'[x].nonce] = whitelist'[tokens'[x].client]
  <2>1. CASE tokens[x] # None
    <3>1. tokens'[x] = tokens[x]
      BY <2>1, AnsweredStays
    <3>2. keys' = keys /\ whitelist' = whitelist
      <4>1. tokens[x].kid <= keys /\ tokens[x].kid \in Nat /\ keys \in Nat
        BY <2>1 DEF Keyed, OInv, OTypeOK, Token
      <4> QED
        BY <1>3, <3>1, <4>1 DEF StartFact
    <3>3. tokens[x].nonce \in Authorization
             /\ auth[tokens[x].nonce].stage = "granted"
      BY <2>1 DEF Traced, OInv, OTypeOK, Token
    <3> QED
      BY <1>1, <1>3, <2>1, <3>1, <3>2, <3>3 DEF Entitled
  <2>2. CASE tokens[x] = None
    <3>1. /\ exchange[x].stage = "remove" /\ tokens'[x] = exchange[x].token
          /\ keys' = keys /\ whitelist' = whitelist
      BY <1>3, <2>2 DEF TokenFact
    <3> DEFINE c == exchange[x].session
    <3>2. c \in code_store /\ tokens'[x].nonce = c.id /\ tokens'[x].client = c.client
      BY <3>1 DEF OInv, Holding, Signed
    <3>3. c.id \in Authorization /\ auth[c.id].stage = "granted"
      BY <3>2 DEF OInv, OTypeOK, Code, Unique
    <3>4. shown[c.id] = whitelist[c.client]
      BY <3>2 DEF Entitled
    <3> QED
      BY <1>1, <3>1, <3>2, <3>3, <3>4
  <2> QED
    BY <2>1, <2>2
<1>4. ASSUME NEW q \in Request, answer'[q] # None
      PROVE  /\ tokens'[answer'[q].by] # None
             /\ answer'[q].fields \subseteq shown'[tokens'[answer'[q].by].nonce]
  <2> DEFINE x == answer'[q].by
  <2>1. /\ x \in Exchange /\ tokens[x] # None
        /\ answer'[q].fields \subseteq shown[tokens[x].nonce]
    <3>1. CASE answer'[q] = answer[q]
      <4>1. answer[q] \in Answer
        BY <1>4, <3>1 DEF ATypeOK
      <4> QED
        BY <1>4, <3>1, <4>1 DEF Entitled, FieldsAuthorized, Answer
    <3>2. CASE /\ request[q].stage = "read"
               /\ answer'[q] = [by |-> request[q].by,
                       fields |-> whitelist[tokens[request[q].by].client]]
      <4>1. x = request[q].by /\ answer'[q].fields = whitelist[tokens[x].client]
        BY <3>2
      <4>2. x \in Exchange /\ tokens[x] # None /\ tokens[x].kid = keys
        BY <3>2, <4>1 DEF Keyed
      <4> HIDE DEF x
      <4> QED
        BY <4>1, <4>2 DEF Entitled
    <3> QED
      BY <3>1, <3>2 DEF AnswerFact
  <2> HIDE DEF x
  <2>2. tokens'[x] = tokens[x]
    BY <2>1, AnsweredStays
  <2>3. tokens[x].nonce \in Authorization
           /\ auth[tokens[x].nonce].stage = "granted"
    BY <2>1 DEF Traced, OInv, OTypeOK, Token
  <2>4. shown'[tokens[x].nonce] = shown[tokens[x].nonce]
    BY <1>1, <2>3
  <2> QED
    BY <2>1, <2>2, <2>4 DEF x
<1> QED
  BY <1>2, <1>3, <1>4 DEF Entitled, FieldsAuthorized

-----------------------------------------------------------------------------
(* What is still within reach of an account.                               *)

\* While an account stays locked, nothing comes within its reach.
LEMMA WithinShrinks ==
    ASSUME AInv, StepFacts, OInv', NEW u \in User, account'[u] = "Locked"
    PROVE  Within(u)' \subseteq Within(u)
<1> USE DEF AInv, StepFacts
<1>1. ASSUME NEW a \in Authorization, auth'[a].user = u,
             auth'[a].stage \in {"session", "code"}
      PROVE  a \in Within(u)
  <2>1. auth[a].user = u /\ auth[a].stage \in {"session", "code"}
    BY <1>1 DEF AuthFact
  <2> QED
    BY <2>1 DEF Within
<1>2. ASSUME NEW s \in session_store', s.user = u PROVE s.id \in Within(u)
  <2>1. s.id \in Authorization
    BY DEF OInv, OTypeOK, Session
  <2>2. CASE s \in session_store
    BY <1>2, <2>2 DEF Within, ProfileReaders
  <2>3. CASE s \notin session_store
    BY <1>2, <2>1, <2>3 DEF SessionFact, Within
  <2> QED
    BY <2>2, <2>3
<1>3. ASSUME NEW c \in code_store', c.user = u PROVE c.id \in Within(u)
  <2>1. c.id \in Authorization
    BY DEF OInv, OTypeOK, Code
  <2>2. CASE c \in code_store
    BY <1>3, <2>2 DEF Within
  <2>3. CASE c \notin code_store
    BY <1>3, <2>1, <2>3 DEF CodeFact, Within
  <2> QED
    BY <2>2, <2>3
<1>4. ASSUME NEW x \in Exchange, exchange'[x].stage \in {"sign", "remove"},
             exchange'[x].session.user = u
      PROVE  exchange'[x].session.id \in Within(u)
  <2>1. CASE /\ exchange[x].stage \in {"sign", "remove"}
             /\ exchange'[x].session = exchange[x].session
    BY <1>4, <2>1 DEF Within
  <2>2. CASE exchange'[x].session \in code_store
    BY <1>4, <2>2 DEF Within
  <2> QED
    BY <1>4, <2>1, <2>2 DEF ExchangeFact
<1>5. ASSUME NEW x \in Exchange, tokens'[x] # None, tokens'[x].user = u,
             tokens'[x].kid = keys'
      PROVE  tokens'[x].nonce \in Within(u)
  <2>1. CASE tokens[x] = None
    <3>1. exchange[x].stage = "remove" /\ tokens'[x] = exchange[x].token
      BY <1>5, <2>1 DEF TokenFact
    <3>2. /\ exchange[x].session.user = u
          /\ exchange[x].session.id = tokens'[x].nonce
      BY <1>5, <3>1 DEF OInv, Signed
    <3> QED
      BY <3>1, <3>2 DEF Within
  <2>2. CASE tokens[x] # None
    <3>1. tokens'[x] = tokens[x]
      BY <2>2, AnsweredStays
    <3>2. tokens[x].kid \in Nat /\ keys \in Nat /\ tokens[x].kid <= keys
      BY <2>2 DEF OInv, OTypeOK, Token, Keyed
    <3>3. tokens[x].kid = keys
      BY <1>5, <3>1, <3>2 DEF StartFact
    <3> QED
      BY <1>5, <2>2, <3>1, <3>3 DEF Within
  <2> QED
    BY <2>1, <2>2
<1>6. ASSUME NEW a \in Within(u)'
      PROVE  \/ a \in Authorization /\ auth'[a].user = u
                                    /\ auth'[a].stage \in {"session", "code"}
             \/ \E s \in session_store' : s.user = u /\ a = s.id
             \/ \E c \in code_store' : c.user = u /\ a = c.id
             \/ \E x \in Exchange : /\ exchange'[x].stage \in {"sign", "remove"}
                                    /\ exchange'[x].session.user = u
                                    /\ a = exchange'[x].session.id
             \/ \E x \in Exchange :
                   /\ tokens'[x] # None /\ tokens'[x].user = u
                   /\ tokens'[x].kid = keys'
                   /\ a = tokens'[x].nonce
  BY DEF Within, ProfileReaders
<1> QED
  BY <1>1, <1>2, <1>3, <1>4, <1>5, <1>6

\* Only requests of the user's own are ever within reach.
LEMMA WithinOwn ==
    ASSUME AInv, NEW u \in User
    PROVE  Within(u) \subseteq {a \in Authorization : auth[a].user = u}
<1> USE DEF AInv, OInv, OTypeOK
<1>1. \A s \in session_store : s.user = u =>
         s.id \in Authorization /\ auth[s.id].user = u
  BY DEF Session, Traced
<1>2. \A c \in code_store : c.user = u =>
         c.id \in Authorization /\ auth[c.id].user = u
  BY DEF Code, Traced
<1>3. \A x \in Exchange : exchange[x].stage \in {"sign", "remove"} =>
         exchange[x].session \in code_store
  BY DEF Holding
<1>4. \A x \in Exchange : tokens[x] # None =>
         /\ tokens[x].nonce \in Authorization
         /\ auth[tokens[x].nonce].user = tokens[x].user
  BY DEF Token, Traced
<1> QED
  BY <1>1, <1>2, <1>3, <1>4 DEF Within, ProfileReaders

LEMMA LockStep == ASSUME AInv, StepFacts, OInv' PROVE LockKept'
<1> SUFFICES ASSUME NEW u \in User, account'[u] = "Locked"
             PROVE  Within(u)' \subseteq earlier'[u]
  BY DEF LockKept
<1>1. Within(u)' \subseteq Within(u)
  BY WithinShrinks
<1>2. CASE account[u] = "Locked" /\ earlier'[u] = earlier[u]
  BY <1>1, <1>2 DEF AInv, LockKept
<1>3. CASE earlier'[u] = {a \in Authorization : auth[a].user = u}
  BY <1>1, <1>3, WithinOwn
<1> QED
  BY <1>2, <1>3 DEF StepFacts, AccountFact

\* A start leaves nothing that could reach any account.
LEMMA StartEmpties ==
    ASSUME AInv, StepFacts, Keyed', OInv', keys' # keys, NEW u \in User
    PROVE  Within(u)' = {}
<1>1. /\ session_store' = {} /\ code_store' = {} /\ tokens' = tokens
      /\ keys' = keys + 1
      /\ \A a \in Authorization : auth'[a].stage \notin {"session", "code"}
      /\ \A x \in Exchange : exchange'[x].stage \notin {"sign", "remove"}
      /\ \A q \in Request : request'[q].stage # "read"
  BY DEF StepFacts, StartFact
<1>2. ASSUME NEW x \in Exchange, tokens'[x] # None PROVE tokens'[x].kid # keys'
  <2>1. tokens[x].kid \in Nat /\ keys \in Nat /\ tokens[x].kid <= keys
    BY <1>1, <1>2 DEF AInv, Keyed, OInv, OTypeOK, Token
  <2> QED
    BY <1>1, <2>1
<1> QED
  BY <1>1, <1>2 DEF Within, ProfileReaders

LEMMA CutStep == ASSUME AInv, StepFacts, OInv', Keyed', ATypeOK' PROVE CutOff'
<1> SUFFICES ASSUME NEW u \in cut' PROVE account'[u] = "Locked" /\ Within(u)' = {}
  BY DEF CutOff
<1>1. u \in User
  BY DEF ATypeOK
<1>2. account'[u] = "Locked" /\ (u \in cut \/ keys' # keys)
  BY <1>1 DEF StepFacts, AccountFact
<1>3. CASE u \in cut
  BY <1>1, <1>2, <1>3, WithinShrinks DEF AInv, CutOff
<1>4. CASE keys' # keys
  BY <1>1, <1>2, <1>4, StartEmpties
<1> QED
  BY <1>2, <1>3, <1>4

-----------------------------------------------------------------------------
LEMMA AccessInit == AInit => AInv
<1> SUFFICES ASSUME AInit PROVE AInv
  OBVIOUS
<1>1. OInv
  BY InitInv DEF AInit
<1>2. ATypeOK
  BY <1>1, ConfigurationAssumption
     DEF AInit, ATypeOK, OInv, AccountState, RequestLocal, NoRequest
<1>3. Traced /\ Keyed /\ Timely
  BY DEF AInit, Init, Traced, Keyed, Timely, NoAuth, NoExchange, NoRequest
<1>4. Entitled
  BY DEF AInit, Init, Entitled, FieldsAuthorized
<1>5. LockKept /\ CutOff
  BY DEF AInit, LockKept, CutOff
<1> QED
  BY <1>1, <1>2, <1>3, <1>4, <1>5 DEF AInv

LEMMA AccessStep == ASSUME AInv, [ANext]_avars PROVE AInv'
<1>1. OInv'
  BY OidcInv DEF AInv
<1>2. CASE ANext
  <2>1. StepFacts
    BY <1>2, Facts
  <2>2. ATypeOK'
    BY <1>1, <1>2, TypeStep
  <2>3. Traced' /\ Timely' /\ Entitled'
    BY <1>1, <2>1, TracedStep, TimelyStep, EntitledStep
  <2>4. Keyed'
    BY <1>1, <2>1, KeyedStep
  <2>5. LockKept' /\ CutOff'
    BY <1>1, <2>1, <2>2, <2>4, LockStep, CutStep
  <2> QED
    BY <1>1, <2>2, <2>3, <2>4, <2>5 DEF AInv
<1>3. CASE UNCHANGED avars
  <2>1. ATypeOK'
    BY <1>3 DEF avars, vars, accountVars, historyVars, AInv, ATypeOK, OTypeOK
  <2>2. StepFacts
    BY <1>3, SameAuth, SameStores, SameExchange, SameAccount, SameRequest,
       SameClock DEF avars, vars, accountVars, StepFacts, AInv
  <2>3. Traced' /\ Timely' /\ Entitled' /\ Keyed'
    BY <1>1, <2>2, TracedStep, TimelyStep, EntitledStep, KeyedStep
  <2>4. LockKept' /\ CutOff'
    BY <1>1, <2>1, <2>2, <2>3, LockStep, CutStep
  <2> QED
    BY <1>1, <2>1, <2>3, <2>4 DEF AInv
<1> QED
  BY <1>2, <1>3

\* The inductive invariant holds, whatever logins, administrators, token and
\* userinfo requests, cleanups and starts do.
THEOREM AccessInvariance == ASpec => []AInv
<1>1. AInit => AInv
  BY AccessInit
<1>2. AInv /\ [ANext]_avars => AInv'
  BY AccessStep
<1> QED
  BY <1>1, <1>2, PTL DEF ASpec

\* Every variable of the composition keeps its type.
THEOREM AccessTyped == ASpec => []ATypeOK
<1>1. AInv => ATypeOK
  BY DEF AInv
<1> QED
  BY <1>1, AccessInvariance, PTL

\* A lock holds for everything after it: no session, continue, code, token or
\* userinfo request leads around it.
THEOREM LocksHold == ASpec => []LockHolds
<1>1. AInv => LockHolds
  BY ReachWithin DEF AInv, LockKept, LockHolds
<1> QED
  BY <1>1, AccessInvariance, PTL

\* Locking an account and starting the service anew ends all access to it.
THEOREM RestartsRevoke == ASpec => []RestartRevokes
<1>1. AInv => RestartRevokes
  <2> SUFFICES ASSUME AInv, NEW u \in cut PROVE Reach(u) = {}
    BY DEF RestartRevokes
  <2>1. u \in User /\ Within(u) = {}
    BY DEF AInv, ATypeOK, CutOff
  <2> QED
    BY <2>1, ReachWithin DEF AInv
<1> QED
  BY <1>1, AccessInvariance, PTL

\* userinfo takes a token only within the lives of its code and of the token.
THEOREM AccessIsBounded == ASpec => []AccessBounded
<1>1. AInv => AccessBounded
  <2> SUFFICES ASSUME AInv, NEW x \in Exchange, tokens[x] # None,
                      Valid(tokens[x])
               PROVE  clock <= exchange[x].session.created_at
                                  + CodeTTL + TokenTTL + Leeway
    BY DEF AccessBounded
  <2>1. /\ exchange[x].session.created_at \in Nat /\ tokens[x].exp \in Nat
        /\ tokens[x].exp <= exchange[x].session.created_at + CodeTTL + TokenTTL
    BY DEF AInv, Timely, OInv, OTypeOK, Code, Token
  <2>2. clock \in Nat /\ CodeTTL \in Nat /\ TokenTTL \in Nat /\ Leeway \in Nat
    BY NumbersAssumption, LeewayAssumption DEF AInv, OInv, OTypeOK
  <2> QED
    BY <2>1, <2>2 DEF Valid
<1> QED
  BY <1>1, AccessInvariance, PTL

\* A client is answered no fields but those configured when the user signed in.
THEOREM FieldsAsAuthorized == ASpec => []FieldsAuthorized
<1>1. AInv => FieldsAuthorized
  BY DEF AInv, Entitled
<1> QED
  BY <1>1, AccessInvariance, PTL

\* Accounts, configurations and userinfo leave codes to the token endpoint: the
\* composition implements Oidc, and each code is redeemed once at most.
THEOREM AccessImplementsOidc == ASpec => Spec /\ CodesOnce
<1>1. AInit => Init
  BY DEF AInit
<1>2. [ANext]_avars => [Next]_vars
  BY OidcStep DEF avars
<1>3. ASpec => Spec
  BY <1>1, <1>2, PTL DEF ASpec, Spec
<1> QED
  BY <1>3, CodesRedeemedOnce
=============================================================================
