---------------------------- MODULE OneTimeCode -----------------------------
(***************************************************************************)
(* What the authorization codes of zline_sso promise: a code stands for one *)
(* grant, is redeemed at most once, by the client it was granted to, for    *)
(* the user and the nonce of the grant, and may be forgotten at any time.   *)
(***************************************************************************)
EXTENDS Naturals

CONSTANTS Authorization,   \* authorization requests; each has its own nonce
          Exchange,        \* token requests
          User, Client,
          NoGrant          \* a token request that got nothing

\* A grant is named by the authorization request that obtained it.
Grant == [nonce: Authorization, user: User, client: Client]

VARIABLES outstanding,     \* grants whose code can still be redeemed
          spent,           \* authorization requests that have had a code
          redeemed         \* what each token request obtained

vars == <<outstanding, spent, redeemed>>

Init ==
    /\ outstanding = {}
    /\ spent = {}
    /\ redeemed = [x \in Exchange |-> NoGrant]

Issue(g) ==
    /\ g.nonce \notin spent
    /\ outstanding' = outstanding \cup {g}
    /\ spent' = spent \cup {g.nonce}
    /\ UNCHANGED redeemed

Redeem(x, g) ==
    /\ g \in outstanding
    /\ redeemed[x] = NoGrant
    /\ outstanding' = outstanding \ {g}
    /\ redeemed' = [redeemed EXCEPT ![x] = g]
    /\ UNCHANGED spent

Forget ==
    /\ outstanding' \in SUBSET outstanding
    /\ UNCHANGED <<spent, redeemed>>

Next ==
    \/ \E g \in Grant : Issue(g)
    \/ \E x \in Exchange, g \in outstanding : Redeem(x, g)
    \/ Forget

Spec == Init /\ [][Next]_vars
=============================================================================
