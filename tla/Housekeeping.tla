---------------------------- MODULE Housekeeping ----------------------------
(***************************************************************************)
(* The cleanup task of zline_sso with all it cleans: Oidc, where it takes   *)
(* the sessions and codes that are too old, and the GeoIP cache, which it   *)
(* empties when it has grown too large. Logins fill the cache meanwhile.    *)
(***************************************************************************)
EXTENDS Oidc, FiniteSets

CONSTANTS Address,     \* client addresses, as extract_client_ip returns them
          CacheMax     \* GEOIP_CACHE_MAX

ASSUME CacheMaxAssumption == CacheMax \in Nat

VARIABLES geoip_cache,   \* the keys of AppState.geoip_cache
          resolving,     \* the address a login request has not found there
          cache_next     \* is the cache what the cleanup turns to next?

geoVars == <<geoip_cache, resolving, cache_next>>
hvars == <<vars, geoVars>>

KTypeOK ==
    /\ OTypeOK
    /\ geoip_cache \in SUBSET Address
    /\ resolving \in [Authorization -> Address \cup {None}]
    /\ cache_next \in BOOLEAN

HInit ==
    /\ Init
    /\ geoip_cache = {}
    /\ resolving = [a \in Authorization |-> None]
    /\ cache_next = FALSE

-----------------------------------------------------------------------------
(* lookup_geo_location, the first thing a login request does. It takes the  *)
(* mutex of the cache once for the reading and once for the insertion. (An  *)
(* address found in the cache changes nothing.)                             *)

NotCached(a, ip) ==
    /\ auth[a].stage = "idle"
    /\ resolving[a] = None
    /\ ip \notin geoip_cache
    /\ resolving' = [resolving EXCEPT ![a] = ip]
    /\ UNCHANGED <<vars, geoip_cache, cache_next>>

\* Not the code: inserted whether or not something was resolved.
Bug_InsertAlways(a) ==
    /\ geoip_cache' = geoip_cache \cup {resolving[a]}
    /\ resolving' = [resolving EXCEPT ![a] = None]
    /\ UNCHANGED <<vars, cache_next>>

\* The request then goes on to its login, or is refused (a wrong client, a
\* payload that does not decrypt) and another one like it follows.
Insert(a) ==
    /\ resolving[a] # None
    /\ geoip_cache' = geoip_cache \cup {resolving[a]}
    /\ resolving' = [resolving EXCEPT ![a] = None]
    /\ UNCHANGED <<vars, cache_next>>

-----------------------------------------------------------------------------
\* Not the code: the comparison with the size the wrong way round.
Bug_ClearSmall ==
    /\ cache_next
    /\ geoip_cache' = IF Cardinality(geoip_cache) < CacheMax
                      THEN {} ELSE geoip_cache
    /\ cache_next' = FALSE
    /\ UNCHANGED <<vars, resolving>>

CleanCache ==
    /\ cache_next
    /\ geoip_cache' = IF Cardinality(geoip_cache) > CacheMax
                      THEN {} ELSE geoip_cache
    /\ cache_next' = FALSE
    /\ UNCHANGED <<vars, resolving>>

\* One call of cleanup_expired after another.
Clean ==
    \/ ~cache_next /\ CleanSessions /\ UNCHANGED geoVars
    \/ /\ CleanCodes
       /\ cache_next' = TRUE
       /\ UNCHANGED <<geoip_cache, resolving>>
    \/ CleanCache

HRestart ==
    /\ Restart
    /\ geoip_cache' = {}
    /\ resolving' = [a \in Authorization |-> None]
    /\ cache_next' = FALSE

\* What does without the cache.
Others ==
    /\ \/ \E a \in Authorization :
             \/ resolving[a] = None /\ LoginBegin(a)
             \/ NewSession(a) \/ IssueCode(a)
             \/ \E s \in session_store : resolving[a] = None /\ ContinueBegin(a, s)
       \/ \E s \in session_store : Logout(s)
       \/ \E x \in Exchange : ExchangeBegin(x) \/ ExchangeStep(x)
       \/ Tick
    /\ UNCHANGED geoVars

HNext ==
    \/ \E a \in Authorization : \/ Insert(a)
                                \/ \E ip \in Address : NotCached(a, ip)
    \/ Others
    \/ Clean
    \/ HRestart

\* tokio's interval runs the cleanup for ever, a started token request (which
\* awaits nothing) runs on, and time passes. Nobody has to log in or out.
HSpec == /\ HInit /\ [][HNext]_hvars
         /\ WF_hvars(Clean)
         /\ \A x \in Exchange : WF_hvars(ExchangeStep(x) /\ UNCHANGED geoVars)
         /\ WF_hvars(Tick /\ UNCHANGED geoVars)

-----------------------------------------------------------------------------
\* A code leaves the store within finite time, also when nobody redeems it.
CodesLeave == \A a \in Authorization :
    (\E c \in code_store : c.id = a) ~> (\A c \in code_store : c.id # a)

\* And so does a session, also when its user never logs out: the handlers,
\* which honour a session of any age, cannot do so for ever.
SessionsLeave == \A a \in Authorization :
    (\E s \in session_store : s.id = a) ~> (\A s \in session_store : s.id # a)

\* The cache does not stay too large, however many logins go on filling it
\* between and during the cleanups.
CacheShrinks == Cardinality(geoip_cache) > CacheMax ~> geoip_cache = {}
=============================================================================
