---------------------------- MODULE ExternalLogin ----------------------------
(***************************************************************************)
(* What the login handler relies on when it lets zline.rs ask the external  *)
(* system: a login is accepted only with a right password, it may be        *)
(* rejected for any reason, and an accepted login is answered one of the     *)
(* profiles it may bring home (Own), once. Nothing is promised about whether *)
(* or when an answer comes, or how much of the profile is in it.            *)
(***************************************************************************)
CONSTANTS Login,     \* the logins
          Right,     \* those with a right name and password
          Own,       \* Own[l]: the profiles that may be answered to login l
          NoProfile

VARIABLES verdict, profile

Init ==
    /\ verdict = [l \in Login |-> "none"]
    /\ profile = [l \in Login |-> NoProfile]

Accept(l) ==
    /\ verdict[l] = "none"
    /\ l \in Right
    /\ verdict' = [verdict EXCEPT ![l] = "accepted"]
    /\ UNCHANGED profile

Reject(l) ==
    /\ verdict[l] = "none"
    /\ verdict' = [verdict EXCEPT ![l] = "rejected"]
    /\ UNCHANGED profile

Answer(l) ==
    /\ verdict[l] = "accepted"
    /\ profile[l] = NoProfile
    /\ \E p \in Own[l] : profile' = [profile EXCEPT ![l] = p]
    /\ UNCHANGED verdict

Next == \E l \in Login : Accept(l) \/ Reject(l) \/ Answer(l)

Spec == Init /\ [][Next]_<<verdict, profile>>
=============================================================================
