-------------------------------- MODULE Zline --------------------------------
(***************************************************************************)
(* The client of the external system (zline.rs): the requests it makes for  *)
(* a login, the answers it takes for a yes, a no or a profile, and the      *)
(* students' file it looks a profile up in.                                 *)
(*                                                                         *)
(* All logins share one HTTP client with one cookie jar (main.rs). Each     *)
(* request is a step of its own, since the handler awaits its answer.       *)
(* The site is modelled by what it may answer; of it is assumed that it     *)
(* accepts only a complete form with a right name and password, that the    *)
(* cookie it then sets is that user's, and that its pages show the user of  *)
(* the cookie they are asked with, and nobody without one. Whether it sends *)
(* a request for a page on to another page is left open (Redirected).       *)
(***************************************************************************)
EXTENDS Naturals, Sequences

CONSTANTS User, Login,
          UserOf,          \* [Login -> User]: who logs in
          RightPassword,   \* the logins with the user's password
          TooLong,         \* the logins with a field that RSA cannot encrypt
                           \* in one block
          Redirected,      \* the logins whose requests for a page the site may
                           \* answer with a redirect
          File,            \* the rows of students_data.csv, the header left out
          Blank,           \* the empty string
          None

ASSUME UserOfAssumption == UserOf \in [Login -> User]
ASSUME LoginAssumption == /\ RightPassword \subseteq Login
                          /\ TooLong \subseteq Login
                          /\ Redirected \subseteq Login
ASSUME NameAssumption == /\ Blank \notin User
                         /\ None \notin User \cup Login

\* A row with its number of columns. Numbers (xuid), names (xuxm) and student
\* data (record id and gender) are named by the user they belong to.
CsvRow == [columns: Nat, xuid: User \cup {Blank}, student: User]

\* A row that has a number is about the user of that number.
ASSUME FileAssumption ==
    /\ File \in Seq(CsvRow)
    /\ \A i \in DOMAIN File :
          File[i].columns >= 5 /\ File[i].xuid # Blank =>
             File[i].student = File[i].xuid

VARIABLES jar,       \* PZLSystemLogin in the cookie jar of the HTTP client: the
                     \* login the site set it for
          csv_cache, \* CSV_CACHE
          call,      \* what each login is about to do
          verdict,   \* what login_with_jincai returned: Ok or Err
          profile    \* what get_external_user_info returned

vars == <<jar, csv_cache, call, verdict, profile>>

-----------------------------------------------------------------------------
Text == User \cup {Blank}
Profile == [xuid: Text, xuxm: Text, student: Text]
NoData == [xuid |-> Blank, xuxm |-> Blank, student |-> Blank]

\* The request that comes next; the cookie value this login was given (None is
\* the empty string); and which of the two pages is asked for.
Stage == {"xtoken", "post", "page", "done"}
Call == [stage: Stage, pzl: Login \cup {None}, url: {1, 2}]

ZTypeOK ==
    /\ jar \in Login \cup {None}
    /\ csv_cache \in [Text -> Text]
    /\ call \in [Login -> Call]
    /\ verdict \in [Login -> {"none", "accepted", "rejected"}]
    /\ profile \in [Login -> Profile \cup {None}]

\* Not the code: the whole row kept in place of the student data.
Bug_RowKept ==
    LET map[n \in 0 .. Len(File)] ==
          IF n = 0 THEN [number \in Text |-> Blank]
          ELSE IF File[n].columns >= 5
               THEN [map[n - 1] EXCEPT ![File[n].xuid] = File[n]]
               ELSE map[n - 1]
    IN  map[Len(File)]

\* Not the code: a number that is in the map already keeps its entry.
Bug_FirstKept ==
    LET map[n \in 0 .. Len(File)] ==
          IF n = 0 THEN [number \in Text |-> Blank]
          ELSE IF File[n].columns >= 5 /\ map[n - 1][File[n].xuid] = Blank
               THEN [map[n - 1] EXCEPT ![File[n].xuid] = File[n].student]
               ELSE map[n - 1]
    IN  map[Len(File)]

\* The loop of load_csv_cache over the lines of the file. A number that is not in
\* the map has no data (Blank).
LoadCsv ==
    LET map[n \in 0 .. Len(File)] ==
          IF n = 0 THEN [number \in Text |-> Blank]
          ELSE IF File[n].columns >= 5
               THEN [map[n - 1] EXCEPT ![File[n].xuid] = File[n].student]
               ELSE map[n - 1]
    IN  map[Len(File)]

\* main loads the file before it serves; without the file the cache is empty.
Init ==
    /\ jar = None
    /\ csv_cache \in {LoadCsv, [number \in Text |-> Blank]}
    /\ call = [l \in Login |-> [stage |-> "xtoken", pzl |-> None, url |-> 1]]
    /\ verdict = [l \in Login |-> "none"]
    /\ profile = [l \in Login |-> None]

Goto(l, stage) == call' = [call EXCEPT ![l].stage = stage]

-----------------------------------------------------------------------------
(* login_with_jincai.                                                      *)

\* get_xtoken: the page with the token.
GetXToken(l) ==
    /\ call[l].stage = "xtoken"
    /\ Goto(l, "post")
    /\ UNCHANGED <<jar, csv_cache, verdict, profile>>

\* encrypt_for_jincai leaves out a field that does not encrypt.
FormComplete(l) == l \notin TooLong

\* The site accepts the form. Its cookie is set by the answer itself, or by a
\* redirect to it, which only the jar sees; or the site sets none because the
\* request carried a cookie from the jar.
Accepted(l) ==
    /\ call[l].stage = "post"
    /\ l \in RightPassword /\ FormComplete(l)
    /\ verdict' = [verdict EXCEPT ![l] = "accepted"]
    /\ \/ jar' = l /\ call' = [call EXCEPT ![l].stage = "page", ![l].pzl = l]
       \/ jar' = l /\ Goto(l, "page")
       \/ jar # None /\ UNCHANGED jar /\ Goto(l, "page")
    /\ UNCHANGED <<csv_cache, profile>>

\* Every other answer is an Err: no connection, a page without the token, a
\* body that is no JSON, and anything but succeed = "1".
Rejected(l) ==
    /\ call[l].stage \in {"xtoken", "post"}
    /\ Goto(l, "done")
    /\ verdict' = [verdict EXCEPT ![l] = "rejected"]
    /\ UNCHANGED <<jar, csv_cache, profile>>

-----------------------------------------------------------------------------
(* get_external_user_info.                                                 *)

\* Not the code: an empty cookie value left to the client, which then sends the
\* one of the jar.
Bug_CookieFromJar(l) == {IF call[l].pzl = None THEN jar ELSE call[l].pzl}

\* The cookies a page may be asked with: that of the explicit header, which
\* keeps the client from adding the jar's; but the request that follows a
\* redirect is given the jar's in place of it, if there is one (reqwest 0.11).
CookieSent(l) == {call[l].pzl} \cup
                 IF l \in Redirected /\ jar # None THEN {jar} ELSE {}

Return(l, p) ==
    /\ profile' = [profile EXCEPT ![l] = p]
    /\ Goto(l, "done")

\* A page with a number, a name, or both (each may be there and empty): the
\* profile, with the student data of the number.
PageWithData(l) ==
    /\ call[l].stage = "page"
    /\ \E cookie \in CookieSent(l) \ {None} :
          /\ \E xuid, xuxm \in {UserOf[cookie], Blank} :
                Return(l, [xuid |-> xuid, xuxm |-> xuxm,
                           student |-> csv_cache[xuid]])
          /\ jar' \in {jar, cookie}
    /\ UNCHANGED <<csv_cache, verdict>>

\* A page that denies access, or has neither field: the second page is asked
\* for; after it nothing is known of the user.
PageWithout(l) ==
    /\ call[l].stage = "page"
    /\ \/ /\ call[l].url = 1
          /\ call' = [call EXCEPT ![l].url = 2]
          /\ UNCHANGED profile
       \/ call[l].url = 2 /\ Return(l, NoData)
    /\ UNCHANGED <<jar, csv_cache, verdict>>

\* An error of the transport, which the login handler takes for no data.
PageError(l) ==
    /\ call[l].stage = "page"
    /\ Return(l, NoData)
    /\ UNCHANGED <<jar, csv_cache, verdict>>

\* A login that does not ask for the profile, or whose client goes away: the
\* handler makes no further request.
Leave(l) ==
    /\ call[l].stage # "done"
    /\ Goto(l, "done")
    /\ UNCHANGED <<jar, csv_cache, verdict, profile>>

Next == \E l \in Login :
    \/ GetXToken(l) \/ Accepted(l) \/ Rejected(l)
    \/ PageWithData(l) \/ PageWithout(l) \/ PageError(l)
    \/ Leave(l)

Spec == Init /\ [][Next]_vars

-----------------------------------------------------------------------------
\* The rows that count for a number.
Kept(number) == {i \in DOMAIN File : /\ File[i].columns >= 5
                                     /\ File[i].xuid = number}

\* If the file was read, the cache is what the file says: the data of a number
\* is that of its last complete row, wherever short rows and rows of other
\* numbers stand.
LastRowCounts ==
    csv_cache # [number \in Text |-> Blank] =>
        \A number \in Text :
            IF Kept(number) = {} THEN csv_cache[number] = Blank
            ELSE \E i \in Kept(number) : /\ \A j \in Kept(number) : j <= i
                                         /\ csv_cache[number] = File[i].student

\* The students whose row has no number: load_csv_cache keeps it like any other.
Unnumbered == {File[i].student : i \in Kept(Blank)}

\* A user's own profile: its number, its name and the student data of its
\* number, each of which may be missing.
OwnProfile(u) ==
    {p \in Profile : /\ p.xuid \in {u, Blank}
                     /\ p.xuxm \in {u, Blank}
                     /\ p.student \in {u, Blank}
                           \cup IF p.xuid = Blank THEN Unnumbered ELSE {}}

\* Whose profile a login may bring home.
ShownTo(l) == IF l \in Redirected THEN {UserOf[k] : k \in RightPassword}
              ELSE {UserOf[l]}

\* The client keeps what the login handler relies on: whatever logins share the
\* cookie jar, a login is accepted for its own name and password only, and the
\* profile it brings home is its own user's. (Two exceptions. If the page has no
\* number, it is given the student data of a row without a number. And if the
\* site redirects the request, all that is left is that it is the profile of
\* somebody who logged in with the right password, perhaps another user.)
Promise == INSTANCE ExternalLogin WITH
    Right <- RightPassword,
    Own <- [l \in Login |-> UNION {OwnProfile(u) : u \in ShownTo(l)}],
    NoProfile <- None
LoginsKeptApart == Promise!Spec
=============================================================================
