---------------------------- MODULE ZlineProofs -----------------------------
(***************************************************************************)
(* Theorems about the client of the external system, for every set of users *)
(* and logins, every students' file and every choice of the site.           *)
(***************************************************************************)
EXTENDS Zline, LoopTheorems

-----------------------------------------------------------------------------
(* The students' file.                                                     *)

\* What the cache knows of a number is that user's, or for no number, that of
\* a row without one.
Cached == \A n \in Text : csv_cache[n] \in {n, Blank} \cup
                             IF n = Blank THEN Unnumbered ELSE {}

LEMMA RowType == ASSUME NEW n \in Text, NEW i \in Kept(n)
                 PROVE  File[i].student \in User \cap
                           ({n} \cup IF n = Blank THEN Unnumbered ELSE {})
<1>1. i \in DOMAIN File /\ File[i].columns >= 5 /\ File[i].xuid = n
  BY DEF Kept
<1>2. File[i] \in CsvRow
  BY <1>1, FileAssumption
<1>3. File[i].student \in User
  BY <1>2 DEF CsvRow
<1>4. CASE n = Blank
  BY <1>3, <1>4 DEF Unnumbered
<1>5. CASE n # Blank
  BY <1>1, <1>3, <1>5, FileAssumption
<1> QED
  BY <1>4, <1>5

Loaded ==
    CHOOSE f : f = [n \in 0 .. Len(File) |->
                      IF n = 0 THEN [number \in Text |-> Blank]
                      ELSE IF File[n].columns >= 5
                           THEN [f[n - 1] EXCEPT ![File[n].xuid] = File[n].student]
                           ELSE f[n - 1]]

NoMap == [number \in Text |-> Blank]
Map == [Text -> Text]

LEMMA FileFacts ==
    /\ Len(File) \in Nat /\ DOMAIN File = 1 .. Len(File)
    /\ NoMap \in Map
    /\ \A n \in 1 .. Len(File) : File[n].xuid \in Text /\ File[n].student \in Text
<1>1. Len(File) \in Nat /\ DOMAIN File = 1 .. Len(File)
  BY FileAssumption
<1>2. \A n \in 1 .. Len(File) : File[n] \in CsvRow
  BY FileAssumption
<1>3. NoMap \in Map
  BY DEF NoMap, Map, Text
<1> QED BY <1>1, <1>2, <1>3 DEF CsvRow, Text

\* The turns of the loop of load_csv_cache.
LEMMA LoadedLoop ==
    /\ Loaded \in [0 .. Len(File) -> Map]
    /\ Loaded[0] = NoMap
    /\ \A n \in 1 .. Len(File) :
          Loaded[n] = IF File[n].columns >= 5
                      THEN [Loaded[n - 1] EXCEPT ![File[n].xuid] = File[n].student]
                      ELSE Loaded[n - 1]
<1> DEFINE N == Len(File)
           step == [n \in 1 .. N |-> [q \in Map |->
                      IF File[n].columns >= 5
                      THEN [q EXCEPT ![File[n].xuid] = File[n].student] ELSE q]]
           Def(f) == f = [n \in 0 .. N |->
                      IF n = 0 THEN NoMap
                      ELSE IF File[n].columns >= 5
                           THEN [f[n - 1] EXCEPT ![File[n].xuid] = File[n].student]
                           ELSE f[n - 1]]
<1>1. \A n \in 1 .. N, q \in Map :
         step[n][q] = IF File[n].columns >= 5
                      THEN [q EXCEPT ![File[n].xuid] = File[n].student] ELSE q
  OBVIOUS
<1>2. PICK f : Iterates(f, Map, NoMap, N, step)
  <2>1. step \in [1 .. N -> [Map -> Map]]
    <3> SUFFICES ASSUME NEW n \in 1 .. N, NEW q \in Map
                 PROVE  [q EXCEPT ![File[n].xuid] = File[n].student] \in Map
      OBVIOUS
    <3> QED BY FileFacts DEF Map
  <2>2. NoMap \in Map /\ N \in Nat
    BY FileFacts
  <2>3. CanIterate(Map, NoMap, N, step)
    <3> HIDE DEF step, N
    <3> QED BY <2>1, <2>2, Iteration, Zenon
  <2> QED BY <2>3 DEF CanIterate
<1>3. f \in [0 .. N -> Map] /\ f[0] = NoMap /\ \A n \in 1 .. N : f[n] = step[n][f[n - 1]]
  BY <1>2 DEF Iterates
<1> HIDE DEF step
<1>4. Def(f)
  <2> SUFFICES ASSUME NEW n \in 0 .. N, n # 0
               PROVE  f[n] = IF File[n].columns >= 5
                             THEN [f[n - 1] EXCEPT ![File[n].xuid] = File[n].student]
                             ELSE f[n - 1]
    BY <1>3
  <2>1. n \in 1 .. N /\ n - 1 \in 0 .. N
    BY FileFacts
  <2>2. f[n - 1] \in Map
    BY <1>3, <2>1
  <2> QED BY <1>1, <1>3, <2>1, <2>2
<1>5. Def(Loaded)
  <2>1. Loaded = CHOOSE g : Def(g)
    BY DEF Loaded, NoMap
  <2> HIDE DEF Def
  <2> QED BY <1>4, <2>1
<1> DEFINE K == Loaded
           S == {n \in 0 .. N : K[n] \in Map}
<1>6. /\ K = [n \in 0 .. N |-> K[n]]
      /\ K[0] = NoMap
      /\ \A n \in 1 .. N :
            K[n] = IF File[n].columns >= 5
                   THEN [K[n - 1] EXCEPT ![File[n].xuid] = File[n].student]
                   ELSE K[n - 1]
  <2> HIDE DEF K
  <2>1. K = [n \in 0 .. N |->
               IF n = 0 THEN NoMap
               ELSE IF File[n].columns >= 5
                    THEN [K[n - 1] EXCEPT ![File[n].xuid] = File[n].student]
                    ELSE K[n - 1]]
    BY <1>5 DEF K
  <2>2. 0 \in 0 .. N /\ \A n \in 1 .. N : n # 0 /\ n \in 0 .. N
    BY FileFacts
  <2> QED BY <2>1, <2>2
<1> HIDE DEF K
<1>7. ASSUME NEW n \in 0 .. N - 1, K[n] \in Map PROVE K[n + 1] \in Map
  <2>1. n + 1 \in 1 .. N /\ (n + 1) - 1 = n
    BY FileFacts
  <2>2. K[n + 1] = IF File[n + 1].columns >= 5
                   THEN [K[n] EXCEPT ![File[n + 1].xuid] = File[n + 1].student]
                   ELSE K[n]
    BY <1>6, <2>1
  <2> QED BY <1>7, <2>1, <2>2, FileFacts DEF Map
<1>8. 0 .. N \subseteq S
  <2>1. 0 \in S /\ N \in Nat
    BY <1>6, FileFacts
  <2>2. \A n \in 0 .. N - 1 : n \in S => n + 1 \in S
    BY <1>7, FileFacts
  <2> HIDE DEF S, N
  <2> QED BY <2>1, <2>2, UpTo
<1> QED BY <1>6, <1>8 DEF K

\* The rows for a number among the first m.
Rows(number, m) == {i \in 1 .. m : File[i].columns >= 5 /\ File[i].xuid = number}

\* What map m knows of a number is what the last of them says.
Follows(m, number) ==
    IF Rows(number, m) = {} THEN Loaded[m][number] = Blank
    ELSE \E i \in Rows(number, m) : /\ \A j \in Rows(number, m) : j <= i
                                    /\ Loaded[m][number] = File[i].student

LEMMA LoadCsvFollows == \A number \in Text : Follows(Len(File), number)
<1> DEFINE N == Len(File)
           S == {m \in 0 .. N : \A number \in Text : Follows(m, number)}
<1>1. N \in Nat
  BY FileFacts
<1>2. 0 \in S
  <2>1. ASSUME NEW number \in Text PROVE Rows(number, 0) = {} /\ Loaded[0][number] = Blank
    BY LoadedLoop DEF Rows, NoMap
  <2> QED BY <1>1, <2>1 DEF Follows
<1>3. ASSUME NEW m \in 0 .. N - 1, \A number \in Text : Follows(m, number),
             NEW number \in Text
      PROVE  Follows(m + 1, number)
  <2> DEFINE n == m + 1
             new == File[n].columns >= 5 /\ File[n].xuid = number
  <2>1. m \in Nat /\ n \in 1 .. N /\ n - 1 = m /\ n > m /\ m \in 0 .. N
    BY <1>1
  <2>2. Loaded[m] \in Map
    BY <2>1, LoadedLoop
  <2>3. Loaded[n] = IF File[n].columns >= 5
                    THEN [Loaded[m] EXCEPT ![File[n].xuid] = File[n].student]
                    ELSE Loaded[m]
    BY <2>1, LoadedLoop
  <2>4. Rows(number, n) = Rows(number, m) \cup (IF new THEN {n} ELSE {})
    <3>1. 1 .. n = (1 .. m) \cup {n}
      BY <2>1
    <3> HIDE DEF n
    <3> QED BY <3>1 DEF Rows
  <2>5. Rows(number, m) \subseteq 1 .. m
    BY DEF Rows
  <2>6. CASE new
    <3>1. Loaded[n][number] = File[n].student
      BY <2>2, <2>3, <2>6 DEF Map
    <3>2. n \in Rows(number, n) /\ \A j \in Rows(number, n) : j <= n
      BY <2>1, <2>4, <2>5, <2>6
    <3> HIDE DEF n, new
    <3> QED BY <3>1, <3>2 DEF Follows, n
  <2>7. CASE ~new
    <3>1. Loaded[n][number] = Loaded[m][number]
      BY <2>2, <2>3, <2>7 DEF Map
    <3>2. Rows(number, n) = Rows(number, m)
      BY <2>4, <2>7
    <3> HIDE DEF n, new
    <3> QED BY <1>3, <3>1, <3>2 DEF Follows, n
  <2> QED BY <2>6, <2>7
<1>4. 0 .. N \subseteq S
  <2>1. \A m \in 0 .. N - 1 : m \in S => m + 1 \in S
    BY <1>1, <1>3
  <2> HIDE DEF S, N
  <2> QED BY <1>1, <1>2, <2>1, UpTo
<1> QED BY <1>1, <1>4

\* The loop computes what the last complete row of each number says.
LEMMA LoadCsvFacts ==
    /\ LoadCsv \in Map
    /\ \A number \in Text :
          IF Kept(number) = {} THEN LoadCsv[number] = Blank
          ELSE \E i \in Kept(number) : /\ \A j \in Kept(number) : j <= i
                                       /\ LoadCsv[number] = File[i].student
<1>1. LoadCsv = Loaded[Len(File)]
  BY DEF LoadCsv, Loaded
<1>2. \A number \in Text : Rows(number, Len(File)) = Kept(number)
  BY FileFacts DEF Rows, Kept
<1>3. LoadCsv \in Map
  BY <1>1, FileFacts, LoadedLoop
<1> QED BY <1>1, <1>2, <1>3, LoadCsvFollows DEF Follows

LEMMA LoadCsvType ==
    /\ LoadCsv \in [Text -> Text]
    /\ \A n \in Text : LoadCsv[n] \in {n, Blank} \cup
                          IF n = Blank THEN Unnumbered ELSE {}
<1> SUFFICES ASSUME NEW n \in Text
             PROVE  LoadCsv[n] \in {n, Blank} \cup
                                      IF n = Blank THEN Unnumbered ELSE {}
  BY LoadCsvFacts DEF Map
<1>1. CASE Kept(n) = {}
  BY <1>1, LoadCsvFacts
<1>2. CASE Kept(n) # {}
  <2>1. PICK i \in Kept(n) : LoadCsv[n] = File[i].student
    BY <1>2, LoadCsvFacts
  <2> QED
    BY <2>1, RowType
<1> QED
  BY <1>1, <1>2

-----------------------------------------------------------------------------
(* The inductive invariant. The types alone do not tell whose cookie is     *)
(* where: the jar holds one that the site gave out for a right password, a  *)
(* login has its own or none, and only an accepted login asks for a page.   *)

JarOK == jar \in RightPassword \cup {None}

Progress(l) ==
    /\ call[l].pzl \in {l, None}
    /\ call[l].pzl = l => l \in RightPassword
    /\ call[l].stage \in {"xtoken", "post"} => verdict[l] = "none"
    /\ call[l].stage = "page" => verdict[l] = "accepted" /\ l \in RightPassword
    /\ call[l].stage # "done" => profile[l] = None

ZInv == ZTypeOK /\ JarOK /\ Cached /\ \A l \in Login : Progress(l)

LEMMA InitInv == Init => ZInv
<1> SUFFICES ASSUME Init PROVE ZInv
  OBVIOUS
<1>1. csv_cache \in [Text -> Text] /\ Cached
  BY LoadCsvType DEF Init, Cached, Text
<1>2. call \in [Login -> Call]
  BY DEF Init, Call, Stage
<1>3. ZTypeOK
  BY <1>1, <1>2 DEF Init, ZTypeOK
<1>4. \A l \in Login : Progress(l)
  BY NameAssumption DEF Init, Progress
<1> QED
  BY <1>1, <1>3, <1>4 DEF ZInv, JarOK, Init

\* A step to another stage.
LEMMA GotoEffect ==
    ASSUME call \in [Login -> Call], NEW l \in Login, NEW stage \in Stage,
           Goto(l, stage)
    PROVE  /\ call' \in [Login -> Call]
           /\ call'[l].stage = stage /\ call'[l].pzl = call[l].pzl
           /\ \A k \in Login \ {l} : call'[k] = call[k]
  BY DEF Goto, Call

\* The cookies a page is asked with, and whose profile it then shows.
LEMMA CookieType ==
    ASSUME ZInv, NEW l \in Login, NEW cookie \in CookieSent(l) \ {None}
    PROVE  cookie \in RightPassword /\ UserOf[cookie] \in ShownTo(l) \cap User
<1>1. Progress(l) /\ JarOK
  BY DEF ZInv
<1>2. CASE cookie = call[l].pzl
  BY <1>1, <1>2, UserOfAssumption, LoginAssumption DEF Progress, ShownTo
<1>3. CASE cookie = jar /\ l \in Redirected
  BY <1>1, <1>3, UserOfAssumption, LoginAssumption DEF JarOK, ShownTo
<1> QED
  BY <1>2, <1>3 DEF CookieSent

\* What is read from a page is somebody's own profile.
LEMMA PageType ==
    ASSUME ZInv, NEW u \in User, NEW xuid \in {u, Blank}, NEW xuxm \in {u, Blank}
    PROVE  [xuid |-> xuid, xuxm |-> xuxm, student |-> csv_cache[xuid]]
              \in OwnProfile(u)
<1>1. xuid \in Text /\ xuxm \in Text
  BY DEF Text
<1>2. csv_cache[xuid] \in Text
  BY <1>1 DEF ZInv, ZTypeOK
<1>3. csv_cache[xuid] \in {xuid, Blank} \cup
                             IF xuid = Blank THEN Unnumbered ELSE {}
  BY <1>1 DEF ZInv, Cached
<1>4. csv_cache[xuid] \in {u, Blank} \cup
                             IF xuid = Blank THEN Unnumbered ELSE {}
  BY <1>3
<1> QED
  BY <1>1, <1>2, <1>4 DEF OwnProfile, Profile

LEMMA NoDataOwn == ASSUME NEW u \in User PROVE NoData \in OwnProfile(u)
  BY DEF NoData, OwnProfile, Profile, Text

\* A login that ends with a profile.
LEMMA ReturnEffect ==
    ASSUME ZInv, NEW l \in Login, NEW p \in Profile,
           call[l].stage = "page", Return(l, p),
           jar' \in RightPassword \cup {None}, UNCHANGED <<csv_cache, verdict>>
    PROVE  ZInv'
<1> USE DEF ZInv
<1>1. /\ call' \in [Login -> Call]
      /\ call'[l].stage = "done" /\ call'[l].pzl = call[l].pzl
      /\ \A k \in Login \ {l} : call'[k] = call[k]
  BY GotoEffect DEF Return, ZTypeOK, Stage
<1>2. /\ profile' \in [Login -> Profile \cup {None}]
      /\ \A k \in Login \ {l} : profile'[k] = profile[k]
  BY DEF Return, ZTypeOK
<1>3. ZTypeOK'
  BY <1>1, <1>2, LoginAssumption DEF ZTypeOK
<1>4. ASSUME NEW k \in Login PROVE Progress(k)'
  <2>1. CASE k = l
    BY <1>1, <2>1 DEF Progress
  <2>2. CASE k # l
    BY <1>1, <1>2, <2>2 DEF Progress
  <2> QED
    BY <2>1, <2>2
<1> QED
  BY <1>3, <1>4 DEF JarOK, Cached

-----------------------------------------------------------------------------
(* Every step keeps the invariant, and is a step of ExternalLogin or none.  *)

OwnOf == [l \in Login |-> UNION {OwnProfile(u) : u \in ShownTo(l)}]

LEMMA StepGetXToken ==
    ASSUME ZInv, NEW l \in Login, GetXToken(l)
    PROVE  ZInv' /\ UNCHANGED <<verdict, profile>>
<1> USE DEF ZInv
<1>1. /\ call' \in [Login -> Call]
      /\ call'[l].stage = "post" /\ call'[l].pzl = call[l].pzl
      /\ \A k \in Login \ {l} : call'[k] = call[k]
  BY GotoEffect DEF GetXToken, ZTypeOK, Stage
<1>2. ASSUME NEW k \in Login PROVE Progress(k)'
  <2>1. CASE k = l
    BY <1>1, <2>1 DEF Progress, GetXToken
  <2>2. CASE k # l
    BY <1>1, <2>2 DEF Progress, GetXToken
  <2> QED
    BY <2>1, <2>2
<1> QED
  BY <1>1, <1>2 DEF GetXToken, ZTypeOK, JarOK, Cached

LEMMA StepAccepted ==
    ASSUME ZInv, NEW l \in Login, Accepted(l)
    PROVE  ZInv' /\ Promise!Accept(l)
<1> USE DEF ZInv
<1>1. /\ call' \in [Login -> Call]
      /\ call'[l].stage = "page" /\ call'[l].pzl \in {call[l].pzl, l}
      /\ \A k \in Login \ {l} : call'[k] = call[k]
  <2>1. CASE call' = [call EXCEPT ![l].stage = "page", ![l].pzl = l]
    <3> DEFINE c == [call[l] EXCEPT !.stage = "page", !.pzl = l]
    <3>1. c \in Call /\ c.stage = "page" /\ c.pzl = l
      BY DEF ZTypeOK, Call, Stage
    <3>2. call' = [call EXCEPT ![l] = c]
      BY <2>1 DEF ZTypeOK, Call
    <3> HIDE DEF c
    <3> QED
      BY <3>1, <3>2 DEF ZTypeOK
  <2>2. CASE Goto(l, "page")
    BY <2>2, GotoEffect DEF ZTypeOK, Stage
  <2> QED
    BY <2>1, <2>2 DEF Accepted
<1>2. /\ verdict' \in [Login -> {"none", "accepted", "rejected"}]
      /\ verdict'[l] = "accepted"
      /\ \A k \in Login \ {l} : verdict'[k] = verdict[k]
  BY DEF Accepted, ZTypeOK
<1>3. jar' \in RightPassword \cup {None} /\ JarOK'
  BY DEF Accepted, JarOK
<1>4. ASSUME NEW k \in Login PROVE Progress(k)'
  <2>1. CASE k = l
    BY <1>1, <1>2, <2>1, NameAssumption DEF Progress, Accepted
  <2>2. CASE k # l
    BY <1>1, <1>2, <2>2 DEF Progress, Accepted
  <2> QED
    BY <2>1, <2>2
<1>5. ZTypeOK'
  BY <1>1, <1>2, <1>3, LoginAssumption DEF ZTypeOK, Accepted
<1>6. Promise!Accept(l)
  BY DEF Accepted, Promise!Accept, Progress
<1> QED
  BY <1>3, <1>4, <1>5, <1>6 DEF Accepted, Cached

LEMMA StepRejected ==
    ASSUME ZInv, NEW l \in Login, Rejected(l)
    PROVE  ZInv' /\ Promise!Reject(l)
<1> USE DEF ZInv
<1>1. /\ call' \in [Login -> Call]
      /\ call'[l].stage = "done" /\ call'[l].pzl = call[l].pzl
      /\ \A k \in Login \ {l} : call'[k] = call[k]
  BY GotoEffect DEF Rejected, ZTypeOK, Stage
<1>2. /\ verdict' \in [Login -> {"none", "accepted", "rejected"}]
      /\ \A k \in Login \ {l} : verdict'[k] = verdict[k]
  BY DEF Rejected, ZTypeOK
<1>3. ASSUME NEW k \in Login PROVE Progress(k)'
  <2>1. CASE k = l
    BY <1>1, <2>1 DEF Progress, Rejected
  <2>2. CASE k # l
    BY <1>1, <1>2, <2>2 DEF Progress, Rejected
  <2> QED
    BY <2>1, <2>2
<1>4. Promise!Reject(l)
  BY DEF Rejected, Promise!Reject, Progress
<1> QED
  BY <1>1, <1>2, <1>3, <1>4 DEF Rejected, ZTypeOK, JarOK, Cached

\* A profile a login may bring home answers it.
LEMMA ReturnAnswers ==
    ASSUME ZInv, NEW l \in Login, NEW u \in ShownTo(l) \cap User,
           NEW p \in OwnProfile(u), call[l].stage = "page", Return(l, p),
           jar' \in RightPassword \cup {None}, UNCHANGED <<csv_cache, verdict>>
    PROVE  ZInv' /\ Promise!Answer(l)
<1>1. p \in Profile
  BY DEF OwnProfile
<1>2. ZInv'
  BY <1>1, ReturnEffect
<1>3. p \in OwnOf[l]
  BY DEF OwnOf
<1>4. verdict[l] = "accepted" /\ profile[l] = None
  BY DEF ZInv, Progress
<1> QED
  BY <1>2, <1>3, <1>4 DEF Promise!Answer, Return, OwnOf

LEMMA StepPageWithData ==
    ASSUME ZInv, NEW l \in Login, PageWithData(l)
    PROVE  ZInv' /\ Promise!Answer(l)
<1>1. PICK cookie \in CookieSent(l) \ {None} :
         /\ \E xuid, xuxm \in {UserOf[cookie], Blank} :
               Return(l, [xuid |-> xuid, xuxm |-> xuxm,
                          student |-> csv_cache[xuid]])
         /\ jar' \in {jar, cookie}
  BY DEF PageWithData
<1>2. cookie \in RightPassword /\ UserOf[cookie] \in ShownTo(l) \cap User
  BY CookieType
<1>3. PICK xuid \in {UserOf[cookie], Blank}, xuxm \in {UserOf[cookie], Blank} :
         Return(l, [xuid |-> xuid, xuxm |-> xuxm, student |-> csv_cache[xuid]])
  BY <1>1
<1> DEFINE p == [xuid |-> xuid, xuxm |-> xuxm, student |-> csv_cache[xuid]]
<1>4. p \in OwnProfile(UserOf[cookie])
  BY <1>2, PageType
<1>5. jar' \in RightPassword \cup {None}
  BY <1>1, <1>2 DEF ZInv, JarOK
<1>6. call[l].stage = "page" /\ UNCHANGED <<csv_cache, verdict>>
  BY DEF PageWithData
<1> HIDE DEF p
<1>7. Return(l, p)
  BY <1>3 DEF p
<1> QED
  BY <1>2, <1>4, <1>5, <1>6, <1>7, ReturnAnswers

LEMMA ReturnNothing ==
    ASSUME ZInv, NEW l \in Login, call[l].stage = "page", Return(l, NoData),
           UNCHANGED <<jar, csv_cache, verdict>>
    PROVE  ZInv' /\ Promise!Answer(l)
<1>1. UserOf[l] \in ShownTo(l) \cap User
  BY UserOfAssumption DEF ZInv, Progress, ShownTo
<1>2. NoData \in OwnProfile(UserOf[l])
  BY <1>1, NoDataOwn
<1>3. jar' \in RightPassword \cup {None}
  BY DEF ZInv, JarOK
<1> QED
  BY <1>1, <1>2, <1>3, ReturnAnswers

LEMMA StepPageWithout ==
    ASSUME ZInv, NEW l \in Login, PageWithout(l)
    PROVE  ZInv' /\ (Promise!Answer(l) \/ UNCHANGED <<verdict, profile>>)
<1>1. CASE call[l].url = 2 /\ Return(l, NoData)
  BY <1>1, ReturnNothing DEF PageWithout
<1>2. CASE /\ call' = [call EXCEPT ![l].url = 2]
           /\ UNCHANGED profile
  <2>1. /\ call' \in [Login -> Call]
        /\ call'[l].stage = "page" /\ call'[l].pzl = call[l].pzl
        /\ \A k \in Login \ {l} : call'[k] = call[k]
    BY <1>2 DEF PageWithout, ZInv, ZTypeOK, Call
  <2>2. ASSUME NEW k \in Login PROVE Progress(k)'
    <3>1. CASE k = l
      BY <1>2, <2>1, <3>1 DEF Progress, PageWithout, ZInv
    <3>2. CASE k # l
      BY <1>2, <2>1, <3>2 DEF Progress, PageWithout, ZInv
    <3> QED
      BY <3>1, <3>2
  <2> QED
    BY <1>2, <2>1, <2>2 DEF PageWithout, ZInv, ZTypeOK, JarOK, Cached
<1> QED
  BY <1>1, <1>2 DEF PageWithout

LEMMA StepLeave ==
    ASSUME ZInv, NEW l \in Login, Leave(l)
    PROVE  ZInv' /\ UNCHANGED <<verdict, profile>>
<1> USE DEF ZInv
<1>1. /\ call' \in [Login -> Call]
      /\ call'[l].stage = "done" /\ call'[l].pzl = call[l].pzl
      /\ \A k \in Login \ {l} : call'[k] = call[k]
  BY GotoEffect DEF Leave, ZTypeOK, Stage
<1>2. ASSUME NEW k \in Login PROVE Progress(k)'
  <2>1. CASE k = l
    BY <1>1, <2>1 DEF Progress, Leave
  <2>2. CASE k # l
    BY <1>1, <2>2 DEF Progress, Leave
  <2> QED
    BY <2>1, <2>2
<1> QED
  BY <1>1, <1>2 DEF Leave, ZTypeOK, JarOK, Cached

LEMMA StepInv ==
    ASSUME ZInv, [Next]_vars
    PROVE  ZInv' /\ [Promise!Next]_<<verdict, profile>>
<1>1. CASE UNCHANGED vars
  BY <1>1 DEF vars, ZInv, ZTypeOK, JarOK, Cached, Progress
<1>2. ASSUME NEW l \in Login,
             \/ GetXToken(l) \/ Accepted(l) \/ Rejected(l)
             \/ PageWithData(l) \/ PageWithout(l) \/ PageError(l)
             \/ Leave(l)
      PROVE  ZInv' /\ [Promise!Next]_<<verdict, profile>>
  <2>1. CASE GetXToken(l)
    BY <2>1, StepGetXToken
  <2>2. CASE Accepted(l)
    BY <2>2, StepAccepted DEF Promise!Next
  <2>3. CASE Rejected(l)
    BY <2>3, StepRejected DEF Promise!Next
  <2>4. CASE PageWithData(l)
    BY <2>4, StepPageWithData DEF Promise!Next
  <2>5. CASE PageWithout(l)
    BY <2>5, StepPageWithout DEF Promise!Next
  <2>6. CASE PageError(l)
    BY <2>6, ReturnNothing DEF PageError, Promise!Next
  <2>7. CASE Leave(l)
    BY <2>7, StepLeave
  <2> QED
    BY <1>2, <2>1, <2>2, <2>3, <2>4, <2>5, <2>6, <2>7
<1> QED
  BY <1>1, <1>2 DEF Next

-----------------------------------------------------------------------------
\* Every variable of the client keeps its type, whatever the site answers.
THEOREM ClientTyped == Spec => []ZTypeOK
<1>1. Init => ZInv
  BY InitInv
<1>2. ZInv /\ [Next]_vars => ZInv'
  BY StepInv
<1>3. ZInv => ZTypeOK
  BY DEF ZInv
<1> QED
  BY <1>1, <1>2, <1>3, PTL DEF Spec

\* zline.rs implements what the login handler relies on, for every number of
\* logins that share its cookie jar: no login is accepted on another's form, and
\* none that the site does not redirect is given another user's profile.
THEOREM ClientKeepsApart == Spec => LoginsKeptApart
<1>1. Init => ZInv /\ Promise!Init
  BY InitInv DEF Init, Promise!Init
<1>2. ZInv /\ [Next]_vars => ZInv' /\ [Promise!Next]_<<verdict, profile>>
  BY StepInv
<1> QED
  BY <1>1, <1>2, PTL DEF Spec, LoginsKeptApart, Promise!Spec

\* Whatever logins do, the cache holds for every number the data of its last
\* complete row, or nothing at all if the file was not read.
THEOREM CacheIsOfFile == Spec => []LastRowCounts
<1> DEFINE Read == csv_cache \in {LoadCsv, NoMap}
<1>1. Init => Read
  BY DEF Init, NoMap
<1>2. Read /\ [Next]_vars => Read'
  <2> SUFFICES ASSUME Next \/ UNCHANGED vars PROVE UNCHANGED csv_cache
    OBVIOUS
  <2> QED
    BY DEF Next, vars, GetXToken, Accepted, Rejected, PageWithData, PageWithout,
           PageError, Leave
<1>3. Read => LastRowCounts
  BY LoadCsvFacts DEF LastRowCounts, NoMap
<1> QED
  BY <1>1, <1>2, <1>3, PTL DEF Spec
=============================================================================
