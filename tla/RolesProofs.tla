---------------------------- MODULE RolesProofs -----------------------------
(***************************************************************************)
(* The role column, for every set of tags, every alphabet and every number  *)
(* of typed parts: the string represents the set of tags, and the search    *)
(* finds those who hold a tag and nobody else.                              *)
(*                                                                         *)
(* The operators are loops over sequences, written as recursive functions:  *)
(* what a loop has done after n turns is proved by induction on n, with the *)
(* lemmas of LoopTheorems.                                                 *)
(***************************************************************************)
EXTENDS Roles, LoopTheorems

-----------------------------------------------------------------------------
(* The loops: what they have collected after n turns.                       *)

Kept(s, x) ==
    CHOOSE f : f = [n \in 0 .. Len(s) |->
                      IF n = 0 THEN <<>>
                      ELSE IF s[n] = x THEN f[n - 1] ELSE Append(f[n - 1], s[n])]

LEMMA KeptLoop ==
  ASSUME NEW D, NEW s \in Seq(D), NEW x
  PROVE  /\ Kept(s, x) \in [0 .. Len(s) -> Seq(D)]
         /\ Kept(s, x)[0] = <<>>
         /\ \A n \in 1 .. Len(s) :
               Kept(s, x)[n] = IF s[n] = x THEN Kept(s, x)[n - 1]
                               ELSE Append(Kept(s, x)[n - 1], s[n])
<1> DEFINE step == [n \in 1 .. Len(s) |-> [q \in Seq(D) |->
                      IF s[n] = x THEN q ELSE Append(q, s[n])]]
           Def(f) == f = [n \in 0 .. Len(s) |->
                      IF n = 0 THEN <<>>
                      ELSE IF s[n] = x THEN f[n - 1] ELSE Append(f[n - 1], s[n])]
<1>1. \A n \in 1 .. Len(s), q \in Seq(D) :
         step[n][q] = IF s[n] = x THEN q ELSE Append(q, s[n])
  OBVIOUS
<1>2. PICK f : Iterates(f, Seq(D), <<>>, Len(s), step)
  <2>1. /\ <<>> \in Seq(D) /\ Len(s) \in Nat
        /\ step \in [1 .. Len(s) -> [Seq(D) -> Seq(D)]]
    OBVIOUS
  <2>2. CanIterate(Seq(D), <<>>, Len(s), step)
    <3> HIDE DEF step
    <3> QED BY <2>1, Iteration, Zenon
  <2> QED BY <2>2 DEF CanIterate
<1> HIDE DEF step
<1> USE DEF Iterates
<1>3. Def(f)
  <2> SUFFICES ASSUME NEW n \in 0 .. Len(s)
               PROVE  f[n] = IF n = 0 THEN <<>>
                             ELSE IF s[n] = x THEN f[n - 1] ELSE Append(f[n - 1], s[n])
    BY <1>2
  <2>1. CASE n # 0
    <3>1. n \in 1 .. Len(s) /\ n - 1 \in 0 .. Len(s)
      BY <2>1
    <3>2. f[n - 1] \in Seq(D)
      BY <3>1, <1>2
    <3> QED BY <3>1, <3>2, <1>1, <1>2, <2>1
  <2> QED BY <1>2, <2>1
<1>4. Def(Kept(s, x))
  <2>1. Kept(s, x) = CHOOSE g : Def(g)
    BY DEF Kept
  <2> HIDE DEF Def
  <2> QED BY <1>3, <2>1
<1> DEFINE K == Kept(s, x)
           S == {n \in 0 .. Len(s) : K[n] \in Seq(D)}
<1>5. /\ K = [n \in 0 .. Len(s) |-> K[n]]
      /\ K[0] = <<>>
      /\ \A n \in 1 .. Len(s) : K[n] = IF s[n] = x THEN K[n - 1] ELSE Append(K[n - 1], s[n])
  <2> HIDE DEF K
  <2>1. K = [n \in 0 .. Len(s) |-> IF n = 0 THEN <<>> ELSE IF s[n] = x THEN K[n - 1] ELSE Append(K[n - 1], s[n])]
    BY <1>4 DEF K
  <2>2. 0 \in 0 .. Len(s) /\ \A n \in 1 .. Len(s) : n # 0 /\ n \in 0 .. Len(s)
    OBVIOUS
  <2> QED BY <2>1, <2>2
<1> HIDE DEF K
<1>6. ASSUME NEW n \in 0 .. Len(s) - 1, K[n] \in Seq(D)
      PROVE  K[n + 1] \in Seq(D)
  <2>1. n + 1 \in 1 .. Len(s) /\ (n + 1) - 1 = n
    OBVIOUS
  <2>2. K[n + 1] = IF s[n + 1] = x THEN K[n] ELSE Append(K[n], s[n + 1])
    BY <1>5, <2>1
  <2> QED BY <1>6, <2>1, <2>2
<1>7. 0 .. Len(s) \subseteq S
  <2>1. 0 \in S /\ Len(s) \in Nat
    BY <1>5
  <2>2. \A n \in 0 .. Len(s) - 1 : n \in S => n + 1 \in S
    BY <1>6
  <2> HIDE DEF S
  <2> QED BY <2>1, <2>2, UpTo
<1> QED BY <1>5, <1>7 DEF K

Distinct(s) == \A i, j \in 1 .. Len(s) : s[i] = s[j] => i = j

\* The elements of the first n positions.
First(s, n) == {s[i] : i \in 1 .. n}

LEMMA Pushed ==
  ASSUME NEW D, NEW q \in Seq(D), NEW e \in D
  PROVE  /\ ToSet(Append(q, e)) = ToSet(q) \cup {e}
         /\ Distinct(q) /\ e \notin ToSet(q) => Distinct(Append(q, e))
<1>1. /\ Len(Append(q, e)) = Len(q) + 1
      /\ Append(q, e)[Len(q) + 1] = e
      /\ \A i \in 1 .. Len(q) : Append(q, e)[i] = q[i]
      /\ DOMAIN Append(q, e) = 1 .. Len(q) + 1
      /\ DOMAIN q = 1 .. Len(q) /\ Len(q) \in Nat
  OBVIOUS
<1>2. ToSet(Append(q, e)) = ToSet(q) \cup {e}
  <2>1. ToSet(Append(q, e)) \subseteq ToSet(q) \cup {e}
    BY <1>1 DEF ToSet
  <2>2. ToSet(q) \subseteq ToSet(Append(q, e))
    BY <1>1 DEF ToSet
  <2>3. e \in ToSet(Append(q, e))
    BY <1>1 DEF ToSet
  <2> QED BY <2>1, <2>2, <2>3
<1>3. ASSUME Distinct(q), e \notin ToSet(q) PROVE Distinct(Append(q, e))
  <2> DEFINE a == Append(q, e)
  <2>1. SUFFICES ASSUME NEW i \in 1 .. Len(q) + 1, NEW j \in 1 .. Len(q) + 1,
                        a[i] = a[j]
                 PROVE  i = j
    BY <1>1 DEF Distinct
  <2>2. \A k \in 1 .. Len(q) : a[k] \in ToSet(q)
    BY <1>1 DEF ToSet
  <2>3. CASE i \in 1 .. Len(q) /\ j \in 1 .. Len(q)
    BY <1>1, <1>3, <2>1, <2>3 DEF Distinct
  <2>4. CASE i = Len(q) + 1 \/ j = Len(q) + 1
    BY <1>1, <1>3, <2>1, <2>2, <2>4
  <2> QED BY <2>3, <2>4
<1> QED BY <1>2, <1>3

LEMMA FirstNext ==
  ASSUME NEW s, NEW n \in Nat
  PROVE  First(s, n + 1) = First(s, n) \cup {s[n + 1]} /\ First(s, 0) = {}
  BY DEF First

LEMMA Nothing == ToSet(<<>>) = {} /\ Distinct(<<>>)
  BY DEF ToSet, Distinct

\* Without drops x, and brings nothing in and nothing twice.
LEMMA WithoutFacts ==
  ASSUME NEW D, NEW s \in Seq(D), NEW x
  PROVE  /\ Without(s, x) \in Seq(D)
         /\ ToSet(Without(s, x)) = ToSet(s) \ {x}
         /\ Distinct(s) => Distinct(Without(s, x))
<1> DEFINE K == Kept(s, x)
           Good(n) == /\ ToSet(K[n]) = First(s, n) \ {x}
                      /\ Distinct(s) => Distinct(K[n])
           S == {n \in 0 .. Len(s) : Good(n)}
<1>1. /\ K \in [0 .. Len(s) -> Seq(D)]
      /\ K[0] = <<>>
      /\ \A n \in 1 .. Len(s) :
            K[n] = IF s[n] = x THEN K[n - 1] ELSE Append(K[n - 1], s[n])
  BY KeptLoop
<1>2. Len(s) \in Nat /\ DOMAIN s = 1 .. Len(s)
  OBVIOUS
<1>3. Without(s, x) = K[Len(s)]
  BY DEF Without, Kept
<1> HIDE DEF K
<1>4. Good(0)
  BY <1>1, <1>2, Nothing, FirstNext
<1>5. ASSUME NEW n \in 0 .. Len(s) - 1, Good(n) PROVE Good(n + 1)
  <2>1. /\ n + 1 \in 1 .. Len(s) /\ s[n + 1] \in D /\ K[n] \in Seq(D)
        /\ K[n + 1] = IF s[n + 1] = x THEN K[n] ELSE Append(K[n], s[n + 1])
    BY <1>1, <1>2
  <2>2. First(s, n + 1) = First(s, n) \cup {s[n + 1]}
    BY FirstNext
  <2>3. CASE s[n + 1] = x
    BY <1>5, <2>1, <2>2, <2>3
  <2>4. CASE s[n + 1] # x
    <3>1. ToSet(K[n + 1]) = ToSet(K[n]) \cup {s[n + 1]}
      BY <2>1, <2>4, Pushed
    <3>2. ASSUME Distinct(s) PROVE Distinct(K[n + 1])
      <4>1. s[n + 1] \notin First(s, n)
        BY <2>1, <3>2 DEF First, Distinct
      <4> QED BY <1>5, <2>1, <2>4, <3>2, <4>1, Pushed
    <3> QED BY <1>5, <2>1, <2>2, <2>4, <3>1, <3>2
  <2> QED BY <2>3, <2>4
<1>6. Good(Len(s))
  <2> HIDE DEF Good
  <2>1. 0 \in S /\ \A n \in 0 .. Len(s) - 1 : n \in S => n + 1 \in S
    BY <1>2, <1>4, <1>5
  <2>2. 0 .. Len(s) \subseteq S
    <3> HIDE DEF S
    <3> QED BY <1>2, <2>1, UpTo
  <2> QED BY <1>2, <2>2
<1>7. First(s, Len(s)) = ToSet(s)
  BY <1>2 DEF First, ToSet
<1> QED BY <1>1, <1>2, <1>3, <1>6, <1>7

-----------------------------------------------------------------------------
Seen(s) ==
    CHOOSE f : f = [n \in 0 .. Len(s) |->
                      IF n = 0 THEN <<>>
                      ELSE IF s[n] \in ToSet(f[n - 1]) THEN f[n - 1]
                                                       ELSE Append(f[n - 1], s[n])]

LEMMA SeenLoop ==
  ASSUME NEW D, NEW s \in Seq(D)
  PROVE  /\ Seen(s) \in [0 .. Len(s) -> Seq(D)]
         /\ Seen(s)[0] = <<>>
         /\ \A n \in 1 .. Len(s) :
               Seen(s)[n] = IF s[n] \in ToSet(Seen(s)[n - 1]) THEN Seen(s)[n - 1]
                            ELSE Append(Seen(s)[n - 1], s[n])
<1> DEFINE step == [n \in 1 .. Len(s) |-> [q \in Seq(D) |->
                      IF s[n] \in ToSet(q) THEN q ELSE Append(q, s[n])]]
           Def(f) == f = [n \in 0 .. Len(s) |->
                      IF n = 0 THEN <<>>
                      ELSE IF s[n] \in ToSet(f[n - 1]) THEN f[n - 1]
                                                       ELSE Append(f[n - 1], s[n])]
<1>1. \A n \in 1 .. Len(s), q \in Seq(D) :
         step[n][q] = IF s[n] \in ToSet(q) THEN q ELSE Append(q, s[n])
  OBVIOUS
<1>2. PICK f : Iterates(f, Seq(D), <<>>, Len(s), step)
  <2>1. /\ <<>> \in Seq(D) /\ Len(s) \in Nat
        /\ step \in [1 .. Len(s) -> [Seq(D) -> Seq(D)]]
    OBVIOUS
  <2>2. CanIterate(Seq(D), <<>>, Len(s), step)
    <3> HIDE DEF step
    <3> QED BY <2>1, Iteration, Zenon
  <2> QED BY <2>2 DEF CanIterate
<1> HIDE DEF step
<1> USE DEF Iterates
<1>3. Def(f)
  <2> SUFFICES ASSUME NEW n \in 0 .. Len(s)
               PROVE  f[n] = IF n = 0 THEN <<>>
                             ELSE IF s[n] \in ToSet(f[n - 1]) THEN f[n - 1]
                                                 ELSE Append(f[n - 1], s[n])
    BY <1>2
  <2>1. CASE n # 0
    <3>1. n \in 1 .. Len(s) /\ n - 1 \in 0 .. Len(s)
      BY <2>1
    <3>2. f[n - 1] \in Seq(D)
      BY <3>1, <1>2
    <3> QED BY <3>1, <3>2, <1>1, <1>2, <2>1
  <2> QED BY <1>2, <2>1
<1>4. Def(Seen(s))
  <2>1. Seen(s) = CHOOSE g : Def(g)
    BY DEF Seen
  <2> HIDE DEF Def
  <2> QED BY <1>3, <2>1
<1> DEFINE K == Seen(s)
           S == {n \in 0 .. Len(s) : K[n] \in Seq(D)}
<1>5. /\ K = [n \in 0 .. Len(s) |-> K[n]]
      /\ K[0] = <<>>
      /\ \A n \in 1 .. Len(s) : K[n] = IF s[n] \in ToSet(K[n - 1]) THEN K[n - 1] ELSE Append(K[n - 1], s[n])
  <2> HIDE DEF K
  <2>1. K = [n \in 0 .. Len(s) |-> IF n = 0 THEN <<>> ELSE IF s[n] \in ToSet(K[n - 1]) THEN K[n - 1] ELSE Append(K[n - 1], s[n])]
    BY <1>4 DEF K
  <2>2. 0 \in 0 .. Len(s) /\ \A n \in 1 .. Len(s) : n # 0 /\ n \in 0 .. Len(s)
    OBVIOUS
  <2> QED BY <2>1, <2>2
<1> HIDE DEF K
<1>6. ASSUME NEW n \in 0 .. Len(s) - 1, K[n] \in Seq(D)
      PROVE  K[n + 1] \in Seq(D)
  <2>1. n + 1 \in 1 .. Len(s) /\ (n + 1) - 1 = n
    OBVIOUS
  <2>2. K[n + 1] = IF s[n + 1] \in ToSet(K[n]) THEN K[n] ELSE Append(K[n], s[n + 1])
    BY <1>5, <2>1
  <2> QED BY <1>6, <2>1, <2>2
<1>7. 0 .. Len(s) \subseteq S
  <2>1. 0 \in S /\ Len(s) \in Nat
    BY <1>5
  <2>2. \A n \in 0 .. Len(s) - 1 : n \in S => n + 1 \in S
    BY <1>6
  <2> HIDE DEF S
  <2> QED BY <2>1, <2>2, UpTo
<1> QED BY <1>5, <1>7 DEF K

\* Once keeps every part, and none twice.
LEMMA OnceFacts ==
  ASSUME NEW D, NEW s \in Seq(D)
  PROVE  /\ Once(s) \in Seq(D)
         /\ ToSet(Once(s)) = ToSet(s)
         /\ Distinct(Once(s))
<1> DEFINE K == Seen(s)
           Good(n) == ToSet(K[n]) = First(s, n) /\ Distinct(K[n])
           S == {n \in 0 .. Len(s) : Good(n)}
<1>1. /\ K \in [0 .. Len(s) -> Seq(D)]
      /\ K[0] = <<>>
      /\ \A n \in 1 .. Len(s) :
            K[n] = IF s[n] \in ToSet(K[n - 1]) THEN K[n - 1]
                                               ELSE Append(K[n - 1], s[n])
  BY SeenLoop
<1>2. Len(s) \in Nat /\ DOMAIN s = 1 .. Len(s)
  OBVIOUS
<1>3. Once(s) = K[Len(s)]
  BY DEF Once, Seen
<1> HIDE DEF K
<1>4. Good(0)
  BY <1>1, <1>2, Nothing, FirstNext
<1>5. ASSUME NEW n \in 0 .. Len(s) - 1, Good(n) PROVE Good(n + 1)
  <2>1. /\ n + 1 \in 1 .. Len(s) /\ s[n + 1] \in D /\ K[n] \in Seq(D)
        /\ K[n + 1] = IF s[n + 1] \in ToSet(K[n]) THEN K[n]
                                                  ELSE Append(K[n], s[n + 1])
    BY <1>1, <1>2
  <2>2. First(s, n + 1) = First(s, n) \cup {s[n + 1]}
    BY FirstNext
  <2>3. CASE s[n + 1] \in ToSet(K[n])
    BY <1>5, <2>1, <2>2, <2>3
  <2>4. CASE s[n + 1] \notin ToSet(K[n])
    <3>1. /\ ToSet(K[n + 1]) = ToSet(K[n]) \cup {s[n + 1]}
          /\ Distinct(K[n + 1])
      BY <1>5, <2>1, <2>4, Pushed
    <3> QED BY <1>5, <2>1, <2>2, <3>1
  <2> QED BY <2>3, <2>4
<1>6. Good(Len(s))
  <2> HIDE DEF Good
  <2>1. 0 \in S /\ \A n \in 0 .. Len(s) - 1 : n \in S => n + 1 \in S
    BY <1>2, <1>4, <1>5
  <2>2. 0 .. Len(s) \subseteq S
    <3> HIDE DEF S
    <3> QED BY <1>2, <2>1, UpTo
  <2> QED BY <1>2, <2>2
<1>7. First(s, Len(s)) = ToSet(s)
  BY <1>2 DEF First, ToSet
<1> QED BY <1>1, <1>2, <1>3, <1>6, <1>7

-----------------------------------------------------------------------------
(* The column between its commas.                                           *)

Letter == Char \cup {Comma}

Joined(r) ==
    CHOOSE f : f = [n \in 0 .. Len(r) |->
                      IF n = 0 THEN <<Comma>> ELSE f[n - 1] \o r[n] \o <<Comma>>]

LEMMA JoinedLoop ==
  ASSUME NEW r \in Seq(Seq(Char))
  PROVE  /\ Joined(r) \in [0 .. Len(r) -> Seq(Letter)]
         /\ Joined(r)[0] = <<Comma>>
         /\ \A n \in 1 .. Len(r) :
               Joined(r)[n] = Joined(r)[n - 1] \o r[n] \o <<Comma>>
<1> DEFINE step == [n \in 1 .. Len(r) |-> [q \in Seq(Letter) |->
                      q \o r[n] \o <<Comma>>]]
           Def(f) == f = [n \in 0 .. Len(r) |->
                      IF n = 0 THEN <<Comma>> ELSE f[n - 1] \o r[n] \o <<Comma>>]
<1>1. \A n \in 1 .. Len(r), q \in Seq(Letter) :
         step[n][q] = q \o r[n] \o <<Comma>>
  OBVIOUS
<1>2. PICK f : Iterates(f, Seq(Letter), <<Comma>>, Len(r), step)
  <2>1. \A n \in 1 .. Len(r), q \in Seq(Letter) :
           q \o r[n] \o <<Comma>> \in Seq(Letter)
    <3> SUFFICES ASSUME NEW n \in 1 .. Len(r), NEW q \in Seq(Letter)
                 PROVE  q \o r[n] \o <<Comma>> \in Seq(Letter)
      OBVIOUS
    <3>1. r[n] \in Seq(Letter) /\ <<Comma>> \in Seq(Letter)
      BY DEF Letter
    <3> QED BY <3>1
  <2>2. <<Comma>> \in Seq(Letter) /\ Len(r) \in Nat
    BY DEF Letter
  <2>3. step \in [1 .. Len(r) -> [Seq(Letter) -> Seq(Letter)]]
    BY <2>1
  <2>4. CanIterate(Seq(Letter), <<Comma>>, Len(r), step)
    <3> HIDE DEF step
    <3> QED BY <2>2, <2>3, Iteration, Zenon
  <2> QED BY <2>4 DEF CanIterate
<1> HIDE DEF step
<1> USE DEF Iterates
<1>3. Def(f)
  <2> SUFFICES ASSUME NEW n \in 0 .. Len(r)
               PROVE  f[n] = IF n = 0 THEN <<Comma>>
                             ELSE f[n - 1] \o r[n] \o <<Comma>>
    BY <1>2
  <2>1. CASE n # 0
    <3>1. n \in 1 .. Len(r) /\ n - 1 \in 0 .. Len(r)
      BY <2>1
    <3>2. f[n - 1] \in Seq(Letter)
      BY <3>1, <1>2
    <3> QED BY <3>1, <3>2, <1>1, <1>2, <2>1
  <2> QED BY <1>2, <2>1
<1>4. Def(Joined(r))
  <2>1. Joined(r) = CHOOSE g : Def(g)
    BY DEF Joined
  <2> HIDE DEF Def
  <2> QED BY <1>3, <2>1
<1> DEFINE K == Joined(r)
           S == {n \in 0 .. Len(r) : K[n] \in Seq(Letter)}
<1>5. /\ K = [n \in 0 .. Len(r) |-> K[n]]
      /\ K[0] = <<Comma>>
      /\ \A n \in 1 .. Len(r) : K[n] = K[n - 1] \o r[n] \o <<Comma>>
  <2> HIDE DEF K
  <2>1. K = [n \in 0 .. Len(r) |-> IF n = 0 THEN <<Comma>> ELSE K[n - 1] \o r[n] \o <<Comma>>]
    BY <1>4 DEF K
  <2>2. 0 \in 0 .. Len(r) /\ \A n \in 1 .. Len(r) : n # 0 /\ n \in 0 .. Len(r)
    OBVIOUS
  <2> QED BY <2>1, <2>2
<1> HIDE DEF K
<1>6. ASSUME NEW n \in 0 .. Len(r) - 1, K[n] \in Seq(Letter)
      PROVE  K[n + 1] \in Seq(Letter)
  <2>1. n + 1 \in 1 .. Len(r) /\ (n + 1) - 1 = n
    OBVIOUS
  <2>2. K[n + 1] = K[n] \o r[n + 1] \o <<Comma>>
    BY <1>5, <2>1
  <2>3. r[n + 1] \in Seq(Letter) /\ <<Comma>> \in Seq(Letter)
    BY <2>1 DEF Letter
  <2> QED BY <1>6, <2>2, <2>3
<1>7. 0 .. Len(r) \subseteq S
  <2>1. 0 \in S /\ Len(r) \in Nat
    <3>1. <<Comma>> \in Seq(Letter) /\ Len(r) \in Nat
      BY DEF Letter
    <3>2. K[0] \in Seq(Letter) /\ 0 \in 0 .. Len(r)
      BY <1>5, <3>1
    <3> QED BY <3>1, <3>2
  <2>2. \A n \in 0 .. Len(r) - 1 : n \in S => n + 1 \in S
    BY <1>6
  <2> HIDE DEF S
  <2> QED BY <2>1, <2>2, UpTo
<1> QED BY <1>5, <1>7 DEF K

\* One turn of the loop: what stands where.
LEMMA Piece ==
  ASSUME NEW u \in Seq(Letter), NEW t \in Seq(Char)
  PROVE  LET v == u \o t \o <<Comma>>
         IN  /\ v \in Seq(Letter)
             /\ Len(v) = Len(u) + Len(t) + 1
             /\ \A p \in 1 .. Len(u) : v[p] = u[p]
             /\ \A k \in 1 .. Len(t) : v[Len(u) + k] = t[k]
             /\ v[Len(u) + Len(t) + 1] = Comma
<1>1. t \in Seq(Letter) /\ <<Comma>> \in Seq(Letter) /\ Len(<<Comma>>) = 1
  BY DEF Letter
<1> DEFINE w == u \o t
<1>2. /\ w \in Seq(Letter) /\ Len(w) = Len(u) + Len(t)
      /\ \A p \in 1 .. Len(u) : w[p] = u[p]
      /\ \A k \in 1 .. Len(t) : w[Len(u) + k] = t[k]
  BY <1>1
<1> HIDE DEF w
<1>3. /\ w \o <<Comma>> \in Seq(Letter)
      /\ Len(w \o <<Comma>>) = Len(w) + 1
      /\ \A p \in 1 .. Len(w) : (w \o <<Comma>>)[p] = w[p]
      /\ (w \o <<Comma>>)[Len(w) + 1] = Comma
  BY <1>1, <1>2
<1>4. /\ Len(u) \in Nat /\ Len(t) \in Nat
      /\ \A k \in 1 .. Len(t) : Len(u) + k \in 1 .. Len(w)
  BY <1>2
<1> QED BY <1>2, <1>3, <1>4 DEF w

\* The string w of the first n tags of r: the m-th one ends before the comma at
\* E[m], and no other character is a comma.
Laid(w, E, r, n) ==
    /\ Len(w) = E[n]
    /\ \A m \in 0 .. n : E[m] \in 1 .. Len(w) /\ w[E[m]] = Comma
    /\ \A m \in 1 .. n :
          /\ E[m] = E[m - 1] + Len(r[m]) + 1
          /\ \A k \in 1 .. Len(r[m]) : w[E[m - 1] + k] = r[m][k]
    /\ \A p \in 1 .. Len(w) : w[p] = Comma => \E m \in 0 .. n : p = E[m]

LEMMA LaidNext ==
  ASSUME NEW n \in Nat, NEW E, NEW r, \A m \in 1 .. n + 1 : r[m] \in Seq(Char),
         NEW w \in Seq(Letter), Laid(w, E, r, n),
         E[n + 1] = Len(w) + Len(r[n + 1]) + 1
  PROVE  Laid(w \o r[n + 1] \o <<Comma>>, E, r, n + 1)
<1> DEFINE t == r[n + 1]
           v == w \o t \o <<Comma>>
<1>1. t \in Seq(Char) /\ Len(t) \in Nat /\ Len(w) \in Nat
  <2>1. n + 1 \in 1 .. n + 1
    OBVIOUS
  <2> QED BY <2>1
<1>2. /\ v \in Seq(Letter)
      /\ Len(v) = Len(w) + Len(t) + 1
      /\ \A p \in 1 .. Len(w) : v[p] = w[p]
      /\ \A k \in 1 .. Len(t) : v[Len(w) + k] = t[k]
      /\ v[Len(w) + Len(t) + 1] = Comma
  <2> HIDE DEF t
  <2> QED BY <1>1, Piece
<1>3. /\ Len(w) = E[n]
      /\ \A m \in 0 .. n : E[m] \in 1 .. Len(w) /\ w[E[m]] = Comma
      /\ \A m \in 1 .. n :
            /\ E[m] = E[m - 1] + Len(r[m]) + 1
            /\ \A k \in 1 .. Len(r[m]) : w[E[m - 1] + k] = r[m][k]
      /\ \A p \in 1 .. Len(w) : w[p] = Comma => \E m \in 0 .. n : p = E[m]
  BY DEF Laid
<1>4. E[n + 1] = Len(w) + Len(t) + 1 /\ t = r[n + 1]
  OBVIOUS
<1> HIDE DEF t, v
<1>5. ASSUME NEW m \in 0 .. n + 1
      PROVE  E[m] \in 1 .. Len(v) /\ v[E[m]] = Comma
  <2>1. CASE m = n + 1
    BY <1>1, <1>2, <1>4, <2>1
  <2>2. CASE m \in 0 .. n
    <3>1. E[m] \in 1 .. Len(w) /\ w[E[m]] = Comma
      BY <1>3, <2>2
    <3>2. E[m] \in 1 .. Len(v)
      BY <1>1, <1>2, <3>1
    <3> QED BY <1>2, <3>1, <3>2
  <2> QED BY <2>1, <2>2
<1>6. ASSUME NEW m \in 1 .. n + 1
      PROVE  /\ E[m] = E[m - 1] + Len(r[m]) + 1
             /\ \A k \in 1 .. Len(r[m]) : v[E[m - 1] + k] = r[m][k]
  <2>1. CASE m = n + 1
    <3>1. m - 1 = n
      BY <2>1
    <3> QED BY <1>2, <1>3, <1>4, <2>1, <3>1
  <2>2. CASE m \in 1 .. n
    <3>1. E[m] = E[m - 1] + Len(r[m]) + 1
      BY <1>3, <2>2
    <3>2. ASSUME NEW k \in 1 .. Len(r[m]) PROVE v[E[m - 1] + k] = r[m][k]
      <4>1. m - 1 \in 0 .. n /\ m \in 0 .. n /\ Len(r[m]) \in Nat
        BY <2>2
      <4>2. E[m - 1] \in 1 .. Len(w) /\ E[m] \in 1 .. Len(w)
        BY <1>3, <4>1
      <4>3. E[m - 1] + k \in 1 .. Len(w)
        <5> DEFINE e == E[m - 1]
                   l == Len(r[m])
        <5>1. /\ e \in Nat /\ e >= 1 /\ l \in Nat /\ k \in Nat /\ 1 <= k /\ k <= l
              /\ e + l + 1 <= Len(w) /\ Len(w) \in Nat
          BY <1>1, <3>1, <4>1, <4>2
        <5> HIDE DEF e, l
        <5>2. e + k \in 1 .. Len(w)
          BY <5>1
        <5> QED BY <5>2 DEF e
      <4>4. w[E[m - 1] + k] = r[m][k]
        BY <1>3, <2>2
      <4> QED BY <1>2, <4>3, <4>4
    <3> QED BY <3>1, <3>2
  <2> QED BY <2>1, <2>2
<1>7. ASSUME NEW p \in 1 .. Len(v), v[p] = Comma
      PROVE  \E m \in 0 .. n + 1 : p = E[m]
  <2>1. CASE p \in 1 .. Len(w)
    <3>1. w[p] = Comma
      BY <1>2, <1>7, <2>1
    <3>2. PICK m \in 0 .. n : p = E[m]
      BY <1>3, <2>1, <3>1
    <3>3. m \in 0 .. n + 1
      OBVIOUS
    <3> QED BY <3>2, <3>3
  <2>2. CASE p \in Len(w) + 1 .. Len(w) + Len(t)
    <3> DEFINE k == p - Len(w)
    <3>1. k \in 1 .. Len(t) /\ p = Len(w) + k
      BY <1>1, <2>2
    <3> HIDE DEF k
    <3>2. v[p] = t[k] /\ t[k] \in Char
      BY <1>1, <1>2, <3>1
    <3> QED BY <1>7, <3>2, CharAssumption
  <2>3. CASE p = Len(v)
    <3>1. n + 1 \in 0 .. n + 1 /\ p = E[n + 1]
      BY <1>2, <1>4, <2>3
    <3> QED BY <3>1
  <2>4. \/ p \in 1 .. Len(w)
        \/ p \in Len(w) + 1 .. Len(w) + Len(t)
        \/ p = Len(v)
    <3> DEFINE a == Len(w)
               b == Len(t)
               c == Len(v)
    <3>1. a \in Nat /\ b \in Nat /\ c = a + b + 1 /\ p \in 1 .. c
      BY <1>1, <1>2
    <3> HIDE DEF a, b, c
    <3>2. p \in 1 .. a \/ p \in a + 1 .. a + b \/ p = c
      BY <3>1
    <3> QED BY <3>2 DEF a, b, c
  <2> QED BY <2>1, <2>2, <2>3, <2>4
<1>8. Len(v) = E[n + 1]
  BY <1>2, <1>4
<1> QED BY <1>5, <1>6, <1>7, <1>8 DEF Laid, v, t

Ends(r) == [m \in 0 .. Len(r) |-> Len(Joined(r)[m])]

LEMMA Layout ==
  ASSUME NEW r \in Seq(Seq(Char))
  PROVE  /\ Wrapped(r) \in Seq(Letter)
         /\ Laid(Wrapped(r), Ends(r), r, Len(r))
<1> DEFINE U == Joined(r)
           E == Ends(r)
           S == {n \in 0 .. Len(r) : Laid(U[n], E, r, n)}
<1>1. /\ U \in [0 .. Len(r) -> Seq(Letter)]
      /\ U[0] = <<Comma>>
      /\ \A n \in 1 .. Len(r) : U[n] = U[n - 1] \o r[n] \o <<Comma>>
  BY JoinedLoop
<1>2. Wrapped(r) = U[Len(r)]
  BY DEF Wrapped, Joined
<1>3. \A m \in 0 .. Len(r) : E[m] = Len(U[m])
  BY DEF Ends
<1>4. Len(r) \in Nat /\ \A m \in 1 .. Len(r) : r[m] \in Seq(Char)
  OBVIOUS
<1> HIDE DEF U, E
<1>5. Laid(U[0], E, r, 0)
  <2>1. Len(<<Comma>>) = 1 /\ <<Comma>>[1] = Comma /\ 1 .. 0 = {}
    OBVIOUS
  <2>2. E[0] = 1
    <3>1. 0 \in 0 .. Len(r)
      BY <1>4
    <3> QED BY <1>1, <1>3, <2>1, <3>1
  <2> QED BY <1>1, <2>1, <2>2 DEF Laid
<1>6. ASSUME NEW n \in 0 .. Len(r) - 1, Laid(U[n], E, r, n)
      PROVE  Laid(U[n + 1], E, r, n + 1)
  <2>1. /\ n \in Nat /\ n \in 0 .. Len(r)
        /\ n + 1 \in 1 .. Len(r) /\ (n + 1) - 1 = n
        /\ \A m \in 1 .. n + 1 : m \in 1 .. Len(r)
    BY <1>4
  <2>2. U[n] \in Seq(Letter) /\ U[n + 1] = U[n] \o r[n + 1] \o <<Comma>>
    BY <1>1, <1>4, <2>1
  <2>3. r[n + 1] \in Seq(Char) /\ \A m \in 1 .. n + 1 : r[m] \in Seq(Char)
    BY <1>4, <2>1
  <2>4. E[n + 1] = Len(U[n]) + Len(r[n + 1]) + 1
    <3>1. E[n + 1] = Len(U[n + 1])
      BY <1>3, <2>1
    <3> QED BY <2>2, <2>3, <3>1, Piece
  <2> QED BY <1>6, <2>1, <2>2, <2>3, <2>4, LaidNext
<1>7. Len(r) \in Nat /\ 0 \in S /\ \A n \in 0 .. Len(r) - 1 : n \in S => n + 1 \in S
  BY <1>4, <1>5, <1>6
<1>8. 0 .. Len(r) \subseteq S
  <2> HIDE DEF S
  <2> QED BY <1>7, UpTo
<1>9. Laid(U[Len(r)], E, r, Len(r))
  BY <1>4, <1>8
<1> QED BY <1>1, <1>2, <1>4, <1>9 DEF E

-----------------------------------------------------------------------------
(* The search.                                                              *)

Wanted(tag) == <<Comma>> \o tag \o <<Comma>>

LEMMA WantedFacts ==
  ASSUME NEW tag \in Seq(Char)
  PROVE  /\ Len(Wanted(tag)) = Len(tag) + 2
         /\ Wanted(tag)[1] = Comma
         /\ \A k \in 1 .. Len(tag) : Wanted(tag)[1 + k] = tag[k]
         /\ Wanted(tag)[Len(tag) + 2] = Comma
<1>1. <<Comma>> \in Seq(Letter) /\ Len(<<Comma>>) = 1 /\ <<Comma>>[1] = Comma
  BY DEF Letter
<1> DEFINE v == <<Comma>> \o tag \o <<Comma>>
<1>2. /\ Len(v) = 1 + Len(tag) + 1
      /\ v[1] = Comma
      /\ \A k \in 1 .. Len(tag) : v[1 + k] = tag[k]
      /\ v[1 + Len(tag) + 1] = Comma
  <2>1. 1 \in 1 .. 1
    OBVIOUS
  <2> HIDE DEF v
  <2> QED BY <1>1, <2>1, Piece DEF v
<1>3. Len(tag) \in Nat /\ 1 + Len(tag) + 1 = Len(tag) + 2
  OBVIOUS
<1> QED BY <1>2, <1>3 DEF Wanted

\* A tag is found wherever it stands.
LEMMA FindsAll ==
  ASSUME NEW r \in Seq(Seq(Char)), NEW m \in 1 .. Len(r)
  PROVE  TagMatches(r, r[m])
<1> DEFINE w == Wrapped(r)
           E == Ends(r)
           tag == r[m]
           i == E[m - 1] - 1
<1>1. w \in Seq(Letter) /\ Laid(w, E, r, Len(r))
  BY Layout
<1>2. tag \in Seq(Char) /\ Len(tag) \in Nat /\ Len(r) \in Nat /\ Len(w) \in Nat
  BY <1>1
<1>3. /\ m - 1 \in 0 .. Len(r) /\ m \in 0 .. Len(r) /\ m \in 1 .. Len(r)
  BY <1>2
<1> HIDE DEF w, E
<1>4. /\ E[m - 1] \in 1 .. Len(w) /\ w[E[m - 1]] = Comma
      /\ E[m] \in 1 .. Len(w) /\ w[E[m]] = Comma
      /\ E[m] = E[m - 1] + Len(tag) + 1
      /\ \A k \in 1 .. Len(tag) : w[E[m - 1] + k] = tag[k]
  BY <1>1, <1>3 DEF Laid
<1> DEFINE e == E[m - 1]
           l == Len(tag)
           p == Wanted(tag)
<1>5. /\ Len(p) = l + 2 /\ p[1] = Comma /\ p[l + 2] = Comma
      /\ \A k \in 1 .. l : p[1 + k] = tag[k]
  BY <1>2, WantedFacts
<1>6. /\ e \in Nat /\ 1 <= e /\ l \in Nat /\ e + l + 1 <= Len(w) /\ Len(w) \in Nat
      /\ w[e] = Comma /\ w[e + l + 1] = Comma
      /\ \A k \in 1 .. l : w[e + k] = tag[k]
  BY <1>2, <1>4
<1> HIDE DEF e, l, p, tag
<1>7. i \in 0 .. Len(w) - Len(p)
  <2>1. i = e - 1
    BY DEF e
  <2> DEFINE lw == Len(w)
             lp == Len(p)
  <2>2. lw \in Nat /\ lp = l + 2 /\ e + l + 1 <= lw
    BY <1>5, <1>6
  <2> HIDE DEF i, lw, lp
  <2>3. i \in 0 .. lw - lp
    BY <1>6, <2>1, <2>2
  <2> QED BY <2>3 DEF lw, lp
<1>8. ASSUME NEW k \in 1 .. Len(p) PROVE p[k] = w[i + k]
  <2>1. i = e - 1
    BY DEF e
  <2> HIDE DEF i
  <2>2. CASE k = 1
    BY <1>5, <1>6, <2>1, <2>2
  <2>3. CASE k = l + 2
    <3>1. i + k = e + l + 1
      BY <1>6, <2>1, <2>3
    <3> QED BY <1>5, <1>6, <2>3, <3>1
  <2>4. CASE k \in 2 .. l + 1
    <3> DEFINE j == k - 1
    <3>1. j \in 1 .. l /\ k = 1 + j /\ i + k = e + j
      BY <1>6, <2>1, <2>4
    <3> HIDE DEF j
    <3> QED BY <1>5, <1>6, <3>1
  <2> QED BY <1>5, <1>6, <2>2, <2>3, <2>4
<1>9. LikeAnywhere(w, p)
  <2> HIDE DEF i
  <2> QED BY <1>7, <1>8 DEF LikeAnywhere, LikeChar
<1> QED BY <1>9 DEF TagMatches, w, p, Wanted, tag

\* What is found has the tag: the commas of the pattern fit two commas of the
\* string, and there is none between these two.
LEMMA FindsOnly ==
  ASSUME NEW r \in Seq(Seq(Char)), NEW tag \in Seq(Char),
         \A k \in 1 .. Len(tag) : tag[k] # Underscore,
         TagMatches(r, tag)
  PROVE  \E m \in 1 .. Len(r) : SameButCase(r[m], tag)
<1> DEFINE w == Wrapped(r)
           E == Ends(r)
           p == Wanted(tag)
           l == Len(tag)
           N == Len(r)
<1>1. w \in Seq(Letter) /\ Laid(w, E, r, N) /\ Len(w) \in Nat /\ N \in Nat
  BY Layout
<1>2. /\ Len(w) = E[N]
      /\ \A m \in 0 .. N : E[m] \in 1 .. Len(w) /\ w[E[m]] = Comma
      /\ \A m \in 1 .. N :
            /\ E[m] = E[m - 1] + Len(r[m]) + 1
            /\ \A k \in 1 .. Len(r[m]) : w[E[m - 1] + k] = r[m][k]
      /\ \A q \in 1 .. Len(w) : w[q] = Comma => \E m \in 0 .. N : q = E[m]
  BY <1>1 DEF Laid
<1>3. /\ Len(p) = l + 2 /\ p[1] = Comma /\ p[l + 2] = Comma
      /\ \A k \in 1 .. l : p[1 + k] = tag[k]
  BY WantedFacts
<1>4. l \in Nat /\ \A k \in 1 .. l : tag[k] \in Char /\ tag[k] # Underscore
  OBVIOUS
<1>5. \A m \in 1 .. N : r[m] \in Seq(Char) /\ Len(r[m]) \in Nat
  OBVIOUS
<1>6. LikeAnywhere(w, p)
  BY DEF TagMatches, Wanted
<1> HIDE DEF w, E, p, l, N
<1>7. PICK i \in 0 .. Len(w) - Len(p) :
         \A k \in 1 .. Len(p) : LikeChar(p[k], w[i + k])
  BY <1>6 DEF LikeAnywhere
<1>8. i \in Nat /\ i + l + 2 <= Len(w)
  <2> DEFINE lw == Len(w)
             lp == Len(p)
  <2>1. lw \in Nat /\ lp = l + 2 /\ i \in 0 .. lw - lp
    BY <1>1, <1>3
  <2> HIDE DEF lw, lp
  <2>2. i \in Nat /\ i + l + 2 <= lw
    BY <1>4, <2>1
  <2> QED BY <2>2 DEF lw
<1>9. \A k \in 1 .. l + 2 : i + k \in 1 .. Len(w) /\ w[i + k] \in Letter
  <2> SUFFICES ASSUME NEW k \in 1 .. l + 2
               PROVE  i + k \in 1 .. Len(w) /\ w[i + k] \in Letter
    OBVIOUS
  <2>1. i + k \in 1 .. Len(w)
    BY <1>1, <1>4, <1>8
  <2> QED BY <1>1, <2>1
<1>10. Comma # Underscore
  BY DEF Comma, Underscore
<1>11. w[i + 1] = Comma /\ w[i + l + 2] = Comma
  <2>1. 1 \in 1 .. l + 2 /\ l + 2 \in 1 .. l + 2 /\ i + (l + 2) = i + l + 2
    BY <1>4, <1>8
  <2>2. Lower(w[i + 1]) = Lower(Comma) /\ Lower(w[i + (l + 2)]) = Lower(Comma)
    BY <1>3, <1>7, <1>10, <2>1 DEF LikeChar
  <2>3. w[i + 1] \in Letter /\ w[i + (l + 2)] \in Letter
    BY <1>9, <2>1
  <2> QED BY <2>1, <2>2, <2>3, CharAssumption DEF Letter
<1>12. \A k \in 1 .. l : Lower(w[i + 1 + k]) = Lower(tag[k])
  <2> SUFFICES ASSUME NEW k \in 1 .. l PROVE Lower(w[i + 1 + k]) = Lower(tag[k])
    OBVIOUS
  <2>1. 1 + k \in 1 .. l + 2 /\ i + (1 + k) = i + 1 + k
    BY <1>4, <1>8
  <2>2. p[1 + k] = tag[k] /\ tag[k] # Underscore
    BY <1>3, <1>4
  <2>3. LikeChar(p[1 + k], w[i + (1 + k)])
    BY <1>3, <1>7, <2>1
  <2> QED BY <2>1, <2>2, <2>3 DEF LikeChar
<1>13. PICK n \in 0 .. N : i + 1 = E[n]
  <2>1. i + 1 \in 1 .. Len(w)
    BY <1>1, <1>4, <1>8
  <2> QED BY <1>2, <1>11, <2>1
<1>14. n # N
  BY <1>1, <1>2, <1>4, <1>8, <1>13
<1> DEFINE m == n + 1
           lm == Len(r[m])
<1>15. m \in 1 .. N /\ m - 1 = n /\ m \in 0 .. N
  BY <1>1, <1>14
<1>16. /\ r[m] \in Seq(Char) /\ lm \in Nat
       /\ E[m] = E[n] + lm + 1
       /\ w[E[m]] = Comma
       /\ \A k \in 1 .. lm : w[E[n] + k] = r[m][k]
  <2> HIDE DEF m
  <2> QED BY <1>2, <1>5, <1>15
<1> HIDE DEF m, lm
<1>17. lm >= l
  <2>1. SUFFICES ASSUME lm < l PROVE FALSE
    BY <1>4, <1>16
  <2> DEFINE k == lm + 1
  <2> DEFINE a == E[n]
             b == E[m]
  <2>2. l \in Nat /\ lm \in Nat /\ i \in Nat /\ i + 1 = a /\ b = a + lm + 1
    BY <1>4, <1>8, <1>13, <1>16
  <2> HIDE DEF a, b
  <2>3. lm + 1 \in 1 .. l /\ b = i + 1 + (lm + 1)
    BY <2>2, <2>1
  <2>4. k \in 1 .. l /\ E[m] = i + 1 + k
    BY <2>3 DEF b
  <2> HIDE DEF k
  <2>5. Lower(tag[k]) = Lower(Comma) /\ tag[k] \in Char
    BY <1>4, <1>12, <1>16, <2>4
  <2> QED BY <2>5, CharAssumption
<1>18. lm <= l
  <2>1. SUFFICES ASSUME lm > l PROVE FALSE
    BY <1>4, <1>16
  <2> DEFINE k == l + 1
  <2>2. k \in 1 .. lm /\ i + l + 2 = E[n] + k
    BY <1>4, <1>8, <1>13, <1>16, <2>1
  <2> HIDE DEF k
  <2>3. r[m][k] = Comma
    BY <1>11, <1>16, <2>2
  <2>4. r[m][k] \in Char
    BY <1>16, <2>2 DEF lm
  <2> QED BY <2>3, <2>4, CharAssumption
<1>19. lm = l
  BY <1>4, <1>16, <1>17, <1>18
<1>20. \A k \in 1 .. l : Lower(r[m][k]) = Lower(tag[k])
  BY <1>12, <1>13, <1>16, <1>19
<1>21. SameButCase(r[m], tag)
  BY <1>19, <1>20 DEF SameButCase, lm, l
<1> QED BY <1>15, <1>21 DEF N

-----------------------------------------------------------------------------
(* The column of an account.                                                *)

\* The inductive invariant: the string has the tags it is meant to have, each of
\* them once.
RolesInv ==
    /\ role \in Seq(Role)
    /\ held \subseteq Role
    /\ RepresentsHeld
    /\ NoRepetition

LEMMA RolesInit == Init => RolesInv
<1> SUFFICES ASSUME Init PROVE RolesInv
  OBVIOUS
<1>1. role = <<UserTag>> /\ held = {UserTag} /\ UserTag \in Role
  BY DEF Init, Role
<1>2. /\ <<UserTag>> \in Seq(Role)
      /\ Len(<<UserTag>>) = 1 /\ <<UserTag>>[1] = UserTag
      /\ DOMAIN <<UserTag>> = 1 .. 1
  BY <1>1
<1>3. ToSet(role) = held /\ NoRepetition
  BY <1>1, <1>2 DEF ToSet, NoRepetition
<1> QED BY <1>1, <1>2, <1>3 DEF RolesInv, RepresentsHeld

\* What parse_roles gives of a column.
LEMMA Parsed ==
  ASSUME RolesInv
  PROVE  /\ ParseRoles(role) \in Seq(Role)
         /\ ToSet(ParseRoles(role)) = held
         /\ Distinct(ParseRoles(role))
<1>1. role \in Seq(Role) /\ ToSet(role) = held /\ Distinct(role) /\ held \subseteq Role
  BY DEF RolesInv, RepresentsHeld, NoRepetition, Distinct
<1>2. /\ ParseRoles(role) \in Seq(Role)
      /\ ToSet(ParseRoles(role)) = ToSet(role) \ {Blank}
      /\ Distinct(ParseRoles(role))
  BY <1>1, WithoutFacts DEF ParseRoles
<1> QED BY <1>1, <1>2, TagAssumption

LEMMA SetRoleKeeps ==
  ASSUME RolesInv, SetRole PROVE RolesInv'
<1>1. PICK n \in 1 .. MaxParts :
         \E parts \in [1 .. n -> Role \cup {Blank, BadPart}] :
            /\ BadPart \notin ToSet(parts)
            /\ ValidateRoleStr(parts) # <<>>
            /\ role' = ValidateRoleStr(parts)
            /\ held' = ToSet(parts) \ {Blank}
  BY DEF SetRole
<1>2. PICK parts \in [1 .. n -> Role \cup {Blank, BadPart}] :
            /\ BadPart \notin ToSet(parts)
            /\ role' = ValidateRoleStr(parts)
            /\ held' = ToSet(parts) \ {Blank}
  BY <1>1
<1> DEFINE D == Role \cup {Blank}
           q == ParseRoles(parts)
<1>3. parts \in Seq(D)
  <2>1. \A i \in 1 .. n : parts[i] \in ToSet(parts)
    BY DEF ToSet
  <2>2. \A i \in 1 .. n : parts[i] \in D
    BY <1>2, <2>1
  <2>3. n \in Nat
    BY MaxPartsAssumption
  <2> QED BY <2>2, <2>3
<1> HIDE DEF D
<1>4. q \in Seq(D) /\ ToSet(q) = held'
  BY <1>2, <1>3, WithoutFacts DEF ParseRoles
<1> HIDE DEF q
<1>5. role' \in Seq(D) /\ ToSet(role') = held' /\ Distinct(role')
  <2>1. role' = Once(q)
    BY <1>2 DEF ValidateRoleStr, q
  <2> QED BY <1>4, <2>1, OnceFacts
<1>6. held' \subseteq Role
  <2>1. ToSet(parts) \subseteq D
    BY <1>3 DEF ToSet
  <2> QED BY <1>2, <2>1 DEF D
<1>7. role' \in Seq(Role)
  <2>1. \A i \in 1 .. Len(role') : role'[i] \in Role
    <3>1. \A i \in 1 .. Len(role') : role'[i] \in ToSet(role')
      BY <1>5 DEF ToSet
    <3> QED BY <1>5, <1>6, <3>1
  <2> QED BY <1>5, <2>1
<1> QED BY <1>5, <1>6, <1>7 DEF RolesInv, RepresentsHeld, NoRepetition, Distinct

LEMMA AddTagKeeps ==
  ASSUME RolesInv, AddTag PROVE RolesInv'
<1>1. PICK tag \in Tag : /\ ~HasRole(role, tag)
                         /\ role' = AddTagToRole(role, tag)
                         /\ held' = held \cup {tag}
  BY DEF AddTag
<1> DEFINE q == ParseRoles(role)
<1>2. q \in Seq(Role) /\ ToSet(q) = held /\ Distinct(q)
  BY Parsed
<1>3. tag \in Role /\ tag \notin ToSet(q) /\ role' = Append(q, tag)
  BY <1>1 DEF HasRole, AddTagToRole, Role
<1> HIDE DEF q
<1>4. ToSet(role') = held' /\ Distinct(role') /\ role' \in Seq(Role)
  BY <1>1, <1>2, <1>3, Pushed
<1>5. held' \subseteq Role
  BY <1>1, <1>3 DEF RolesInv
<1> QED BY <1>4, <1>5 DEF RolesInv, RepresentsHeld, NoRepetition, Distinct

LEMMA RemoveTagKeeps ==
  ASSUME RolesInv, RemoveTag PROVE RolesInv'
<1>1. PICK tag \in Tag : /\ role' = RemoveTagFromRole(role, tag)
                         /\ held' = held \ {tag}
  BY DEF RemoveTag
<1> DEFINE q == ParseRoles(role)
<1>2. q \in Seq(Role) /\ ToSet(q) = held /\ Distinct(q)
  BY Parsed
<1>3. role' = Without(q, tag)
  BY <1>1 DEF RemoveTagFromRole
<1> HIDE DEF q
<1>4. ToSet(role') = held' /\ Distinct(role') /\ role' \in Seq(Role)
  BY <1>1, <1>2, <1>3, WithoutFacts
<1>5. held' \subseteq Role
  BY <1>1 DEF RolesInv
<1> QED BY <1>4, <1>5 DEF RolesInv, RepresentsHeld, NoRepetition, Distinct

LEMMA RolesInvariance == Spec => []RolesInv
<1>1. RolesInv /\ [Next]_vars => RolesInv'
  <2> SUFFICES ASSUME RolesInv, [Next]_vars PROVE RolesInv'
    OBVIOUS
  <2>1. CASE UNCHANGED vars
    BY <2>1 DEF vars, RolesInv, RepresentsHeld, NoRepetition
  <2> QED BY <2>1, SetRoleKeeps, AddTagKeeps, RemoveTagKeeps DEF Next
<1> QED BY <1>1, RolesInit, PTL DEF Spec

\* The column of an account holds exactly the tags that its administrators and
\* staff have left it: utils.rs rebuilds the string without a loss or a gain.
THEOREM ColumnRepresents == Spec => []RepresentsHeld
<1>1. RolesInv => RepresentsHeld
  BY DEF RolesInv
<1> QED BY <1>1, RolesInvariance, PTL

\* No tag is in the column twice, so that one removal removes it.
THEOREM ColumnHasNoRepetition == Spec => []NoRepetition
<1>1. RolesInv => NoRepetition
  BY DEF RolesInv
<1> QED BY <1>1, RolesInvariance, PTL

LEMMA RoleStrings ==
  ASSUME role \in Seq(Role) PROVE role \in Seq(Seq(Char))
  BY TagAssumption

\* The search of the staff (list_tagged_users) finds every holder of a tag.
THEOREM SearchIsComplete == Spec => []SearchFindsAll
<1>1. ASSUME RolesInv PROVE SearchFindsAll
  <2> SUFFICES ASSUME NEW tag \in Tag, tag \in held PROVE Listed(role, {tag})
    BY DEF SearchFindsAll
  <2>1. role \in Seq(Seq(Char)) /\ role \in Seq(Role) /\ ToSet(role) = held
    BY <1>1, RoleStrings DEF RolesInv, RepresentsHeld
  <2>2. PICK m \in 1 .. Len(role) : role[m] = tag
    <3>1. DOMAIN role = 1 .. Len(role)
      BY <2>1
    <3>2. tag \in {role[j] : j \in DOMAIN role}
      BY <2>1, Zenon DEF ToSet
    <3> QED BY <3>1, <3>2
  <2>3. TagMatches(role, tag)
    BY <2>1, <2>2, FindsAll
  <2>4. role # <<>>
    BY <2>2
  <2>5. role # <<UserTag>>
    <3>1. SUFFICES ASSUME role = <<UserTag>> PROVE FALSE
      OBVIOUS
    <3>2. role[m] = UserTag
      BY <2>2, <3>1
    <3> QED BY <2>2, <3>2, TagAssumption
  <2> QED BY <2>3, <2>4, <2>5 DEF Listed
<1> QED BY <1>1, RolesInvariance, PTL

\* It finds nobody else, but for the case of letters and for the underscore.
THEOREM SearchIsExact == Spec => []SearchFindsOnly
<1>1. ASSUME RolesInv PROVE SearchFindsOnly
  <2> SUFFICES ASSUME NEW tag \in Tag,
                      \A k \in 1 .. Len(tag) : tag[k] # Underscore,
                      Listed(role, {tag})
               PROVE  \E t \in held : SameButCase(t, tag)
    BY DEF SearchFindsOnly
  <2>1. role \in Seq(Seq(Char)) /\ role \in Seq(Role) /\ ToSet(role) = held
    BY <1>1, RoleStrings DEF RolesInv, RepresentsHeld
  <2>2. tag \in Seq(Char) /\ TagMatches(role, tag)
    BY TagAssumption DEF Listed, Role
  <2>3. PICK m \in 1 .. Len(role) : SameButCase(role[m], tag)
    BY <2>1, <2>2, FindsOnly
  <2>4. role[m] \in held
    BY <2>1 DEF ToSet
  <2> QED BY <2>3, <2>4
<1> QED BY <1>1, RolesInvariance, PTL
=============================================================================
