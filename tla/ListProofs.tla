----------------------------- MODULE ListProofs -----------------------------
(***************************************************************************)
(* Lemmas about natural numbers and about Lists.  Only is a recursive      *)
(* function; what it computes is proved by induction on the length of the  *)
(* list that it has gone through, in the form of a least counterexample.   *)
(***************************************************************************)
EXTENDS Lists, SequenceTheorems, WellFoundedInduction, TLAPS

\* A set of naturals that is not empty has a least member.
LEMMA Least ==
  ASSUME NEW S \in SUBSET Nat, S # {}
  PROVE  \E m \in S : \A n \in S : m <= n
<1>1. PICK m \in S : \A n \in S : ~ (<<n, m>> \in OpToRel(<, Nat))
  BY NatLessThanWellFounded, WFMin
<1>2. \A n \in S : <<n, m>> \in OpToRel(<, Nat) <=> n < m
  BY DEF OpToRel
<1>3. \A n \in S : m <= n
  <2>1. SUFFICES ASSUME NEW n \in S PROVE m <= n
    OBVIOUS
  <2>2. ~ (n < m)
    BY <1>1, <1>2
  <2>3. n \in Nat /\ m \in Nat
    OBVIOUS
  <2> QED BY <2>2, <2>3
<1> QED BY <1>3

\* Induction up to n: a set that holds 0, and with a number the next one.
LEMMA UpTo ==
  ASSUME NEW n \in Nat, NEW S, 0 \in S, \A i \in 1 .. n : i - 1 \in S => i \in S
  PROVE  0 .. n \subseteq S
<1> DEFINE Rest == {i \in 0 .. n : i \notin S}
<1>1. SUFFICES ASSUME Rest # {} PROVE FALSE
  OBVIOUS
<1>2. Rest \in SUBSET Nat
  OBVIOUS
<1>3. PICK m \in Rest : \A i \in Rest : m <= i
  <2> HIDE DEF Rest
  <2> QED BY <1>1, <1>2, Least
<1>4. m \in 1 .. n /\ m - 1 \in 0 .. n
  BY <1>3
<1>5. m - 1 \notin Rest
  BY <1>2, <1>3, <1>4
<1> QED BY <1>3, <1>4, <1>5

\* Only goes through the list from its front: what it has kept of the first i members
\* follows from what it had kept of the first i - 1.
LEMMA OnlyUnfolds ==
  ASSUME NEW T, NEW s \in Seq(T), NEW S
  PROVE  \E kept : /\ Only(s, S) = kept[Len(s)] /\ kept[0] = <<>>
                   /\ \A i \in 1 .. Len(s) :
                        kept[i] = IF s[i] \in S THEN Append(kept[i - 1], s[i]) ELSE kept[i - 1]
<1> DEFINE n == Len(s)
           Step(i, before) == IF s[i] \in S THEN Append(before, s[i]) ELSE before
           Body(f) == [i \in 0 .. n |-> IF i = 0 THEN <<>> ELSE
                          IF s[i] \in S THEN Append(f[i - 1], s[i]) ELSE f[i - 1]]
           kept == CHOOSE f : f = Body(f)
           Part(m, f) == /\ f \in [0 .. m -> Seq(T)] /\ f[0] = <<>>
                         /\ \A i \in 1 .. m : f[i] = Step(i, f[i - 1])
           Reached == {m \in 0 .. n : \E f : Part(m, f)}
<1>1. n \in Nat /\ \A i \in 1 .. n : s[i] \in T
  BY LenProperties
<1>2. Only(s, S) = kept[n]
  BY DEF Only
<1> HIDE DEF n
<1>3. 0 \in Reached
  <2>1. Part(0, [i \in 0 .. 0 |-> <<>>])
    OBVIOUS
  <2> HIDE DEF Part
  <2> QED BY <2>1, <1>1
<1>4. ASSUME NEW m \in 1 .. n, m - 1 \in Reached PROVE m \in Reached
  <2>1. PICK f : Part(m - 1, f)
    BY <1>4
  <2> DEFINE g == [i \in 0 .. m |-> IF i = m THEN Step(m, f[m - 1]) ELSE f[i]]
  <2>2. Step(m, f[m - 1]) \in Seq(T)
    <3>1. f[m - 1] \in Seq(T) /\ s[m] \in T
      BY <2>1, <1>1
    <3> QED BY <3>1, AppendProperties
  <2> HIDE DEF Step
  <2>3. Part(m, g)
    <3>1. g \in [0 .. m -> Seq(T)] /\ g[0] = <<>>
      BY <2>1, <2>2, <1>1
    <3>2. ASSUME NEW i \in 1 .. m PROVE g[i] = Step(i, g[i - 1])
      <4>1. g[i - 1] = f[i - 1]
        BY <1>1
      <4> QED BY <4>1, <2>1, <1>1
    <3> QED BY <3>1, <3>2
  <2> HIDE DEF Part, g
  <2> QED BY <2>3, <1>1
<1>5. PICK f : Part(n, f)
  <2> HIDE DEF Reached
  <2>1. 0 .. n \subseteq Reached
    BY <1>1, <1>3, <1>4, UpTo
  <2>2. n \in Reached
    BY <2>1, <1>1
  <2> QED BY <2>2 DEF Reached
<1>6. f = Body(f)
  <2>1. f = [i \in 0 .. n |-> f[i]] /\ \A i \in 0 .. n : i # 0 => i \in 1 .. n
    BY <1>5, <1>1
  <2>2. \A i \in 0 .. n : f[i] = IF i = 0 THEN <<>> ELSE
                          IF s[i] \in S THEN Append(f[i - 1], s[i]) ELSE f[i - 1]
    BY <1>5, <2>1
  <2> QED BY <2>1, <2>2
<1>7. kept = Body(kept)
  BY <1>6
<1> HIDE DEF kept
<1>8. kept[0] = <<>> /\ \A i \in 1 .. n : kept[i] = Step(i, kept[i - 1])
  <2>1. \A i \in 0 .. n : kept[i] = IF i = 0 THEN <<>> ELSE
          IF s[i] \in S THEN Append(kept[i - 1], s[i]) ELSE kept[i - 1]
    BY <1>7
  <2>2. 0 \in 0 .. n /\ \A i \in 1 .. n : i \in 0 .. n /\ i # 0
    BY <1>1
  <2> QED BY <2>1, <2>2
<1> QED BY <1>2, <1>8 DEF n

\* What Only leaves of a list: those members of it that are in S, and a front that is
\* kept stays the front.
LEMMA OnlyFacts ==
  ASSUME NEW T, NEW s \in Seq(T), NEW S
  PROVE  /\ Only(s, S) \in Seq(T)
         /\ Members(Only(s, S)) = Members(s) \cap S
         /\ s # <<>> /\ s[1] \in S => Only(s, S) # <<>> /\ Only(s, S)[1] = s[1]
<1> DEFINE n == Len(s)
<1>1. n \in Nat /\ (\A i \in 1 .. n : s[i] \in T) /\ (s # <<>> => n # 0)
  BY LenProperties, EmptySeq
<1>2. PICK kept : /\ Only(s, S) = kept[n] /\ kept[0] = <<>>
                  /\ \A i \in 1 .. n :
                       kept[i] = IF s[i] \in S THEN Append(kept[i - 1], s[i]) ELSE kept[i - 1]
  BY OnlyUnfolds
<1> HIDE DEF n
<1> DEFINE Fits(i) == /\ kept[i] \in Seq(T)
                      /\ Members(kept[i]) = {s[j] : j \in 1 .. i} \cap S
                      /\ i # 0 /\ s[1] \in S => Len(kept[i]) # 0 /\ kept[i][1] = s[1]
           Fitting == {i \in 0 .. n : Fits(i)}
<1>3. 0 \in Fitting
  <2>1. kept[0] \in Seq(T) /\ Len(kept[0]) = 0
    BY <1>2, EmptySeq
  <2>2. Members(kept[0]) = {} /\ {s[j] : j \in 1 .. 0} = {}
    BY <2>1 DEF Members
  <2> QED BY <2>1, <2>2, <1>1
<1>4. ASSUME NEW i \in 1 .. n, i - 1 \in Fitting PROVE i \in Fitting
  <2> DEFINE t == kept[i - 1]
  <2>1. Fits(i - 1) /\ s[i] \in T
    BY <1>4, <1>1
  <2>2. /\ t \in Seq(T) /\ Members(t) = {s[j] : j \in 1 .. i - 1} \cap S
        /\ i - 1 # 0 /\ s[1] \in S => Len(t) # 0 /\ t[1] = s[1]
    BY <2>1
  <2>3. Len(t) \in Nat
    BY <2>2, LenProperties
  <2>4. {s[j] : j \in 1 .. i} = {s[j] : j \in 1 .. i - 1} \cup {s[i]}
    BY <1>1
  <2>5. i # 0 /\ (i - 1 = 0 => s[i] = s[1])
    BY <1>1
  <2> HIDE DEF t
  <2>6. CASE s[i] \notin S
    <3>1. kept[i] = t
      BY <2>6, <1>2 DEF t
    <3>2. Members(kept[i]) = {s[j] : j \in 1 .. i} \cap S
      BY <3>1, <2>2, <2>4, <2>6
    <3>3. s[1] \in S => Len(kept[i]) # 0 /\ kept[i][1] = s[1]
      BY <3>1, <2>2, <2>5, <2>6
    <3>4. Fits(i)
      BY <3>1, <3>2, <3>3, <2>2
    <3> HIDE DEF Fits
    <3> QED BY <3>4, <1>1
  <2>7. CASE s[i] \in S
    <3>1. kept[i] = Append(t, s[i])
      BY <2>7, <1>2 DEF t
    <3>2. /\ kept[i] \in Seq(T) /\ Len(kept[i]) = Len(t) + 1
          /\ \A j \in 1 .. Len(t) : kept[i][j] = t[j]
          /\ kept[i][Len(t) + 1] = s[i]
      BY <3>1, <2>1, <2>2, AppendProperties
    <3>3. Members(kept[i]) = Members(t) \cup {s[i]}
      BY <3>2, <2>3, SMTT(30), ZenonT(40) DEF Members
    <3>4. Members(kept[i]) = {s[j] : j \in 1 .. i} \cap S
      BY <3>3, <2>2, <2>4, <2>7
    <3>5. s[1] \in S => Len(kept[i]) # 0 /\ kept[i][1] = s[1]
      <4>1. CASE Len(t) = 0
        BY <4>1, <3>2, <2>2, <2>5
      <4>2. CASE Len(t) # 0
        <5>1. 1 \in 1 .. Len(t) /\ Len(t) + 1 # 0
          BY <4>2, <2>3
        <5>2. i - 1 # 0
          <6>1. i - 1 = 0 => {s[j] : j \in 1 .. i - 1} = {}
            OBVIOUS
          <6>2. t[1] \in Members(t)
            BY <5>1 DEF Members
          <6> QED BY <6>1, <6>2, <2>2
        <5> QED BY <5>1, <5>2, <3>2, <2>2
      <4> QED BY <4>1, <4>2
    <3>6. Fits(i)
      BY <3>2, <3>4, <3>5
    <3> HIDE DEF Fits
    <3> QED BY <3>6, <1>1
  <2> QED BY <2>6, <2>7
<1>5. Fits(n)
  <2> HIDE DEF Fitting
  <2>1. 0 .. n \subseteq Fitting
    BY <1>1, <1>3, <1>4, UpTo
  <2>2. n \in Fitting
    BY <2>1, <1>1
  <2> QED BY <2>2 DEF Fitting
<1>6. kept[n] # <<>> <=> Len(kept[n]) # 0
  BY <1>5, EmptySeq
<1>7. Members(s) = {s[j] : j \in 1 .. n}
  BY DEF Members, n
<1>8. s # <<>> /\ s[1] \in S => kept[n] # <<>> /\ kept[n][1] = s[1]
  BY <1>1, <1>5, <1>6
<1>9. kept[n] \in Seq(T) /\ Members(kept[n]) = Members(s) \cap S
  BY <1>5, <1>7
<1> QED BY <1>2, <1>8, <1>9

\* Lists that grow at their end reach every list.
LEMMA ListInduction ==
  ASSUME NEW T, NEW P, <<>> \in P,
         \A s \in Seq(T), e \in T : s \in P => Append(s, e) \in P
  PROVE  Seq(T) \subseteq P
<1>1. SUFFICES ASSUME NEW s \in Seq(T) PROVE s \in P
  OBVIOUS
<1> DEFINE n == Len(s)
           front(i) == SubSeq(s, 1, i)
           Good == {i \in 0 .. n : front(i) \in P}
<1>2. n \in Nat /\ \A i \in 1 .. n : s[i] \in T
  BY LenProperties
<1>3. 0 \in Good
  <2>1. front(0) = <<>>
    BY SubSeqEmpty
  <2>2. front(0) \in P
    BY <2>1
  <2> HIDE DEF front, n
  <2> QED BY <2>2, <1>2
<1>4. ASSUME NEW i \in 1 .. n, i - 1 \in Good PROVE i \in Good
  <2>1. front(i - 1) \in Seq(T) /\ front(i - 1) \in P
    BY <1>4
  <2>2. front(i) = Append(front(i - 1), s[i])
    BY <1>2
  <2>3. front(i) \in P
    BY <2>1, <2>2, <1>2
  <2> HIDE DEF front, n
  <2> QED BY <2>3, <1>2
<1>5. front(n) \in P
  <2> HIDE DEF Good, front, n
  <2>1. 0 .. n \subseteq Good
    BY <1>2, <1>3, <1>4, UpTo
  <2>2. n \in Good
    BY <2>1, <1>2
  <2> QED BY <2>2 DEF Good
<1>6. front(n) = s
  BY <1>2
<1> QED BY <1>5, <1>6

\* The last member of a list is kept or not, whatever becomes of the others.
LEMMA OnlyAppend ==
  ASSUME NEW T, NEW s \in Seq(T), NEW e \in T, NEW S
  PROVE  Only(Append(s, e), S) = IF e \in S THEN Append(Only(s, S), e) ELSE Only(s, S)
<1> DEFINE t == Append(s, e)
           n == Len(s)
<1>1. n \in Nat /\ t \in Seq(T) /\ Len(t) = n + 1 /\ t[n + 1] = e /\ \A i \in 1 .. n : t[i] = s[i]
  BY LenProperties, AppendProperties
<1> HIDE DEF t
<1>2. PICK f : /\ Only(s, S) = f[n] /\ f[0] = <<>>
               /\ \A i \in 1 .. n : f[i] = IF s[i] \in S THEN Append(f[i - 1], s[i]) ELSE f[i - 1]
  BY OnlyUnfolds
<1>3. PICK g : /\ Only(t, S) = g[Len(t)] /\ g[0] = <<>>
               /\ \A i \in 1 .. Len(t) :
                    g[i] = IF t[i] \in S THEN Append(g[i - 1], t[i]) ELSE g[i - 1]
  BY <1>1, OnlyUnfolds
<1> HIDE DEF n
<1> DEFINE Same == {i \in 0 .. n : g[i] = f[i]}
<1>4. 0 \in Same
  BY <1>1, <1>2, <1>3
<1>5. ASSUME NEW i \in 1 .. n, i - 1 \in Same PROVE i \in Same
  <2>1. i \in 1 .. Len(t) /\ t[i] = s[i] /\ g[i - 1] = f[i - 1]
    BY <1>1, <1>5
  <2>2. g[i] = f[i]
    BY <2>1, <1>2, <1>3
  <2> QED BY <2>2, <1>1
<1>6. g[n] = f[n]
  <2> HIDE DEF Same
  <2>1. 0 .. n \subseteq Same
    BY <1>1, <1>4, <1>5, UpTo
  <2>2. n \in Same
    BY <2>1, <1>1
  <2> QED BY <2>2 DEF Same
<1>7. n + 1 \in 1 .. Len(t) /\ (n + 1) - 1 = n
  BY <1>1
<1>8. g[Len(t)] = IF e \in S THEN Append(g[n], e) ELSE g[n]
  BY <1>1, <1>3, <1>7
<1> QED BY <1>2, <1>3, <1>6, <1>8 DEF t

LEMMA OnlyEmpty == \A S : Only(<<>>, S) = <<>>
<1> SUFFICES ASSUME NEW S PROVE Only(<<>>, S) = <<>>
  OBVIOUS
<1> DEFINE none == <<>>
<1>1. none \in Seq({})
  BY EmptySeq
<1> HIDE DEF none
<1>2. Only(none, S) \in Seq({})
  BY <1>1, OnlyFacts
<1>3. ASSUME NEW s \in Seq({}) PROVE s = <<>>
  BY LenProperties, EmptySeq
<1> QED BY <1>2, <1>3 DEF none

\* What is kept, is kept by any set with the same members of the list.
LEMMA OnlySame ==
  ASSUME NEW T, NEW s \in Seq(T), NEW S, NEW R, Members(s) \cap S = Members(s) \cap R
  PROVE  Only(s, S) = Only(s, R)
<1> DEFINE P == {t \in Seq(T) : Members(t) \cap S = Members(t) \cap R => Only(t, S) = Only(t, R)}
<1>1. <<>> \in P
  BY OnlyEmpty
<1>2. ASSUME NEW t \in Seq(T), NEW e \in T, t \in P PROVE Append(t, e) \in P
  <2> DEFINE u == Append(t, e)
  <2>1. u \in Seq(T) /\ Members(u) = Members(t) \cup {e}
    BY AppendProperties, LenProperties DEF Members
  <2>2. /\ Only(u, S) = IF e \in S THEN Append(Only(t, S), e) ELSE Only(t, S)
        /\ Only(u, R) = IF e \in R THEN Append(Only(t, R), e) ELSE Only(t, R)
    BY OnlyAppend
  <2> HIDE DEF u
  <2>3. ASSUME Members(u) \cap S = Members(u) \cap R PROVE Only(u, S) = Only(u, R)
    <3>1. Members(t) \cap S = Members(t) \cap R /\ (e \in S <=> e \in R)
      BY <2>1, <2>3
    <3>2. Only(t, S) = Only(t, R)
      BY <3>1, <1>2
    <3> QED BY <2>2, <3>1, <3>2
  <2> QED BY <2>1, <2>3 DEF u
<1>3. Seq(T) \subseteq P
  <2> HIDE DEF P
  <2> QED BY <1>1, <1>2, ListInduction
<1> QED BY <1>3

\* Taking members out takes their number out, and keeps the others apart.
LEMMA OnlyShortens ==
  ASSUME NEW T, NEW s \in Seq(T), NEW S
  PROVE  /\ Len(Only(s, S)) <= Len(s)
         /\ Len(Only(s, S)) = Len(s) => Only(s, S) = s
         /\ Members(s) \subseteq S => Only(s, S) = s
<1> DEFINE Fits(t) == /\ Only(t, S) \in Seq(T) /\ Len(Only(t, S)) <= Len(t)
                      /\ Len(Only(t, S)) = Len(t) => Only(t, S) = t
                      /\ Members(t) \subseteq S => Only(t, S) = t
           P == {t \in Seq(T) : Fits(t)}
<1>1. <<>> \in P
  <2>1. Only(<<>>, S) = <<>>
    BY OnlyEmpty
  <2>2. <<>> \in Seq(T) /\ Len(<<>>) <= Len(<<>>)
    BY EmptySeq
  <2>3. Fits(<<>>)
    BY <2>1, <2>2
  <2> HIDE DEF Fits
  <2> QED BY <2>2, <2>3
<1>2. ASSUME NEW t \in Seq(T), NEW e \in T, t \in P PROVE Append(t, e) \in P
  <2> DEFINE u == Append(t, e)
             k == Only(t, S)
  <2>1. u \in Seq(T) /\ Members(u) = Members(t) \cup {e} /\ Len(u) = Len(t) + 1
    BY AppendProperties, LenProperties DEF Members
  <2>2. Only(u, S) = IF e \in S THEN Append(k, e) ELSE k
    BY OnlyAppend
  <2>3. k \in Seq(T) /\ Fits(t) /\ Len(k) \in Nat /\ Len(t) \in Nat
    BY <1>2, LenProperties
  <2>4. Append(k, e) \in Seq(T) /\ Len(Append(k, e)) = Len(k) + 1
    BY <2>3, AppendProperties
  <2>5. Fits(t) => Len(k) <= Len(t) /\ (Len(k) = Len(t) => k = t) /\ (Members(t) \subseteq S => k = t)
    OBVIOUS
  <2>6. CASE e \in S
    <3> DEFINE v == Only(u, S)
    <3>1. v = Append(k, e)
      BY <2>2, <2>6
    <3>2. Len(v) = Len(u) => k = t
      BY <3>1, <2>1, <2>3, <2>4, <2>5
    <3>3. Members(u) \subseteq S => k = t
      BY <2>1, <2>3, <2>5
    <3>4. v \in Seq(T) /\ Len(v) <= Len(u) /\ (k = t => v = u)
      BY <3>1, <2>1, <2>3, <2>4, <2>5
    <3> HIDE DEF u, k
    <3>5. Fits(u)
      BY <3>2, <3>3, <3>4
    <3> HIDE DEF Fits
    <3> QED BY <3>5, <2>1 DEF u
  <2>7. CASE e \notin S
    <3> DEFINE v == Only(u, S)
    <3>1. v = k
      BY <2>2, <2>7
    <3>2. Len(v) # Len(u) /\ Len(v) <= Len(u)
      BY <3>1, <2>1, <2>3, <2>5
    <3>3. ~(Members(u) \subseteq S)
      BY <2>1, <2>7
    <3> HIDE DEF u, k
    <3>4. Fits(u)
      BY <3>1, <3>2, <3>3, <2>3
    <3> HIDE DEF Fits
    <3> QED BY <3>4, <2>1 DEF u
  <2> QED BY <2>6, <2>7
<1>3. Seq(T) \subseteq P
  <2> HIDE DEF P
  <2> QED BY <1>1, <1>2, ListInduction
<1> QED BY <1>3

\* What is kept of what is kept.
LEMMA OnlyOnly ==
  ASSUME NEW T, NEW s \in Seq(T), NEW S, NEW R
  PROVE  Only(Only(s, S), R) = Only(s, S \cap R)
<1> DEFINE P == {t \in Seq(T) : Only(Only(t, S), R) = Only(t, S \cap R)}
<1>1. <<>> \in P
  <2>1. Only(<<>>, S) = <<>> /\ Only(<<>>, R) = <<>> /\ Only(<<>>, S \cap R) = <<>>
    BY OnlyEmpty
  <2> QED BY <2>1
<1>2. ASSUME NEW t \in Seq(T), NEW e \in T, t \in P PROVE Append(t, e) \in P
  <2> DEFINE u == Append(t, e)
             k == Only(t, S)
             b == S \cap R
  <2>1. u \in Seq(T) /\ k \in Seq(T) /\ Only(k, R) = Only(t, b)
    BY <1>2, AppendProperties, OnlyFacts
  <2>2. Only(u, S) = IF e \in S THEN Append(k, e) ELSE k
    BY OnlyAppend
  <2> HIDE DEF k
  <2>3. Only(Append(k, e), R) = IF e \in R THEN Append(Only(k, R), e) ELSE Only(k, R)
    BY <2>1, OnlyAppend
  <2> HIDE DEF b
  <2>4. Only(u, b) = IF e \in b THEN Append(Only(t, b), e) ELSE Only(t, b)
    BY OnlyAppend
  <2> HIDE DEF u
  <2>5. e \in b <=> e \in S /\ e \in R
    BY DEF b
  <2>6. Only(Only(u, S), R) = Only(u, b)
    BY <2>1, <2>2, <2>3, <2>4, <2>5
  <2> QED BY <2>1, <2>6 DEF u, b
<1>3. Seq(T) \subseteq P
  <2> HIDE DEF P
  <2> QED BY <1>1, <1>2, ListInduction
<1> QED BY <1>3

LEMMA AppendConcat ==
  ASSUME NEW T, NEW x \in Seq(T), NEW y \in Seq(T), NEW e \in T
  PROVE  Append(x \o y, e) = x \o Append(y, e)
OBVIOUS

\* The members of two lists are kept one list after the other.
LEMMA OnlyConcat ==
  ASSUME NEW T, NEW s \in Seq(T), NEW r \in Seq(T), NEW S
  PROVE  Only(s \o r, S) = Only(s, S) \o Only(r, S)
<1> DEFINE k == Only(s, S)
           P == {t \in Seq(T) : Only(s \o t, S) = k \o Only(t, S)}
<1>1. k \in Seq(T)
  BY OnlyFacts
<1> HIDE DEF k
<1>2. <<>> \in P
  <2>1. Only(<<>>, S) = <<>> /\ s \o <<>> = s /\ k \o <<>> = k
    BY <1>1, OnlyEmpty
  <2>2. Only(s \o <<>>, S) = k \o Only(<<>>, S)
    BY <2>1 DEF k
  <2> QED BY <2>2
<1>3. ASSUME NEW t \in Seq(T), NEW e \in T, t \in P PROVE Append(t, e) \in P
  <2> DEFINE u == Append(t, e)
             a == s \o t
             m == Only(t, S)
  <2>1. u \in Seq(T) /\ a \in Seq(T) /\ m \in Seq(T) /\ Only(a, S) = k \o m
    BY <1>3, AppendProperties, OnlyFacts
  <2>2. Only(u, S) = IF e \in S THEN Append(m, e) ELSE m
    BY OnlyAppend
  <2>3. s \o u = Append(a, e)
    BY AppendConcat
  <2> HIDE DEF a
  <2>4. Only(Append(a, e), S) = IF e \in S THEN Append(Only(a, S), e) ELSE Only(a, S)
    BY <2>1, OnlyAppend, ZenonT(40)
  <2> HIDE DEF m
  <2>5. Append(k \o m, e) = k \o Append(m, e)
    <3> DEFINE one == <<e>>
    <3>1. k \in Seq(T) /\ m \in Seq(T) /\ k \o m \in Seq(T) /\ one \in Seq(T)
      BY <1>1, <2>1, ConcatProperties
    <3>2. Append(k \o m, e) = (k \o m) \o one /\ Append(m, e) = m \o one
      BY <3>1, AppendIsConcat
    <3> HIDE DEF one
    <3>3. (k \o m) \o one = k \o (m \o one)
      BY <3>1, ConcatAssociative, SMTT(30), ZenonT(40)
    <3> QED BY <3>2, <3>3
  <2> HIDE DEF u
  <2>6. Only(s \o u, S) = k \o Only(u, S)
    BY <2>1, <2>2, <2>3, <2>4, <2>5
  <2> QED BY <2>1, <2>6 DEF u
<1>4. Seq(T) \subseteq P
  <2> HIDE DEF P
  <2> QED BY <1>2, <1>3, ListInduction
<1> QED BY <1>4 DEF k

=============================================================================
