------------------------- MODULE TaskManagerProofs --------------------------
(***************************************************************************)
(* Proofs about TaskManager: which task is active, who works for it, that  *)
(* memory and files agree, that no task is lost, and whose an id is, for   *)
(* any tasks, peers and crashes.                                           *)
(***************************************************************************)
EXTENDS TaskManager, ListProofs

-----------------------------------------------------------------------------
(* Lists without repetitions.                                               *)

LEMMA SetOfList == \A T : \A s \in Seq(T) : ToSet(s) = Members(s)
BY LenProperties DEF ToSet, Members

LEMMA Apart ==
  ASSUME NEW T, NEW s \in Seq(T)
  PROVE  IsInjective(s) <=> \A i, j \in 1 .. Len(s) : s[i] = s[j] => i = j
BY LenProperties DEF IsInjective

LEMMA ApartAppend ==
  ASSUME NEW T, NEW s \in Seq(T), NEW e \in T
  PROVE  /\ Append(s, e) \in Seq(T) /\ ToSet(Append(s, e)) = ToSet(s) \cup {e}
         /\ IsInjective(Append(s, e)) <=> IsInjective(s) /\ e \notin ToSet(s)
<1> DEFINE u == Append(s, e)
           n == Len(s)
<1>1. /\ u \in Seq(T) /\ n \in Nat /\ Len(u) = n + 1 /\ u[n + 1] = e
      /\ \A i \in 1 .. n : u[i] = s[i]
  BY AppendProperties, LenProperties
<1> HIDE DEF u
<1>2. /\ ToSet(s) = {s[i] : i \in 1 .. n} /\ ToSet(u) = {u[i] : i \in 1 .. Len(u)}
      /\ IsInjective(s) <=> \A i, j \in 1 .. n : s[i] = s[j] => i = j
      /\ IsInjective(u) <=> \A i, j \in 1 .. Len(u) : u[i] = u[j] => i = j
  <2>1. \A t \in Seq(T) : ToSet(t) = {t[i] : i \in 1 .. Len(t)}
    BY SetOfList DEF Members
  <2>2. IsInjective(u) <=> \A i, j \in 1 .. Len(u) : u[i] = u[j] => i = j
    BY <1>1, Apart
  <2>3. IsInjective(s) <=> \A i, j \in 1 .. n : s[i] = s[j] => i = j
    BY Apart
  <2> QED BY <1>1, <2>1, <2>2, <2>3
<1> HIDE DEF n
<1>3. ToSet(u) = ToSet(s) \cup {e}
  BY <1>1, <1>2
<1>4. IsInjective(u) => IsInjective(s) /\ e \notin ToSet(s)
  BY <1>1, <1>2
<1>5. ASSUME IsInjective(s), e \notin ToSet(s) PROVE IsInjective(u)
  <2>1. SUFFICES ASSUME NEW i \in 1 .. Len(u), NEW j \in 1 .. Len(u), u[i] = u[j]
                 PROVE  i = j
    BY <1>2
  <2>2. (i \in 1 .. n \/ i = n + 1) /\ (j \in 1 .. n \/ j = n + 1)
    BY <1>1
  <2> QED BY <1>1, <1>2, <1>5, <2>1, <2>2
<1> QED BY <1>1, <1>3, <1>4, <1>5 DEF u

\* What is kept of a list without repetitions has none.
LEMMA KeptApart ==
  ASSUME NEW T, NEW s \in Seq(T), NEW S
  PROVE  /\ Only(s, S) \in Seq(T) /\ ToSet(Only(s, S)) = ToSet(s) \cap S
         /\ IsInjective(s) => IsInjective(Only(s, S))
<1> DEFINE P == {t \in Seq(T) : IsInjective(t) => IsInjective(Only(t, S))}
<1>1. <<>> \in P
  <2>1. Only(<<>>, S) = <<>>
    BY OnlyEmpty
  <2> QED BY <2>1
<1>2. ASSUME NEW t \in Seq(T), NEW e \in T, t \in P PROVE Append(t, e) \in P
  <2> DEFINE u == Append(t, e)
             k == Only(t, S)
  <2>1. k \in Seq(T) /\ ToSet(k) = ToSet(t) \cap S
    BY OnlyFacts, SetOfList
  <2>2. Only(u, S) = IF e \in S THEN Append(k, e) ELSE k
    BY OnlyAppend
  <2>3. u \in Seq(T) /\ (IsInjective(u) => IsInjective(t) /\ e \notin ToSet(t))
    BY ApartAppend
  <2>4. IsInjective(t) => IsInjective(k)
    BY <1>2
  <2> HIDE DEF k, u
  <2>5. IsInjective(Append(k, e)) <=> IsInjective(k) /\ e \notin ToSet(k)
    BY <2>1, ApartAppend
  <2>6. IsInjective(u) => IsInjective(Only(u, S))
    BY <2>1, <2>2, <2>3, <2>4, <2>5
  <2> QED BY <2>3, <2>6 DEF u
<1>3. Seq(T) \subseteq P
  <2> HIDE DEF P
  <2> QED BY <1>1, <1>2, ListInduction
<1>4. Only(s, S) \in Seq(T) /\ ToSet(Only(s, S)) = ToSet(s) \cap S
  BY OnlyFacts, SetOfList
<1> QED BY <1>3, <1>4

\* What is left of a list, and of its front, when some members go.
LEMMA Left ==
  ASSUME NEW T, NEW s \in Seq(T), NEW S
  PROVE  /\ Without(s, S) \in Seq(T) /\ ToSet(Without(s, S)) = ToSet(s) \ S
         /\ IsInjective(s) => IsInjective(Without(s, S))
         /\ ToSet(s) \cap S = {} => Without(s, S) = s
         /\ Len(Without(s, S)) <= Len(s)
         /\ Len(Without(s, S)) = Len(s) => Without(s, S) = s
         /\ s # <<>> /\ Head(s) \notin S =>
              Without(s, S) # <<>> /\ Head(Without(s, S)) = Head(s)
<1> DEFINE R == Members(s) \ S
           k == Only(s, R)
<1>1. k = Without(s, S) /\ ToSet(s) = Members(s)
  BY SetOfList DEF Without
<1>2. R \subseteq ToSet(s) /\ R = ToSet(s) \ S
  BY <1>1
<1> HIDE DEF R
<1>3. /\ k \in Seq(T) /\ ToSet(k) = ToSet(s) \cap R /\ (IsInjective(s) => IsInjective(k))
      /\ s # <<>> /\ s[1] \in R => k # <<>> /\ k[1] = s[1]
  <2>1. k \in Seq(T) /\ ToSet(k) = ToSet(s) \cap R /\ (IsInjective(s) => IsInjective(k))
    BY KeptApart
  <2>2. s # <<>> /\ s[1] \in R => k # <<>> /\ k[1] = s[1]
    BY OnlyFacts
  <2> QED BY <2>1, <2>2
<1>4. Len(k) <= Len(s) /\ (Len(k) = Len(s) => k = s) /\ (Members(s) \subseteq R => k = s)
  BY OnlyShortens
<1>5. ASSUME s # <<>>, Head(s) \notin S PROVE k # <<>> /\ Head(k) = Head(s)
  <2>1. Head(s) = s[1] /\ s[1] \in ToSet(s)
    BY <1>5, LenProperties, EmptySeq DEF ToSet
  <2>2. k # <<>> /\ k[1] = s[1]
    BY <1>2, <1>3, <1>5, <2>1
  <2> HIDE DEF k
  <2> QED BY <1>3, <2>1, <2>2
<1> HIDE DEF k
<1>6. ToSet(s) \cap S = {} => Members(s) \subseteq R
  BY <1>1, <1>2
<1> QED BY <1>1, <1>2, <1>3, <1>4, <1>5, <1>6

LEMMA OneAfterTheOther ==
  ASSUME NEW T, NEW x \in Seq(T), NEW y \in Seq(T)
  PROVE  /\ x \o y \in Seq(T) /\ ToSet(x \o y) = ToSet(x) \cup ToSet(y)
         /\ IsInjective(x \o y) <=>
              IsInjective(x) /\ IsInjective(y) /\ ToSet(x) \cap ToSet(y) = {}
         /\ x # <<>> => x \o y # <<>> /\ Head(x \o y) = Head(x)
<1> DEFINE r == x \o y
           m == Len(x)
           n == Len(y)
<1>1. /\ r \in Seq(T) /\ m \in Nat /\ n \in Nat /\ Len(r) = m + n
      /\ (\A i \in 1 .. m + n : r[i] = IF i <= m THEN x[i] ELSE y[i - m])
  BY ConcatProperties, LenProperties
<1> HIDE DEF r
<1>2. /\ ToSet(x) = {x[i] : i \in 1 .. m} /\ ToSet(y) = {y[i] : i \in 1 .. n}
      /\ ToSet(r) = {r[i] : i \in 1 .. m + n}
  <2>1. \A t \in Seq(T) : ToSet(t) = {t[i] : i \in 1 .. Len(t)}
    BY SetOfList DEF Members
  <2> QED BY <1>1, <2>1
<1>3. /\ IsInjective(x) <=> \A i, j \in 1 .. m : x[i] = x[j] => i = j
      /\ IsInjective(y) <=> \A i, j \in 1 .. n : y[i] = y[j] => i = j
      /\ IsInjective(r) <=> \A i, j \in 1 .. m + n : r[i] = r[j] => i = j
  <2>1. IsInjective(x) <=> \A i, j \in 1 .. m : x[i] = x[j] => i = j
    BY Apart
  <2>2. IsInjective(y) <=> \A i, j \in 1 .. n : y[i] = y[j] => i = j
    BY Apart
  <2>3. IsInjective(r) <=> \A i, j \in 1 .. m + n : r[i] = r[j] => i = j
    BY <1>1, Apart
  <2> QED BY <2>1, <2>2, <2>3
<1>4. x # <<>> => m # 0 /\ Head(x) = x[1]
  BY <1>1, EmptySeq
<1>5. r # <<>> /\ r \in Seq(T) => Head(r) = r[1]
  OBVIOUS
<1>6. r # <<>> <=> m + n # 0
  BY <1>1, EmptySeq
<1> HIDE DEF m, n
<1>7. (\A i \in 1 .. m : i \in 1 .. m + n /\ r[i] = x[i])
      /\ (\A j \in 1 .. n : m + j \in 1 .. m + n /\ r[m + j] = y[j])
      /\ (\A i \in 1 .. m + n : i \in 1 .. m \/ \E j \in 1 .. n : i = m + j)
  <2>1. ASSUME NEW i \in 1 .. m PROVE i \in 1 .. m + n /\ r[i] = x[i]
    BY <1>1
  <2>2. ASSUME NEW j \in 1 .. n PROVE m + j \in 1 .. m + n /\ r[m + j] = y[j]
    <3>1. m + j \in 1 .. m + n /\ ~(m + j <= m) /\ (m + j) - m = j
      BY <1>1
    <3> QED BY <1>1, <3>1
  <2>3. ASSUME NEW i \in 1 .. m + n, i \notin 1 .. m PROVE \E j \in 1 .. n : i = m + j
    <3>1. i - m \in 1 .. n /\ i = m + (i - m)
      BY <1>1, <2>3
    <3> QED BY <3>1
  <2> QED BY <2>1, <2>2, <2>3
<1>8. ToSet(r) = ToSet(x) \cup ToSet(y)
  BY <1>2, <1>7
<1>9. IsInjective(r) => IsInjective(x) /\ IsInjective(y) /\ ToSet(x) \cap ToSet(y) = {}
  <2>1. SUFFICES ASSUME IsInjective(r)
                 PROVE  IsInjective(x) /\ IsInjective(y) /\ ToSet(x) \cap ToSet(y) = {}
    OBVIOUS
  <2>2. \A i, j \in 1 .. m + n : r[i] = r[j] => i = j
    BY <2>1, <1>3
  <2>3. IsInjective(x)
    BY <2>2, <1>3, <1>7
  <2>4. ASSUME NEW i \in 1 .. n, NEW j \in 1 .. n, y[i] = y[j] PROVE i = j
    <3>1. m + i = m + j
      BY <2>2, <2>4, <1>7
    <3> QED BY <3>1, <1>1
  <2>5. ASSUME NEW i \in 1 .. m, NEW j \in 1 .. n PROVE x[i] # y[j]
    <3>1. i # m + j
      BY <1>1
    <3> QED BY <3>1, <2>2, <1>7
  <2> QED BY <2>3, <2>4, <2>5, <1>2, <1>3
<1>10. IsInjective(x) /\ IsInjective(y) /\ ToSet(x) \cap ToSet(y) = {} => IsInjective(r)
  <2>1. SUFFICES ASSUME IsInjective(x), IsInjective(y), ToSet(x) \cap ToSet(y) = {},
                        NEW i \in 1 .. m + n, NEW j \in 1 .. m + n, r[i] = r[j]
                 PROVE  i = j
    BY <1>3
  <2>2. \A k \in 1 .. m, l \in 1 .. n : x[k] # y[l]
    BY <2>1, <1>2
  <2>3. CASE i \in 1 .. m
    BY <2>1, <2>2, <2>3, <1>3, <1>7
  <2>4. CASE i \notin 1 .. m
    <3>1. PICK k \in 1 .. n : i = m + k
      BY <2>4, <1>7
    <3>2. PICK l \in 1 .. n : j = m + l
      BY <2>1, <2>2, <3>1, <1>7
    <3>3. y[k] = y[l]
      BY <2>1, <3>1, <3>2, <1>7
    <3> QED BY <2>1, <3>1, <3>2, <3>3, <1>3
  <2> QED BY <2>3, <2>4
<1>11. x # <<>> => r # <<>> /\ Head(r) = Head(x)
  <2>1. x # <<>> => 1 \in 1 .. m /\ m + n # 0
    BY <1>1, <1>4
  <2> QED BY <2>1, <1>1, <1>4, <1>5, <1>6, <1>7
<1> QED BY <1>1, <1>8, <1>9, <1>10, <1>11 DEF r

\* A new member between two parts of a list.
Joined(a, b) == a \o b
Spliced(a, e, b) == Append(a, e) \o b
All(s, t, e) == ToSet(s) = ToSet(t) \cup {e}
SameFront(s, t) == s # <<>> /\ Head(s) = Head(t)
Dropped(s, e) == Without(s, {e})

LEMMA Between ==
  ASSUME NEW T, NEW a \in Seq(T), NEW b \in Seq(T), NEW e \in T,
         NEW r, r = Spliced(a, e, b), NEW q, q = Joined(a, b)
  PROVE  /\ r \in Seq(T) /\ q \in Seq(T) /\ All(r, q, e)
         /\ IsInjective(r) <=> IsInjective(q) /\ e \notin ToSet(q)
         /\ a # <<>> => SameFront(r, a) /\ SameFront(q, a)
         /\ e \notin ToSet(q) => Dropped(r, e) = q
<1> DEFINE c == Append(a, e)
           R == Members(r) \ {e}
<1>0. r = c \o b /\ q = a \o b
  BY DEF Spliced, Joined
<1>1. /\ c \in Seq(T) /\ ToSet(c) = ToSet(a) \cup {e}
      /\ IsInjective(c) <=> IsInjective(a) /\ e \notin ToSet(a)
  BY ApartAppend
<1>2. a # <<>> => c # <<>> /\ Head(c) = Head(a)
  <2>1. c \in Seq(T) /\ Len(c) = Len(a) + 1 /\ (1 <= Len(a) => c[1] = a[1]) /\ Len(a) \in Nat
    BY AppendProperties, LenProperties
  <2>2. a # <<>> => 1 <= Len(a) /\ Head(a) = a[1]
    BY <2>1, EmptySeq
  <2> HIDE DEF c
  <2>3. Len(c) # 0 => c # <<>> /\ Head(c) = c[1]
    BY <2>1, EmptySeq
  <2> QED BY <2>1, <2>2, <2>3
<1>3. Only(c, R) = IF e \in R THEN Append(Only(a, R), e) ELSE Only(a, R)
  <2> HIDE DEF R
  <2> QED BY OnlyAppend
<1> HIDE DEF c
<1>4. /\ r \in Seq(T) /\ ToSet(r) = ToSet(c) \cup ToSet(b)
      /\ IsInjective(r) <=> IsInjective(c) /\ IsInjective(b) /\ ToSet(c) \cap ToSet(b) = {}
      /\ c # <<>> => r # <<>> /\ Head(r) = Head(c)
  BY <1>0, <1>1, OneAfterTheOther
<1>5. /\ q \in Seq(T) /\ ToSet(q) = ToSet(a) \cup ToSet(b)
      /\ IsInjective(q) <=> IsInjective(a) /\ IsInjective(b) /\ ToSet(a) \cap ToSet(b) = {}
      /\ a # <<>> => q # <<>> /\ Head(q) = Head(a)
  BY <1>0, OneAfterTheOther
<1>6. ASSUME e \notin ToSet(q) PROVE Without(r, {e}) = q
  <2>1. Without(r, {e}) = Only(r, R)
    BY DEF Without
  <2>2. Members(r) = ToSet(r) /\ Members(a) = ToSet(a) /\ Members(b) = ToSet(b)
    BY <1>4, SetOfList
  <2>3. R = ToSet(q) /\ e \notin R
    BY <1>1, <1>4, <1>5, <1>6, <2>2
  <2>4. Members(a) \subseteq R /\ Members(b) \subseteq R
    BY <2>2, <2>3, <1>5
  <2> HIDE DEF R
  <2>5. Only(a, R) = a /\ Only(b, R) = b
    BY <2>4, OnlyShortens
  <2>6. Only(c, R) = a
    BY <1>3, <2>3, <2>5
  <2>7. Only(c \o b, R) = Only(c, R) \o Only(b, R)
    BY <1>1, OnlyConcat
  <2> QED BY <2>1, <2>5, <2>6, <2>7, <1>0
<1>7. ToSet(r) = ToSet(q) \cup {e}
  BY <1>1, <1>4, <1>5
<1>8. IsInjective(r) <=> IsInjective(q) /\ e \notin ToSet(q)
  BY <1>1, <1>4, <1>5
<1> QED BY <1>2, <1>4, <1>5, <1>6, <1>7, <1>8 DEF c, All, SameFront, Dropped

\* A member that takes another place.
LEMMA Reordered ==
  ASSUME NEW T, NEW s \in Seq(T), NEW i \in 1 .. Len(s), NEW j \in 1 .. Len(s)
  PROVE  LET r == InsertAt(RemoveAt(s, i), j, s[i])
         IN /\ r \in Seq(T) /\ ToSet(r) = ToSet(s)
            /\ IsInjective(s) => IsInjective(r) /\ Without(r, {s[i]}) = Without(s, {s[i]})
            /\ Len(r) = Len(s)
            /\ i # 1 /\ j # 1 => r # <<>> /\ Head(r) = Head(s)
<1> DEFINE n == Len(s)
           e == s[i]
           a == SubSeq(s, 1, i - 1)
           b == SubSeq(s, i + 1, n)
           q == a \o b
<1>1. n \in Nat /\ e \in T /\ n # 0
  BY LenProperties
<1>2. RemoveAt(s, i) = q
  BY DEF RemoveAt
<1>3. /\ a \in Seq(T) /\ b \in Seq(T) /\ Len(a) = i - 1 /\ Len(b) = n - i
      /\ \A k \in 1 .. i - 1 : a[k] = s[k]
  BY <1>1
<1>4. s = Append(a, e) \o b
  <2>1. Append(a, e) = SubSeq(s, 1, i)
    BY <1>1
  <2> HIDE DEF a, e
  <2>2. SubSeq(s, 1, i) \o b = s
    BY <1>1
  <2> QED BY <2>1, <2>2
<1> HIDE DEF a, b, e
<1>5. q \in Seq(T) /\ Len(q) = n - 1
  <2>1. a \in Seq(T) /\ b \in Seq(T)
    BY <1>3
  <2>2. q \in Seq(T) /\ Len(q) = Len(a) + Len(b)
    BY ONLY <2>1, ConcatProperties
  <2> QED BY <2>2, <1>1, <1>3
<1>6. /\ ToSet(s) = ToSet(q) \cup {e}
      /\ IsInjective(s) <=> IsInjective(q) /\ e \notin ToSet(q)
      /\ a # <<>> => q # <<>> /\ Head(s) = Head(a) /\ Head(q) = Head(a)
      /\ e \notin ToSet(q) => Without(s, {e}) = q
  <2>1. a \in Seq(T) /\ b \in Seq(T) /\ e \in T /\ s = Spliced(a, e, b) /\ q = Joined(a, b)
    BY <1>1, <1>3, <1>4 DEF Spliced, Joined
  <2> HIDE DEF q
  <2>2. All(s, q, e)
    BY ONLY <2>1, Between
  <2>3. IsInjective(s) <=> IsInjective(q) /\ e \notin ToSet(q)
    BY ONLY <2>1, Between
  <2>4. a # <<>> => SameFront(s, a) /\ SameFront(q, a)
    BY ONLY <2>1, Between
  <2>5. e \notin ToSet(q) => Dropped(s, e) = q
    BY ONLY <2>1, Between
  <2> QED BY <2>2, <2>3, <2>4, <2>5 DEF All, SameFront, Dropped
<1> HIDE DEF q
<1> DEFINE c == SubSeq(q, 1, j - 1)
           d == SubSeq(q, j, Len(q))
           r == Append(c, e) \o d
<1>7. c \in Seq(T) /\ d \in Seq(T) /\ Len(c) = j - 1 /\ Len(d) = n - j /\ c \o d = q
  <2>1. n \in Nat /\ j \in 1 .. n
    BY <1>1
  <2> HIDE DEF n
  <2> QED BY <2>1, <1>5
<1>8. InsertAt(q, j, e) = r
  <2>1. c \o <<e>> = Append(c, e)
    BY <1>1, <1>7, AppendIsConcat
  <2> QED BY <2>1 DEF InsertAt
<1> HIDE DEF c, d
<1>9. /\ r \in Seq(T) /\ ToSet(r) = ToSet(q) \cup {e}
      /\ IsInjective(r) <=> IsInjective(q) /\ e \notin ToSet(q)
      /\ c # <<>> => r # <<>> /\ Head(r) = Head(c) /\ Head(q) = Head(c)
      /\ e \notin ToSet(q) => Without(r, {e}) = q
  <2>1. c \in Seq(T) /\ d \in Seq(T) /\ e \in T /\ r = Spliced(c, e, d) /\ q = Joined(c, d)
    BY <1>1, <1>7 DEF Spliced, Joined
  <2> HIDE DEF r
  <2>2. r \in Seq(T) /\ All(r, q, e)
    BY ONLY <2>1, Between
  <2>3. IsInjective(r) <=> IsInjective(q) /\ e \notin ToSet(q)
    BY ONLY <2>1, Between
  <2>4. c # <<>> => SameFront(r, c) /\ SameFront(q, c)
    BY ONLY <2>1, Between
  <2>5. e \notin ToSet(q) => Dropped(r, e) = q
    BY ONLY <2>1, Between
  <2> QED BY <2>2, <2>3, <2>4, <2>5 DEF All, SameFront, Dropped
<1>10. Len(r) = n
  <2> DEFINE f == Append(c, e)
  <2>1. f \in Seq(T) /\ Len(f) = j
    BY <1>1, <1>7, AppendProperties
  <2> HIDE DEF f
  <2>2. d \in Seq(T) /\ Len(d) = n - j
    BY <1>7
  <2>3. Len(f \o d) = Len(f) + Len(d)
    BY ONLY <2>1, <2>2, ConcatProperties
  <2>4. Len(f \o d) = n
    BY <2>1, <2>2, <2>3, <1>1
  <2> QED BY <2>4 DEF f
<1>11. i # 1 => a # <<>>
  BY <1>3, EmptySeq
<1>12. j # 1 => c # <<>>
  BY <1>7, EmptySeq
<1> HIDE DEF r
<1> QED BY <1>2, <1>6, <1>8, <1>9, <1>10, <1>11, <1>12 DEF e, n

-----------------------------------------------------------------------------
(* What the parts of handlers do to the memory.                             *)

\* Who works while the front task may have to be activated yet, and when it is.
AtWork(s) ==
  /\ s.active \subseteq (IF s.pending = <<>> THEN {} ELSE {Head(s.pending)})
  /\ \A p \in Peer : /\ s.peer[p] = "ready" => s.active = {}
                     /\ s.peer[p] = "working" => s.active # {}
FrontIsActive(s) == s.active = IF s.pending = <<>> THEN {} ELSE {Head(s.pending)}

\* A task is in at most one list, and there once.
InOneList(s) ==
  /\ IsInjective(s.aged) /\ IsInjective(s.pending)
  /\ Listed(s) \subseteq Known(s) /\ ToSet(s.pending) \cap s.completed = {}

Good(s) == s \in Server /\ InOneList(s) /\ AtWork(s)

SameLists(s, r) ==
  /\ r.aged = s.aged /\ r.pending = s.pending /\ r.completed = s.completed
  /\ r.taskid_begin = s.taskid_begin /\ r.taskid_end = s.taskid_end

LEMMA DeactivatedFields ==
  ASSUME NEW s \in Server, NEW t
  PROVE  LET r == Deactivated(s, t)
         IN /\ r \in Server /\ SameLists(s, r) /\ r.active = s.active \ {t}
            /\ AtWork(s) => AtWork(r)
<1> DEFINE r == Deactivated(s, t)
<1>1. CASE t \notin s.active
  <2>1. r = s
    BY <1>1 DEF Deactivated
  <2> QED BY <1>1, <2>1 DEF SameLists
<1>2. CASE t \in s.active
  <2>1. /\ r \in Server /\ SameLists(s, r) /\ r.active = s.active \ {t}
        /\ r.peer = [p \in Peer |-> IF s.peer[p] = "working" THEN "ending" ELSE s.peer[p]]
    BY <1>2 DEF Deactivated, SameLists, Server
  <2> HIDE DEF r
  <2>2. ASSUME AtWork(s) PROVE AtWork(r)
    <3>1. r.active = {} /\ r.pending = s.pending
      BY <1>2, <2>1, <2>2 DEF AtWork, SameLists
    <3>2. \A p \in Peer : r.peer[p] # "working"
      BY <2>1
    <3> QED BY <3>1, <3>2 DEF AtWork
  <2> QED BY <2>1, <2>2 DEF r
<1> QED BY <1>1, <1>2

LEMMA ActivatedFields ==
  ASSUME NEW s \in Server
  PROVE  LET r == Activated(s)
         IN /\ r \in Server /\ SameLists(s, r)
            /\ AtWork(s) => AtWork(r) /\ FrontIsActive(r)
            /\ FrontIsActive(s) => r = s
<1> DEFINE r == Activated(s)
<1>1. CASE s.pending = <<>> \/ Head(s.pending) \in s.active
  <2>1. r = s
    BY <1>1 DEF Activated
  <2>2. AtWork(s) => FrontIsActive(s)
    BY <1>1 DEF AtWork, FrontIsActive
  <2> QED BY <2>1, <2>2 DEF SameLists
<1>2. CASE s.pending # <<>> /\ Head(s.pending) \notin s.active
  <2>1. Head(s.pending) \in Task
    BY <1>2, HeadTailProperties DEF Server
  <2>2. /\ r \in Server /\ SameLists(s, r) /\ r.active = s.active \cup {Head(s.pending)}
        /\ r.peer = [p \in Peer |-> IF s.peer[p] = "ready" THEN "working" ELSE s.peer[p]]
    BY <1>2, <2>1 DEF Activated, SameLists, Server
  <2> HIDE DEF r
  <2>3. ASSUME AtWork(s) PROVE AtWork(r) /\ FrontIsActive(r)
    <3>1. s.active = {} /\ r.active = {Head(s.pending)} /\ r.pending = s.pending
      BY <1>2, <2>2, <2>3 DEF AtWork, SameLists
    <3>2. \A p \in Peer : r.peer[p] # "ready"
      BY <2>2
    <3> QED BY <1>2, <3>1, <3>2 DEF AtWork, FrontIsActive
  <2>4. ~FrontIsActive(s)
    BY <1>2 DEF FrontIsActive
  <2> QED BY <2>2, <2>3, <2>4 DEF r
<1> QED BY <1>1, <1>2

LEMMA ReleasedId ==
  ASSUME NEW s \in Server, NEW t
  PROVE  Released(s, t) \in Id
<1> DEFINE above == {u.id : u \in {v \in Known(s) : v.id > t.id}}
<1>1. Known(s) \subseteq Task /\ s.taskid_begin \in Id /\ s.taskid_end \in Id
  BY LenProperties DEF Known, ToSet, Server
<1>2. above \subseteq Id /\ above \subseteq Nat
  BY <1>1 DEF Task, Id
<1> HIDE DEF above
<1>3. above # {} => Min(above) \in above
  <2>1. SUFFICES ASSUME above # {} PROVE Min(above) \in above
    OBVIOUS
  <2>2. \E m \in above : \A n \in above : m <= n
    BY <1>2, <2>1, Least
  <2> QED BY <2>2 DEF Min
<1> QED BY <1>1, <1>2, <1>3 DEF Released, above

LEMMA HeadIsMember ==
  ASSUME NEW T, NEW s \in Seq(T), s # <<>>
  PROVE  Head(s) \in ToSet(s) /\ Head(s) \in T
BY LenProperties, EmptySeq DEF ToSet

LEMMA ForgottenFields ==
  ASSUME NEW s \in Server, NEW t
  PROVE  LET f == Forgotten(s, t)
         IN /\ f \in Server /\ f.aged = Without(s.aged, {t})
            /\ f.pending = Without(s.pending, {t}) /\ f.completed = s.completed \ {t}
            /\ f.taskid_begin = Released(s, t) /\ f.taskid_end = s.taskid_end
            /\ f.active = s.active \ {t} /\ f.peer = Deactivated(s, t).peer
<1> DEFINE r == Deactivated(s, t)
           aged == Without(s.aged, {t})
           pending == Without(s.pending, {t})
           begin == Released(s, t)
           f == [r EXCEPT !.aged = aged, !.pending = pending, !.completed = r.completed \ {t},
                          !.taskid_begin = begin]
<1>1. r \in Server /\ SameLists(s, r) /\ r.active = s.active \ {t}
  BY DeactivatedFields
<1>2. begin \in Id
  BY ReleasedId
<1>3. aged \in Seq(Task) /\ pending \in Seq(Task)
  <2>1. s.aged \in Seq(Task) /\ s.pending \in Seq(Task)
    BY DEF Server
  <2> QED BY <2>1, Left
<1>4. Forgotten(s, t) = f
  BY <1>1 DEF Forgotten, SameLists
<1> HIDE DEF r, aged, pending, begin
<1>5. /\ f \in Server /\ f.aged = aged /\ f.pending = pending
      /\ f.completed = r.completed \ {t} /\ f.taskid_begin = begin
      /\ f.taskid_end = r.taskid_end /\ f.active = r.active /\ f.peer = r.peer
  BY <1>1, <1>2, <1>3 DEF Server
<1> QED BY <1>1, <1>4, <1>5 DEF SameLists, r, aged, pending, begin

LEMMA ForgottenIsGood ==
  ASSUME NEW s \in Server, NEW t, InOneList(s), AtWork(s)
  PROVE  LET f == Forgotten(s, t)
         IN /\ Good(f) /\ Known(f) = Known(s) \ {t} /\ ToSet(f.pending) = ToSet(s.pending) \ {t}
            /\ t \notin ToSet(s.pending) =>
                 f.pending = s.pending /\ (FrontIsActive(s) => FrontIsActive(f))
<1> DEFINE f == Forgotten(s, t)
           r == Deactivated(s, t)
           gone == {t}
<1>1. /\ f \in Server /\ f.aged = Without(s.aged, gone)
      /\ f.pending = Without(s.pending, gone) /\ f.completed = s.completed \ {t}
      /\ f.active = s.active \ {t} /\ f.peer = r.peer
  BY ForgottenFields
<1>2. AtWork(r) /\ r.active = s.active \ {t}
  BY DeactivatedFields
<1>3. s.aged \in Seq(Task) /\ s.pending \in Seq(Task)
  BY DEF Server
<1>4. \A x : x \in gone <=> x = t
  OBVIOUS
<1> HIDE DEF f, r, gone
<1>5. /\ ToSet(f.aged) = ToSet(s.aged) \ gone /\ ToSet(f.pending) = ToSet(s.pending) \ gone
      /\ IsInjective(s.aged) => IsInjective(f.aged)
      /\ IsInjective(s.pending) => IsInjective(f.pending)
  <2>1. /\ ToSet(Without(s.aged, gone)) = ToSet(s.aged) \ gone
        /\ IsInjective(s.aged) => IsInjective(Without(s.aged, gone))
    BY <1>3, Left
  <2>2. /\ ToSet(Without(s.pending, gone)) = ToSet(s.pending) \ gone
        /\ IsInjective(s.pending) => IsInjective(Without(s.pending, gone))
    BY <1>3, Left
  <2> QED BY <1>1, <2>1, <2>2
<1>6. ToSet(s.pending) \cap gone = {} => f.pending = s.pending
  <2>1. ToSet(s.pending) \cap gone = {} => Without(s.pending, gone) = s.pending
    BY <1>3, Left
  <2> QED BY <1>1, <2>1
<1>7. s.pending # <<>> /\ Head(s.pending) \notin gone =>
        f.pending # <<>> /\ Head(f.pending) = Head(s.pending)
  <2>1. s.pending # <<>> /\ Head(s.pending) \notin gone =>
          Without(s.pending, gone) # <<>> /\ Head(Without(s.pending, gone)) = Head(s.pending)
    BY <1>3, Left
  <2> QED BY <1>1, <2>1
<1>8. InOneList(f)
  BY <1>1, <1>4, <1>5 DEF InOneList, Listed, Known
<1>9. AtWork(f)
  <2>1. \A p \in Peer : /\ f.peer[p] = "ready" => f.active = {}
                        /\ f.peer[p] = "working" => f.active # {}
    BY <1>1, <1>2 DEF AtWork
  <2>2. ASSUME f.active # {}
        PROVE  f.pending # <<>> /\ Head(f.pending) = Head(s.pending) /\ f.active = {Head(s.pending)}
    <3>1. s.pending # <<>> /\ s.active = {Head(s.pending)} /\ Head(s.pending) # t
      BY <1>1, <2>2 DEF AtWork
    <3> QED BY <3>1, <1>1, <1>4, <1>7
  <2> QED BY <2>1, <2>2 DEF AtWork
<1>10. ASSUME t \notin ToSet(s.pending), FrontIsActive(s) PROVE FrontIsActive(f)
  <2>1. f.pending = s.pending
    BY <1>4, <1>6, <1>10
  <2>2. s.pending # <<>> => Head(s.pending) # t
    BY <1>3, <1>10, HeadIsMember
  <2> QED BY <1>1, <1>10, <2>1, <2>2 DEF FrontIsActive
<1>11. Known(f) = Known(s) \ {t} /\ ToSet(f.pending) = ToSet(s.pending) \ {t}
  BY <1>4, <1>5 DEF Known
<1>12. t \notin ToSet(s.pending) => f.pending = s.pending
  BY <1>4, <1>6
<1> QED BY <1>1, <1>8, <1>9, <1>10, <1>11, <1>12 DEF Good, f

LEMMA MoveToPlace ==
  \A n \in Nat : \A i \in 1 .. n : \A steps \in Int : MoveTo(n, i, steps) \in 1 .. n + 1
BY DEF MoveTo

LEMMA MovedIsGood ==
  ASSUME NEW s \in Server, InOneList(s), AtWork(s), FrontIsActive(s),
         NEW i \in 1 .. Len(s.pending), NEW to \in 1 .. Len(s.pending) + 1
  PROVE  LET m == Moved(s, i, to)
         IN /\ Good(m) /\ Known(m) = Known(s) /\ m.completed = s.completed
            /\ ToSet(m.pending) = ToSet(s.pending) /\ Len(m.pending) = Len(s.pending)
            /\ m.taskid_begin = s.taskid_begin /\ m.taskid_end = s.taskid_end
            /\ Dropped(m.pending, s.pending[i]) = Dropped(s.pending, s.pending[i])
<1> DEFINE m == Moved(s, i, to)
           t == s.pending[i]
           r == IF t \in s.active THEN Deactivated(s, t)
                ELSE IF to = 1 THEN Deactivated(s, s.pending[1]) ELSE s
           j == IF to > i THEN to - 1 ELSE to
           moved == InsertAt(RemoveAt(s.pending, i), j, t)
<1>1. s.pending \in Seq(Task) /\ s.pending # <<>> /\ Head(s.pending) = s.pending[1]
      /\ Len(s.pending) \in Nat
  BY LenProperties, EmptySeq DEF Server
<1>2. CASE to \in {i, i + 1}
  <2>1. m = s
    BY <1>2 DEF Moved
  <2> QED BY <2>1 DEF Good
<1>3. CASE to \notin {i, i + 1}
  <2>1. j \in 1 .. Len(s.pending) /\ (to # 1 => j # 1)
    BY <1>1, <1>3
  <2>2. r \in Server /\ SameLists(s, r) /\ AtWork(r)
    BY DeactivatedFields DEF SameLists
  <2>3. r.active # {} => i # 1 /\ to # 1 /\ r.active = s.active
    <3>1. s.active = {s.pending[1]}
      BY <1>1 DEF FrontIsActive
    <3>2. CASE t \in s.active
      <4>1. r.active = s.active \ {t} /\ t = s.pending[1]
        BY <3>1, <3>2, DeactivatedFields
      <4> QED BY <3>1, <4>1
    <3>3. CASE t \notin s.active /\ to = 1
      <4>1. r.active = s.active \ {s.pending[1]}
        BY <3>3, DeactivatedFields
      <4> QED BY <3>1, <4>1
    <3>4. CASE t \notin s.active /\ to # 1
      BY <3>1, <3>4
    <3> QED BY <3>2, <3>3, <3>4
  <2>4. m = [r EXCEPT !.pending = moved]
    <3>1. r.pending = s.pending
      BY <2>2 DEF SameLists
    <3> QED BY <1>3, <3>1 DEF Moved
  <2> HIDE DEF r, j
  <2>5. moved \in Seq(Task) /\ ToSet(moved) = ToSet(s.pending)
    BY <1>1, <2>1, Reordered
  <2>6. IsInjective(s.pending) => IsInjective(moved) /\ Without(moved, {t}) = Without(s.pending, {t})
    BY <1>1, <2>1, Reordered
  <2>7. Len(moved) = Len(s.pending)
    BY <1>1, <2>1, Reordered
  <2>8. i # 1 /\ j # 1 => moved # <<>> /\ Head(moved) = Head(s.pending)
    BY <1>1, <2>1, Reordered
  <2> HIDE DEF m, moved, t
  <2>9. /\ m \in Server /\ m.pending = moved /\ m.aged = s.aged /\ m.completed = s.completed
        /\ m.active = r.active /\ m.peer = r.peer
        /\ m.taskid_begin = s.taskid_begin /\ m.taskid_end = s.taskid_end
    BY <2>2, <2>4, <2>5 DEF Server, SameLists
  <2>10. InOneList(m)
    BY <2>5, <2>6, <2>9 DEF InOneList, Listed, Known
  <2>11. AtWork(m)
    <3>1. ASSUME m.active # {} PROVE m.active = {Head(moved)} /\ moved # <<>>
      BY <3>1, <1>1, <2>1, <2>3, <2>8, <2>9 DEF FrontIsActive
    <3> QED BY <2>2, <2>9, <3>1 DEF AtWork
  <2> QED BY <2>5, <2>6, <2>7, <2>9, <2>10, <2>11 DEF Good, Known, Dropped, InOneList, m, t
<1> QED BY <1>2, <1>3

\* What is left when some members go, and then others.
LEMMA LeftOfLeft ==
  ASSUME NEW T, NEW s \in Seq(T), NEW S, NEW R
  PROVE  Without(Without(s, S), R) = Without(s, S \cup R)
<1> DEFINE M == Members(s) \ S
           k == Only(s, M)
           N == Members(k) \ R
           B == Members(s) \ (S \cup R)
<1>1. k \in Seq(T) /\ Members(k) = Members(s) \cap M
  <2> HIDE DEF M
  <2> QED BY OnlyFacts
<1>2. Without(Without(s, S), R) = Only(k, N) /\ Without(s, S \cup R) = Only(s, B)
  BY DEF Without
<1>3. M \cap N = B
  BY <1>1
<1> HIDE DEF M, N, B
<1>4. Only(Only(s, M), N) = Only(s, M \cap N)
  BY OnlyOnly
<1> QED BY <1>2, <1>3, <1>4

\* Tasks are forgotten one after the other.
LEMMA PurgedUnfolds ==
  ASSUME NEW s \in Server, NEW n \in Nat
  PROVE  /\ Purged(s, n)[0] = s
         /\ \A i \in 1 .. n : Purged(s, n)[i] = Forgotten(Purged(s, n)[i - 1], s.aged[i])
<1> DEFINE Next1(i, before) == Forgotten(before, s.aged[i])
           Body(f) == [i \in 0 .. n |-> IF i = 0 THEN s ELSE Forgotten(f[i - 1], s.aged[i])]
           after == CHOOSE f : f = Body(f)
           Part(m, f) == /\ f \in [0 .. m -> Server] /\ f[0] = s
                         /\ \A i \in 1 .. m : f[i] = Next1(i, f[i - 1])
           Reached == {m \in 0 .. n : \E f : Part(m, f)}
<1>1. ASSUME NEW r \in Server, NEW i PROVE Next1(i, r) \in Server
  <2> DEFINE t == s.aged[i]
  <2> HIDE DEF t
  <2>1. Forgotten(r, t) \in Server
    BY ForgottenFields
  <2> QED BY <2>1 DEF t
<1>2. Purged(s, n) = after
  BY DEF Purged
<1>3. 0 \in Reached
  <2>1. Part(0, [i \in 0 .. 0 |-> s])
    OBVIOUS
  <2> HIDE DEF Part
  <2> QED BY <2>1
<1>4. ASSUME NEW m \in 1 .. n, m - 1 \in Reached PROVE m \in Reached
  <2>1. PICK f : Part(m - 1, f)
    BY <1>4
  <2> DEFINE g == [i \in 0 .. m |-> IF i = m THEN Next1(m, f[m - 1]) ELSE f[i]]
  <2>2. Next1(m, f[m - 1]) \in Server
    <3>1. f[m - 1] \in Server
      BY <2>1
    <3> HIDE DEF Next1
    <3> QED BY <3>1, <1>1
  <2> HIDE DEF Next1
  <2>3. Part(m, g)
    <3>1. g \in [0 .. m -> Server] /\ g[0] = s
      BY <2>1, <2>2
    <3>2. ASSUME NEW i \in 1 .. m PROVE g[i] = Next1(i, g[i - 1])
      <4>1. g[i - 1] = f[i - 1]
        OBVIOUS
      <4> QED BY <4>1, <2>1
    <3> QED BY <3>1, <3>2
  <2> HIDE DEF Part, g
  <2> QED BY <2>3
<1>5. PICK f : Part(n, f)
  <2> HIDE DEF Reached
  <2>1. 0 .. n \subseteq Reached
    BY <1>3, <1>4, UpTo
  <2>2. n \in Reached
    BY <2>1
  <2> QED BY <2>2 DEF Reached
<1>6. f = Body(f)
  <2>1. f = [i \in 0 .. n |-> f[i]] /\ \A i \in 0 .. n : i # 0 => i \in 1 .. n
    BY <1>5
  <2>2. \A i \in 0 .. n : f[i] = IF i = 0 THEN s ELSE Forgotten(f[i - 1], s.aged[i])
    BY <1>5, <2>1
  <2> QED BY <2>1, <2>2
<1>7. after = Body(after)
  BY <1>6
<1> HIDE DEF after
<1>8. after[0] = s /\ \A i \in 1 .. n : after[i] = Forgotten(after[i - 1], s.aged[i])
  <2>1. \A i \in 0 .. n : after[i] = IF i = 0 THEN s ELSE Forgotten(after[i - 1], s.aged[i])
    BY <1>7
  <2>2. 0 \in 0 .. n /\ \A i \in 1 .. n : i \in 0 .. n /\ i # 0
    OBVIOUS
  <2> QED BY <2>1, <2>2
<1> QED BY <1>2, <1>8

\* The memory when i tasks have been purged.
LEMMA PurgedFacts ==
  ASSUME NEW s \in Server, InOneList(s), AtWork(s), NEW n \in 0 .. Len(s.aged), NEW i \in 0 .. n
  PROVE  LET p == Purged(s, n)[i]
             oldest == {s.aged[k] : k \in 1 .. i}
         IN /\ Good(p) /\ Known(p) = Known(s) \ oldest /\ p.taskid_end = s.taskid_end
            /\ p.pending = Without(s.pending, oldest) /\ p.completed = s.completed \ oldest
            /\ oldest \cap ToSet(s.pending) = {} /\ FrontIsActive(s) => FrontIsActive(p)
<1> DEFINE after == Purged(s, n)
           Oldest(m) == {s.aged[k] : k \in 1 .. m}
           Fits(m) ==
             /\ Good(after[m]) /\ Known(after[m]) = Known(s) \ Oldest(m)
             /\ after[m].taskid_end = s.taskid_end
             /\ after[m].pending = Without(s.pending, Oldest(m))
             /\ after[m].completed = s.completed \ Oldest(m)
             /\ Oldest(m) \cap ToSet(s.pending) = {} /\ FrontIsActive(s) => FrontIsActive(after[m])
           Fitting == {m \in 0 .. n : Fits(m)}
<1>1. n \in Nat /\ s.pending \in Seq(Task) /\ s.aged \in Seq(Task)
  BY LenProperties DEF Server
<1>2. /\ after[0] = s
      /\ \A m \in 1 .. n : after[m] = Forgotten(after[m - 1], s.aged[m])
  BY <1>1, PurgedUnfolds
<1> HIDE DEF after
<1>3. 0 \in Fitting
  <2>1. Oldest(0) = {}
    OBVIOUS
  <2>2. Without(s.pending, {}) = s.pending
    BY <1>1, Left
  <2>3. Fits(0)
    BY <1>2, <2>1, <2>2 DEF Good
  <2> HIDE DEF Fits
  <2> QED BY <2>3, <1>1
<1>4. ASSUME NEW m \in 1 .. n, m - 1 \in Fitting PROVE m \in Fitting
  <2> DEFINE a == after[m - 1]
             t == s.aged[m]
             f == Forgotten(a, t)
             old == Oldest(m - 1)
             gone == {t}
  <2>1. Oldest(m) = old \cup gone
    BY <1>1
  <2>2. Fits(m - 1)
    BY <1>4
  <2>3. /\ Good(a) /\ Known(a) = Known(s) \ old /\ a.taskid_end = s.taskid_end
        /\ a.pending = Without(s.pending, old) /\ a.completed = s.completed \ old
        /\ old \cap ToSet(s.pending) = {} /\ FrontIsActive(s) => FrontIsActive(a)
    BY <2>2
  <2>4. after[m] = f
    BY <1>2
  <2> HIDE DEF a, t, Oldest, Fits, old
  <2>5. /\ f.pending = Without(a.pending, gone) /\ f.completed = a.completed \ {t}
        /\ f.taskid_end = a.taskid_end
    BY <2>3, ForgottenFields DEF Good
  <2>6. /\ Good(f) /\ Known(f) = Known(a) \ {t}
        /\ t \notin ToSet(a.pending) => (FrontIsActive(a) => FrontIsActive(f))
    BY <2>3, ForgottenIsGood DEF Good
  <2>7. \A x : x \in gone <=> x = t
    OBVIOUS
  <2> HIDE DEF f, gone
  <2>8. f.pending = Without(s.pending, old \cup gone) /\ ToSet(a.pending) = ToSet(s.pending) \ old
    <3>1. Without(Without(s.pending, old), gone) = Without(s.pending, old \cup gone)
      BY <1>1, LeftOfLeft
    <3>2. ToSet(Without(s.pending, old)) = ToSet(s.pending) \ old
      BY <1>1, Left
    <3> QED BY <3>1, <3>2, <2>3, <2>5
  <2>9. /\ Known(f) = Known(s) \ (old \cup gone) /\ f.completed = s.completed \ (old \cup gone)
    BY <2>3, <2>5, <2>6, <2>7
  <2>10. ASSUME (old \cup gone) \cap ToSet(s.pending) = {}, FrontIsActive(s) PROVE FrontIsActive(f)
    BY <2>3, <2>6, <2>7, <2>8, <2>10
  <2>11. Fits(m)
    BY <2>1, <2>3, <2>4, <2>5, <2>6, <2>8, <2>9, <2>10 DEF Fits
  <2> QED BY <2>11, <1>1
<1>5. Fits(i)
  <2> HIDE DEF Fitting
  <2>1. 0 .. n \subseteq Fitting
    BY <1>1, <1>3, <1>4, UpTo
  <2>2. i \in Fitting
    BY <2>1
  <2> QED BY <2>2 DEF Fitting
<1> QED BY <1>5 DEF after

-----------------------------------------------------------------------------
(* The invariant.                                                           *)

\* What a server makes of files.
Waiting(d) == Only(d.pending, ToSet(d.dirs))
Finished(d) == d.completed \cap ToSet(d.dirs)

FilesFit(d) ==
  /\ d \in Disk /\ IsInjective(d.dirs) /\ IsInjective(d.pending)
  /\ ToSet(d.pending) \cap d.completed = {}

InStep(s, d) ==
  /\ d.pending = s.pending /\ d.completed = s.completed
  /\ d.taskid_begin = s.taskid_begin /\ d.taskid_end = s.taskid_end
  /\ Known(s) \subseteq ToSet(d.dirs)

\* Files may be ahead of one another when the server is down, but never disagree about
\* a task; a running server agrees with them, and its front task is active.
TasksInv ==
  /\ up \in BOOLEAN /\ crashes \in 0 .. MaxCrashes /\ removed \subseteq Task
  /\ server \in Server /\ FilesFit(disk) /\ removed \cap ToSet(Waiting(disk)) = {}
  /\ ~up => server = NoServer
  /\ up => Good(server) /\ FrontIsActive(server) /\ InStep(server, disk)

LEMMA DiskFields ==
  ASSUME NEW d \in Disk
  PROVE  /\ d.dirs \in Seq(Task) /\ d.pending \in Seq(Task) /\ d.completed \in SUBSET Task
         /\ d.taskid_begin \in Id /\ d.taskid_end \in Id
BY DEF Disk

\* A server that starts takes over what the files have in common.
LEMMA RecoveredFields ==
  ASSUME NEW d, FilesFit(d)
  PROVE  LET r == Recovered(d)
         IN /\ Good(r) /\ r.pending = Waiting(d) /\ r.completed = Finished(d)
            /\ r.taskid_begin = d.taskid_begin /\ r.taskid_end = d.taskid_end
            /\ Known(r) \subseteq ToSet(d.dirs)
            /\ Waiting(d) \in Seq(Task) /\ ToSet(Waiting(d)) = ToSet(d.pending) \cap ToSet(d.dirs)
<1> DEFINE r == Recovered(d)
           known == d.completed \cup ToSet(d.pending)
           dirs == ToSet(d.dirs)
           aged == Only(d.dirs, known)
           pending == Only(d.pending, dirs)
<1>1. /\ d.dirs \in Seq(Task) /\ d.pending \in Seq(Task) /\ d.completed \in SUBSET Task
      /\ d.taskid_begin \in Id /\ d.taskid_end \in Id
  BY DiskFields DEF FilesFit
<1>2. r = [aged |-> aged, pending |-> pending, completed |-> d.completed \cap dirs,
           active |-> {}, taskid_begin |-> d.taskid_begin, taskid_end |-> d.taskid_end,
           peer |-> [p \in Peer |-> "away"]]
  BY DEF Recovered
<1>3. known = d.completed \cup ToSet(d.pending) /\ dirs = ToSet(d.dirs)
  OBVIOUS
<1> HIDE DEF known, dirs
<1>4. aged \in Seq(Task) /\ ToSet(aged) = dirs \cap known /\ IsInjective(aged)
  BY <1>1, <1>3, KeptApart DEF FilesFit
<1>5. pending \in Seq(Task) /\ ToSet(pending) = ToSet(d.pending) \cap dirs /\ IsInjective(pending)
  BY <1>1, <1>3, KeptApart DEF FilesFit
<1> HIDE DEF aged, pending, r
<1>6. /\ r.aged = aged /\ r.pending = pending /\ r.completed = d.completed \cap dirs
      /\ r.active = {} /\ r.taskid_begin = d.taskid_begin /\ r.taskid_end = d.taskid_end
      /\ r.peer = [p \in Peer |-> "away"]
  BY <1>2
<1>7. r \in Server
  BY <1>1, <1>2, <1>4, <1>5 DEF Server
<1>8. InOneList(r)
  BY <1>3, <1>4, <1>5, <1>6 DEF InOneList, Listed, Known, FilesFit
<1>9. AtWork(r)
  BY <1>6 DEF AtWork
<1>10. pending = Waiting(d) /\ d.completed \cap dirs = Finished(d)
  BY DEF pending, Waiting, dirs, Finished
<1>11. Known(r) \subseteq dirs
  BY <1>4, <1>6 DEF Known
<1> QED BY <1>3, <1>5, <1>6, <1>7, <1>8, <1>9, <1>10, <1>11 DEF Good, r

\* A server that runs would find what it has.
LEMMA Agreeing ==
  ASSUME NEW s, NEW d, FilesFit(d), Good(s), InStep(s, d)
  PROVE  Waiting(d) = s.pending /\ Finished(d) = s.completed
<1>1. d.pending \in Seq(Task) /\ ToSet(d.pending) \subseteq ToSet(d.dirs)
      /\ d.completed \subseteq ToSet(d.dirs)
  BY DiskFields DEF FilesFit, Good, InOneList, InStep, Listed
<1>2. Members(d.pending) \subseteq ToSet(d.dirs)
  BY <1>1, SetOfList
<1>3. Only(d.pending, ToSet(d.dirs)) = d.pending
  BY <1>1, <1>2, OnlyShortens
<1> QED BY <1>1, <1>3 DEF Waiting, Finished, InStep

LEMMA SeenByAll ==
  ASSUME NEW u, NEW s, NEW d, FilesFit(d), u => Good(s) /\ InStep(s, d)
  PROVE  LET kept == IF u THEN s ELSE Recovered(d)
         IN kept.pending = Waiting(d) /\ kept.completed = Finished(d)
BY Agreeing, RecoveredFields

LEMMA KeptIsOnDisk ==
  /\ TasksInv => Kept.pending = Waiting(disk) /\ Kept.completed = Finished(disk)
  /\ TasksInv' => (Kept.pending)' = Waiting(disk') /\ (Kept.completed)' = Finished(disk')
<1>1. TasksInv => Kept.pending = Waiting(disk) /\ Kept.completed = Finished(disk)
  BY SeenByAll DEF TasksInv, Kept
<1>2. TasksInv' => (Kept.pending)' = Waiting(disk') /\ (Kept.completed)' = Finished(disk')
  BY SeenByAll DEF TasksInv, Kept
<1> QED BY <1>1, <1>2

LEMMA NoServerFits == NoServer \in Server /\ NoFiles \in Disk /\ FilesFit(NoFiles)
<1> DEFINE none == <<>>
<1>1. none \in Seq(Task) /\ 0 \in Id /\ IsInjective(none) /\ ToSet(none) = {}
  <2>1. none \in Seq(Task) /\ Len(none) = 0
    BY EmptySeq
  <2>2. 0 \in Id
    BY TasksAssumption DEF Id
  <2> HIDE DEF none
  <2>3. IsInjective(none)
    <3>1. IsInjective(none) <=> \A i, j \in 1 .. Len(none) : none[i] = none[j] => i = j
      BY <2>1, Apart
    <3> QED BY <2>1, <3>1
  <2>4. ToSet(none) = {none[i] : i \in 1 .. Len(none)}
    BY <2>1, SetOfList DEF Members
  <2> QED BY <2>1, <2>2, <2>3, <2>4
<1>2. NoServer = [aged |-> none, pending |-> none, completed |-> {}, active |-> {},
                  taskid_begin |-> 0, taskid_end |-> 0, peer |-> [p \in Peer |-> "away"]]
  BY DEF NoServer
<1>3. NoFiles = [dirs |-> none, pending |-> none, completed |-> {},
                 taskid_begin |-> 0, taskid_end |-> 0]
  BY DEF NoFiles
<1> HIDE DEF none
<1> QED BY <1>1, <1>2, <1>3 DEF Server, Disk, FilesFit

LEMMA NoServerIsGood == Good(NoServer)
<1> DEFINE none == <<>>
<1>1. IsInjective(none) /\ ToSet(none) = {}
  <2>1. none \in Seq(Task) /\ Len(none) = 0
    BY EmptySeq
  <2> HIDE DEF none
  <2>2. IsInjective(none) <=> \A i, j \in 1 .. Len(none) : none[i] = none[j] => i = j
    BY <2>1, Apart
  <2>3. ToSet(none) = {none[i] : i \in 1 .. Len(none)}
    BY <2>1, SetOfList DEF Members
  <2> QED BY <2>1, <2>2, <2>3
<1>2. NoServer = [aged |-> none, pending |-> none, completed |-> {}, active |-> {},
                  taskid_begin |-> 0, taskid_end |-> 0, peer |-> [p \in Peer |-> "away"]]
  BY DEF NoServer
<1> HIDE DEF none
<1>3. InOneList(NoServer) /\ AtWork(NoServer)
  BY <1>1, <1>2 DEF InOneList, AtWork, Listed, Known
<1> QED BY <1>3, NoServerFits DEF Good

LEMMA FitsAgain ==
  ASSUME up' \in BOOLEAN, crashes' \in 0 .. MaxCrashes, removed' \subseteq Task,
         FilesFit(disk'), removed' \cap ToSet(Waiting(disk')) = {},
         \/ ~up' /\ server' = NoServer
         \/ up' /\ Good(server') /\ FrontIsActive(server') /\ InStep(server', disk')
  PROVE  TasksInv'
<1>1. server' \in Server
  BY NoServerFits DEF Good
<1>2. ~up' => server' = NoServer
  OBVIOUS
<1>3. up' => Good(server') /\ FrontIsActive(server') /\ InStep(server', disk')
  OBVIOUS
<1> QED BY <1>1, <1>2, <1>3 DEF TasksInv

\* A handler, whole or cut short, keeps the invariant.
LEMMA HandledKeeps ==
  ASSUME TasksInv, NEW kind, NEW s, NEW partial, NEW d, NEW gone \in SUBSET Task,
         Handled(kind, s, partial, d, gone),
         Good(s), FrontIsActive(s), FilesFit(d), InStep(s, d), \A x \in partial : FilesFit(x)
  PROVE  /\ TasksInv'
         /\ disk' = d \/ (kind \in CrashPoints /\ disk' \in partial)
         /\ removed' = (removed \cup (gone \ ToSet(disk'.dirs))) \ ToSet(Waiting(disk'))
<1>1. FilesFit(disk') /\ (disk' = d \/ (kind \in CrashPoints /\ disk' \in partial))
  BY DEF Handled
<1>2. removed' = (removed \cup (gone \ ToSet(disk'.dirs))) \ ToSet(Recovered(disk').pending)
  BY DEF Handled
<1>3. removed' = (removed \cup (gone \ ToSet(disk'.dirs))) \ ToSet(Waiting(disk'))
  BY <1>1, <1>2, RecoveredFields
<1>4. removed' \subseteq Task /\ removed' \cap ToSet(Waiting(disk')) = {}
  BY <1>3 DEF TasksInv
<1>5. ASSUME up' = TRUE, server' = s, disk' = d, UNCHANGED crashes PROVE TasksInv'
  <2>1. FilesFit(disk') /\ FrontIsActive(server') /\ Good(server') /\ InStep(server', disk')
    BY <1>1, <1>5
  <2>3. up' \in BOOLEAN /\ crashes' \in 0 .. MaxCrashes /\ up'
    BY <1>5 DEF TasksInv
  <2> QED BY <1>4, <2>1, <2>3, FitsAgain
<1>6. ASSUME crashes < MaxCrashes, crashes' = crashes + 1, up' = FALSE, server' = NoServer
      PROVE  TasksInv'
  <2>1. crashes' \in 0 .. MaxCrashes
    BY <1>6, TasksAssumption DEF TasksInv
  <2>3. up' \in BOOLEAN /\ ~up'
    BY <1>6
  <2> QED BY <1>1, <1>4, <1>6, <2>1, <2>3, FitsAgain
<1> QED BY <1>1, <1>3, <1>5, <1>6 DEF Handled

LEMMA Running ==
  ASSUME TasksInv, up
  PROVE  /\ Good(server) /\ FrontIsActive(server) /\ InStep(server, disk) /\ FilesFit(disk)
         /\ server \in Server /\ InOneList(server) /\ AtWork(server) /\ disk \in Disk
         /\ Waiting(disk) = server.pending /\ Finished(disk) = server.completed
         /\ removed \subseteq Task /\ removed \cap ToSet(server.pending) = {}
         /\ server.aged \in Seq(Task) /\ server.pending \in Seq(Task)
         /\ Known(server) \subseteq Task /\ Listed(server) \subseteq Known(server)
         /\ Known(server) \subseteq ToSet(disk.dirs)
<1>1. Good(server) /\ FrontIsActive(server) /\ InStep(server, disk) /\ FilesFit(disk)
  BY DEF TasksInv
<1>2. /\ server \in Server /\ InOneList(server) /\ AtWork(server) /\ disk \in Disk
      /\ server.aged \in Seq(Task) /\ server.pending \in Seq(Task)
      /\ Listed(server) \subseteq Known(server) /\ Known(server) \subseteq ToSet(disk.dirs)
  BY <1>1 DEF Good, FilesFit, Server, InOneList, InStep
<1>3. Waiting(disk) = server.pending /\ Finished(disk) = server.completed
  BY <1>1, Agreeing
<1>4. removed \subseteq Task /\ removed \cap ToSet(server.pending) = {}
  BY <1>3 DEF TasksInv
<1>5. Known(server) \subseteq Task
  BY <1>2, LenProperties DEF Known, ToSet
<1> QED BY <1>1, <1>2, <1>3, <1>4, <1>5

\* What the tasks' owners see of the files.
SameToAll ==
  /\ Waiting(disk') = Waiting(disk) /\ Finished(disk') = Finished(disk) /\ removed' = removed

LEMMA Unseen ==
  ASSUME TasksInv, TasksInv', SameToAll
  PROVE  UNCHANGED Queue!vars
BY KeptIsOnDisk DEF SameToAll, Queue!vars

LEMMA PeersFit ==
  ASSUME TasksInv,
         NEW p \in Peer, Connect(p) \/ ReadyToProcess(p) \/ EndProcess(p) \/ Disconnect(p)
  PROVE  TasksInv' /\ SameToAll
<1>1. PICK state \in {"away", "idle", "ready", "working", "ending"} :
        /\ up /\ PeerBecomes(p, state)
        /\ state = "ready" => ~(server.pending # <<>> /\ Head(server.pending) \in server.active)
        /\ state = "working" => server.pending # <<>> /\ Head(server.pending) \in server.active
  BY DEF Connect, ReadyToProcess, EndProcess, Disconnect
<1>2. Good(server) /\ FrontIsActive(server) /\ InStep(server, disk) /\ FilesFit(disk)
  BY <1>1, Running
<1> DEFINE s == [server EXCEPT !.peer[p] = state]
<1>3. server' = s /\ up' = up /\ disk' = disk /\ removed' = removed /\ crashes' = crashes
  BY <1>1 DEF PeerBecomes
<1>4. /\ s \in Server /\ SameLists(server, s) /\ s.active = server.active
      /\ \A q \in Peer : s.peer[q] = IF q = p THEN state ELSE server.peer[q]
  BY <1>1, <1>2 DEF Good, Server, SameLists
<1> HIDE DEF s
<1>5. InOneList(s) /\ InStep(s, disk) /\ FrontIsActive(s)
  BY <1>2, <1>4 DEF SameLists, Good, InOneList, InStep, Listed, Known, FrontIsActive
<1>6. AtWork(s)
  <2>1. state = "ready" => server.active = {}
    BY <1>1, <1>2 DEF FrontIsActive
  <2>2. state = "working" => server.active # {}
    BY <1>1
  <2> QED BY <1>2, <1>4, <2>1, <2>2 DEF AtWork, Good, SameLists
<1>7. Good(server') /\ FrontIsActive(server') /\ InStep(server', disk') /\ FilesFit(disk')
  BY <1>2, <1>3, <1>4, <1>5, <1>6 DEF Good
<1>8. up' \in BOOLEAN /\ up'
  BY <1>1, <1>3 DEF TasksInv
<1>9. /\ crashes' \in 0 .. MaxCrashes /\ removed' \subseteq Task
      /\ removed' \cap ToSet(Waiting(disk')) = {}
  BY <1>3 DEF TasksInv
<1>10. SameToAll
  BY <1>3 DEF SameToAll
<1> QED BY <1>7, <1>8, <1>9, <1>10, FitsAgain

LEMMA CrashFits ==
  ASSUME TasksInv, Crash
  PROVE  TasksInv' /\ SameToAll
<1>1. /\ crashes' \in 0 .. MaxCrashes /\ disk' = disk /\ removed' = removed
      /\ server' = NoServer
  BY TasksAssumption DEF Crash, TasksInv
<1>2. up' \in BOOLEAN /\ ~up'
  BY DEF Crash
<1>3. /\ FilesFit(disk') /\ removed' \subseteq Task /\ removed' \cap ToSet(Waiting(disk')) = {}
  BY <1>1 DEF TasksInv
<1>4. SameToAll
  BY <1>1 DEF SameToAll
<1> QED BY <1>1, <1>2, <1>3, <1>4, FitsAgain

LEMMA DiedFits ==
  ASSUME TasksInv, NEW d, Died(d), FilesFit(d), Waiting(d) = Waiting(disk),
         Finished(d) = Finished(disk)
  PROVE  TasksInv' /\ SameToAll
<1>1. /\ crashes' \in 0 .. MaxCrashes /\ disk' = d /\ removed' = removed
      /\ server' = NoServer /\ removed' \subseteq Task
  BY DEF Died, TasksInv
<1>2. up' \in BOOLEAN /\ ~up'
  BY DEF Died
<1>3. FilesFit(disk') /\ removed' \cap ToSet(Waiting(disk')) = {}
  BY <1>1 DEF TasksInv
<1>4. SameToAll
  BY <1>1 DEF SameToAll
<1> QED BY <1>1, <1>2, <1>3, <1>4, FitsAgain

\* A directory that is in neither index changes nothing.
LEMMA DirectoryMade ==
  ASSUME TasksInv, up, NEW t \in Task, t \notin ToSet(disk.dirs), NEW x, FilesFit(x),
         x.dirs = Append(disk.dirs, t), x.pending = disk.pending, x.completed = disk.completed
  PROVE  Waiting(x) = Waiting(disk) /\ Finished(x) = Finished(disk)
<1>1. disk.dirs \in Seq(Task) /\ disk.pending \in Seq(Task)
  BY Running, DiskFields
<1>2. ToSet(x.dirs) = ToSet(disk.dirs) \cup {t}
  BY <1>1, ApartAppend
<1>3. ToSet(disk.pending) \subseteq ToSet(disk.dirs) /\ disk.completed \subseteq ToSet(disk.dirs)
  BY Running DEF InStep, Listed
<1>4. Members(disk.pending) \cap ToSet(x.dirs) = Members(disk.pending) \cap ToSet(disk.dirs)
  BY <1>1, <1>2, <1>3, SetOfList
<1>5. Only(disk.pending, ToSet(x.dirs)) = Only(disk.pending, ToSet(disk.dirs))
  BY <1>1, <1>4, OnlySame
<1> QED BY <1>2, <1>3, <1>5 DEF Waiting, Finished

LEMMA NewTaskFits ==
  ASSUME TasksInv, NEW m \in Model, NewTask(m)
  PROVE  TasksInv' /\ SameToAll
<1> DEFINE t == [id |-> server.taskid_end, model |-> m]
           end == (server.taskid_end + 1) % IdSpace
           dirs == Append(disk.dirs, t)
           aged == Append(server.aged, t)
           made == [disk EXCEPT !.dirs = dirs]
           kept == [made EXCEPT !.taskid_end = end]
           s == [server EXCEPT !.aged = aged, !.taskid_end = end]
<1>1. up
  BY DEF NewTask
<1>2. \/ Died(disk)
      \/ t \notin ToSet(disk.dirs) /\ Died(made)
      \/ t \notin ToSet(disk.dirs) /\ Handled("new", s, {made, kept}, kept, {})
  BY DEF NewTask
<1>3. /\ Good(server) /\ FrontIsActive(server) /\ InStep(server, disk) /\ FilesFit(disk)
      /\ server \in Server /\ disk \in Disk /\ Known(server) \subseteq ToSet(disk.dirs)
      /\ removed \subseteq Task /\ removed \cap ToSet(Waiting(disk)) = {}
  BY <1>1, Running
<1>4. t \in Task /\ end \in Id
  <2>1. server.taskid_end \in Id /\ IdSpace \in Nat /\ IdSpace # 0
    BY <1>3, TasksAssumption DEF Server
  <2> QED BY <2>1 DEF Id, Task
<1> HIDE DEF t, end
<1>5. CASE t \in ToSet(disk.dirs)
  BY <1>2, <1>3, <1>5, DiedFits
<1>6. CASE t \notin ToSet(disk.dirs)
  <2>1. disk.dirs \in Seq(Task) /\ server.aged \in Seq(Task) /\ t \notin ToSet(server.aged)
    BY <1>3, <1>6, DiskFields DEF Known, Server
  <2>2. dirs \in Seq(Task) /\ ToSet(dirs) = ToSet(disk.dirs) \cup {t} /\ IsInjective(dirs)
    BY <1>3, <1>4, <1>6, <2>1, ApartAppend DEF FilesFit
  <2>3. aged \in Seq(Task) /\ ToSet(aged) = ToSet(server.aged) \cup {t} /\ IsInjective(aged)
    BY <1>3, <1>4, <2>1, ApartAppend DEF Good, InOneList
  <2>4. dirs = Append(disk.dirs, t)
    OBVIOUS
  <2> HIDE DEF dirs, aged
  <2>5. /\ made \in Disk /\ made.dirs = dirs /\ made.pending = disk.pending
        /\ made.completed = disk.completed
        /\ made.taskid_begin = disk.taskid_begin /\ made.taskid_end = disk.taskid_end
    BY <1>3, <2>2 DEF Disk
  <2> HIDE DEF made
  <2>6. /\ kept \in Disk /\ kept.dirs = dirs /\ kept.pending = disk.pending
        /\ kept.completed = disk.completed
        /\ kept.taskid_begin = disk.taskid_begin /\ kept.taskid_end = end
    BY <1>4, <2>5 DEF Disk
  <2>7. /\ s \in Server /\ s.aged = aged /\ s.pending = server.pending
        /\ s.completed = server.completed /\ s.active = server.active /\ s.peer = server.peer
        /\ s.taskid_begin = server.taskid_begin /\ s.taskid_end = end
    BY <1>3, <1>4, <2>3 DEF Server
  <2> HIDE DEF kept, s
  <2>8. FilesFit(made) /\ FilesFit(kept)
    BY <1>3, <2>2, <2>5, <2>6 DEF FilesFit
  <2>9. /\ Waiting(made) = Waiting(disk) /\ Finished(made) = Finished(disk)
        /\ Waiting(kept) = Waiting(disk) /\ Finished(kept) = Finished(disk)
    BY <1>1, <1>4, <1>6, <2>4, <2>5, <2>6, <2>8, DirectoryMade
  <2>10. Good(s) /\ FrontIsActive(s)
    BY <1>3, <2>3, <2>7 DEF Good, FrontIsActive, AtWork, InOneList, Listed, Known
  <2>11. InStep(s, kept)
    BY <1>3, <2>2, <2>3, <2>6, <2>7 DEF InStep, Known
  <2>12. CASE Died(made) \/ Died(disk)
    BY <1>3, <2>8, <2>9, <2>12, DiedFits
  <2>13. CASE Handled("new", s, {made, kept}, kept, {})
    <3> DEFINE partial == {made, kept}
               gone == {}
    <3>1. \A x \in partial : FilesFit(x) /\ Waiting(x) = Waiting(disk) /\ Finished(x) = Finished(disk)
      BY <2>8, <2>9
    <3>2. kept \in partial /\ gone \in SUBSET Task /\ Handled("new", s, partial, kept, gone)
      BY <2>13
    <3>3. \A x : removed \cup (gone \ x) = removed
      OBVIOUS
    <3> HIDE DEF partial, gone
    <3>4. /\ TasksInv' /\ disk' \in partial
          /\ removed' = (removed \cup (gone \ ToSet(disk'.dirs))) \ ToSet(Waiting(disk'))
      BY <2>8, <2>10, <2>11, <3>1, <3>2, HandledKeeps
    <3>5. SameToAll
      BY <1>3, <3>1, <3>3, <3>4 DEF SameToAll
    <3> QED BY <3>4, <3>5
  <2> QED BY <1>2, <2>12, <2>13
<1> QED BY <1>5, <1>6

\* The front task becomes active, and the files have nothing to do with it.
LEMMA ActivatedFits ==
  ASSUME NEW s, Good(s), NEW d, InStep(s, d)
  PROVE  LET r == Activated(s)
         IN /\ Good(r) /\ FrontIsActive(r) /\ InStep(r, d)
            /\ r.pending = s.pending /\ r.completed = s.completed
<1> DEFINE r == Activated(s)
<1>1. s \in Server /\ AtWork(s) /\ InOneList(s)
  BY DEF Good
<1>2. r \in Server /\ SameLists(s, r) /\ AtWork(r) /\ FrontIsActive(r)
  BY <1>1, ActivatedFields
<1> HIDE DEF r
<1>3. InOneList(r) /\ InStep(r, d) /\ r.pending = s.pending /\ r.completed = s.completed
  BY <1>1, <1>2 DEF SameLists, InOneList, InStep, Listed, Known
<1> QED BY <1>2, <1>3 DEF Good, r

\* What is seen of files when the directories of some tasks have gone, and the indices
\* may still name them.
LEMMA Thinned ==
  ASSUME TasksInv, up, NEW S, NEW x, FilesFit(x), ToSet(x.dirs) = ToSet(disk.dirs) \ S,
         x.pending \in {server.pending, Without(server.pending, S)},
         x.completed \in {server.completed, server.completed \ S}
  PROVE  Waiting(x) = Without(server.pending, S) /\ Finished(x) = server.completed \ S
<1> DEFINE dirs == ToSet(x.dirs)
           pending == Without(server.pending, S)
<1>1. /\ server.pending \in Seq(Task) /\ ToSet(server.pending) \subseteq ToSet(disk.dirs)
      /\ server.completed \subseteq ToSet(disk.dirs)
  BY Running DEF Listed
<1>2. pending \in Seq(Task) /\ ToSet(pending) = ToSet(server.pending) \ S
  BY <1>1, Left
<1>3. dirs = ToSet(disk.dirs) \ S
  OBVIOUS
<1>4. Only(server.pending, dirs) = pending
  <2> DEFINE rest == Members(server.pending) \ S
  <2>1. Members(server.pending) \cap dirs = Members(server.pending) \cap rest
    BY <1>1, <1>3, SetOfList
  <2> HIDE DEF rest, dirs
  <2>2. Only(server.pending, dirs) = Only(server.pending, rest)
    BY <1>1, <2>1, OnlySame
  <2> QED BY <2>2 DEF Without, rest
<1> HIDE DEF pending, dirs
<1>5. Only(pending, dirs) = pending
  <2>1. Members(pending) \subseteq dirs
    BY <1>1, <1>2, <1>3, SetOfList
  <2> QED BY <1>2, <2>1, OnlyShortens
<1>6. x.pending \in {server.pending, pending}
  BY DEF pending
<1>7. Only(x.pending, dirs) = pending
  BY <1>4, <1>5, <1>6
<1>8. x.completed \cap dirs = server.completed \ S
  BY <1>1, <1>3
<1> QED BY <1>7, <1>8 DEF Waiting, Finished, dirs, pending

LEMMA LoaderFailsFits ==
  ASSUME TasksInv, NEW t \in Known(server), LoaderFails(t)
  PROVE  TasksInv' /\ SameToAll
<1> DEFINE s == Forgotten(server, t)
           S == {t}
           dirs == Without(disk.dirs, S)
           rm == [disk EXCEPT !.dirs = dirs]
           d == [rm EXCEPT !.taskid_begin = s.taskid_begin]
           gone == {}
           partial == {rm, d}
<1>1. up /\ t \notin Listed(server) /\ Handled("delete", s, partial, d, gone)
  BY DEF LoaderFails, Loading
<1>2. /\ FrontIsActive(server) /\ InStep(server, disk) /\ FilesFit(disk)
      /\ server \in Server /\ InOneList(server) /\ AtWork(server) /\ disk \in Disk
      /\ server.pending \in Seq(Task)
      /\ removed \subseteq Task /\ removed \cap ToSet(server.pending) = {}
      /\ Waiting(disk) = server.pending /\ Finished(disk) = server.completed
  BY <1>1, Running
<1>3. /\ Good(s) /\ Known(s) = Known(server) \ {t}
      /\ t \notin ToSet(server.pending) =>
           s.pending = server.pending /\ (FrontIsActive(server) => FrontIsActive(s))
  BY <1>2, ForgottenIsGood
<1>4. s.completed = server.completed \ {t} /\ s.taskid_end = server.taskid_end
      /\ s \in Server
  BY <1>2, ForgottenFields
<1>5. \A x : x \in S <=> x = t
  OBVIOUS
<1>6. s.pending = server.pending /\ FrontIsActive(s) /\ s.completed = server.completed
      /\ server.completed \ S = server.completed /\ Known(s) = Known(server) \ S
      /\ ToSet(server.pending) \cap S = {}
  BY <1>1, <1>2, <1>3, <1>4, <1>5 DEF Listed
<1>7. \A x : removed \cup (gone \ x) = removed
  OBVIOUS
<1> HIDE DEF s, S, gone
<1>8. dirs \in Seq(Task) /\ ToSet(dirs) = ToSet(disk.dirs) \ S /\ IsInjective(dirs)
  BY <1>2, DiskFields, Left DEF FilesFit
<1>9. Without(server.pending, S) = server.pending
  BY <1>2, <1>6, Left
<1> HIDE DEF dirs
<1>10. /\ rm \in Disk /\ rm.dirs = dirs /\ rm.pending = disk.pending
       /\ rm.completed = disk.completed
       /\ rm.taskid_begin = disk.taskid_begin /\ rm.taskid_end = disk.taskid_end
  BY <1>2, <1>8 DEF Disk
<1> HIDE DEF rm
<1>11. /\ d \in Disk /\ d.dirs = dirs /\ d.pending = disk.pending
       /\ d.completed = disk.completed
       /\ d.taskid_begin = s.taskid_begin /\ d.taskid_end = disk.taskid_end
  BY <1>4, <1>10 DEF Disk, Server
<1> HIDE DEF d
<1>12. \A x \in partial : /\ FilesFit(x) /\ ToSet(x.dirs) = ToSet(disk.dirs) \ S
                          /\ x.pending = server.pending /\ x.completed = server.completed
  BY <1>2, <1>8, <1>10, <1>11 DEF FilesFit, InStep
<1>13. \A x \in partial : Waiting(x) = Waiting(disk) /\ Finished(x) = Finished(disk)
  <2>1. SUFFICES ASSUME NEW x \in partial
                 PROVE  Waiting(x) = Waiting(disk) /\ Finished(x) = Finished(disk)
    OBVIOUS
  <2>2. /\ FilesFit(x) /\ ToSet(x.dirs) = ToSet(disk.dirs) \ S
        /\ x.pending \in {server.pending, Without(server.pending, S)}
        /\ x.completed \in {server.completed, server.completed \ S}
    BY <1>12, <2>1
  <2>3. Waiting(x) = Without(server.pending, S) /\ Finished(x) = server.completed \ S
    BY <1>1, <2>2, Thinned
  <2> QED BY <1>2, <1>6, <1>9, <2>3
<1>14. d \in partial
  OBVIOUS
<1>15. InStep(s, d)
  BY <1>2, <1>4, <1>6, <1>8, <1>11 DEF InStep
<1>16. gone \in SUBSET Task
  BY DEF gone
<1> HIDE DEF partial
<1>17. /\ TasksInv' /\ disk' \in partial
       /\ removed' = (removed \cup (gone \ ToSet(disk'.dirs))) \ ToSet(Waiting(disk'))
  BY <1>1, <1>3, <1>6, <1>12, <1>14, <1>15, <1>16, HandledKeeps
<1>18. SameToAll
  BY <1>2, <1>7, <1>13, <1>17 DEF SameToAll
<1> QED BY <1>17, <1>18

\* TaskQueue has its own instances of the operators on lists.
LEMMA SameLanguage ==
  /\ \A s : Queue!ToSet(s) = ToSet(s)
  /\ \A s, S : Queue!Without(s, S) = Without(s, S)
<1>1. ASSUME NEW s PROVE Queue!ToSet(s) = ToSet(s) /\ Queue!Members(s) = Members(s)
  BY DEF Queue!ToSet, ToSet, Queue!Members, Members
<1>2. ASSUME NEW s, NEW S PROVE Queue!Only(s, S) = Only(s, S)
  BY DEF Queue!Only, Only
<1>3. ASSUME NEW s, NEW S PROVE Queue!Without(s, S) = Without(s, S)
  BY <1>1, <1>2 DEF Queue!Without, Without
<1> QED BY <1>1, <1>3

LEMMA MarkPendingFits ==
  ASSUME TasksInv, NEW t \in Known(server), MarkPending(t)
  PROVE  TasksInv' /\ Queue!Submit
<1> DEFINE pending == Append(server.pending, t)
           s == [server EXCEPT !.pending = pending]
           d == [disk EXCEPT !.pending = s.pending]
           r == Activated(s)
           gone == {}
           partial == {d}
<1>1. up /\ t \notin Listed(server) /\ Handled("pending", r, partial, d, gone)
  BY DEF MarkPending, Loading
<1>2. /\ FrontIsActive(server) /\ InStep(server, disk) /\ FilesFit(disk)
      /\ server \in Server /\ InOneList(server) /\ AtWork(server) /\ disk \in Disk
      /\ server.pending \in Seq(Task) /\ t \in Task
      /\ removed \subseteq Task /\ removed \cap ToSet(server.pending) = {}
      /\ Waiting(disk) = server.pending /\ Finished(disk) = server.completed
  BY <1>1, Running
<1>3. /\ pending \in Seq(Task) /\ ToSet(pending) = ToSet(server.pending) \cup {t}
      /\ IsInjective(pending)
  BY <1>1, <1>2, ApartAppend DEF InOneList, Listed
<1>4. server.pending # <<>> => pending # <<>> /\ Head(pending) = Head(server.pending)
  <2>1. /\ Len(server.pending) \in Nat /\ Len(pending) = Len(server.pending) + 1
        /\ 1 <= Len(server.pending) => pending[1] = server.pending[1]
    BY <1>2, LenProperties, AppendProperties
  <2>2. server.pending # <<>> => Len(server.pending) # 0 /\ Head(server.pending) = server.pending[1]
    BY <1>2, EmptySeq
  <2> HIDE DEF pending
  <2>3. Len(pending) # 0 => pending # <<>> /\ Head(pending) = pending[1]
    BY <1>3, EmptySeq
  <2> QED BY <2>1, <2>2, <2>3
<1>5. pending = Append(server.pending, t)
  OBVIOUS
<1> HIDE DEF pending
<1>6. /\ s \in Server /\ s.aged = server.aged /\ s.pending = pending
      /\ s.completed = server.completed /\ s.active = server.active /\ s.peer = server.peer
      /\ s.taskid_begin = server.taskid_begin /\ s.taskid_end = server.taskid_end
  BY <1>2, <1>3 DEF Server
<1> HIDE DEF s
<1>7. /\ d \in Disk /\ d.dirs = disk.dirs /\ d.pending = pending /\ d.completed = disk.completed
      /\ d.taskid_begin = disk.taskid_begin /\ d.taskid_end = disk.taskid_end
  BY <1>2, <1>3, <1>6 DEF Disk
<1> HIDE DEF d
<1>8. InOneList(s)
  BY <1>1, <1>2, <1>3, <1>6 DEF InOneList, Listed, Known
<1>9. AtWork(s)
  <2>1. server.active # {} => server.pending # <<>>
    BY <1>2 DEF FrontIsActive
  <2> QED BY <1>2, <1>4, <1>6, <2>1 DEF AtWork
<1>10. FilesFit(d) /\ InStep(s, d)
  <2>1. ToSet(d.pending) \cap d.completed = {}
    BY <1>1, <1>2, <1>3, <1>7 DEF FilesFit, InStep, Listed
  <2> QED BY <1>2, <1>3, <1>6, <1>7, <2>1 DEF FilesFit, InStep, Known
<1>11. Good(r) /\ FrontIsActive(r) /\ InStep(r, d) /\ r.pending = pending
       /\ r.completed = server.completed
  BY <1>6, <1>8, <1>9, <1>10, ActivatedFits DEF Good
<1> HIDE DEF r
<1>12. \A x \in partial : x = d
  OBVIOUS
<1>13. gone \in SUBSET Task /\ \A x : removed \cup (gone \ x) = removed
  OBVIOUS
<1> HIDE DEF partial, gone
<1>14. /\ TasksInv' /\ disk' = d
       /\ removed' = (removed \cup (gone \ ToSet(disk'.dirs))) \ ToSet(Waiting(disk'))
  BY <1>1, <1>10, <1>11, <1>12, <1>13, HandledKeeps
<1>15. Waiting(d) = pending /\ Finished(d) = server.completed
  BY <1>10, <1>11, Agreeing
<1>16. removed' = removed \ {t}
  BY <1>2, <1>3, <1>13, <1>14, <1>15
<1>17. Queue!Submit
  <2>1. Kept.pending = server.pending /\ Kept.completed = server.completed
    BY <1>2, KeptIsOnDisk
  <2>2. (Kept.pending)' = pending /\ (Kept.completed)' = server.completed
    BY <1>14, <1>15, KeptIsOnDisk
  <2>3. t \in Task \ (ToSet(Kept.pending) \cup Kept.completed)
    BY <1>1, <1>2, <2>1 DEF Listed
  <2>4. (Kept.pending)' = Append(Kept.pending, t)
    BY <1>5, <2>1, <2>2
  <2> HIDE DEF Task, Kept
  <2> QED BY <1>16, <2>1, <2>2, <2>3, <2>4, SameLanguage DEF Queue!Submit
<1> QED BY <1>14, <1>17

\* Files without the directories of the tasks in S, while the indices may still name them.
LeftOf(x, S) ==
  /\ FilesFit(x) /\ ToSet(x.dirs) = ToSet(disk.dirs) \ S
  /\ x.pending \in {server.pending, Without(server.pending, S)}
  /\ x.completed \in {server.completed, server.completed \ S}

\* Tasks are withdrawn when their directories have gone.
LEMMA Withdrawn ==
  ASSUME TasksInv, up, NEW gone \in SUBSET Known(server), NEW S \in SUBSET gone,
         S \subseteq Listed(server), LeftOf(disk', S), TasksInv',
         removed' = (removed \cup (gone \ ToSet(disk'.dirs))) \ ToSet(Waiting(disk'))
  PROVE  Queue!Withdraw
<1> DEFINE x == disk'
<1>0. /\ FilesFit(x) /\ ToSet(x.dirs) = ToSet(disk.dirs) \ S
      /\ x.pending \in {server.pending, Without(server.pending, S)}
      /\ x.completed \in {server.completed, server.completed \ S}
  BY DEF LeftOf
<1> HIDE DEF x
<1>1. Waiting(x) = Without(server.pending, S) /\ Finished(x) = server.completed \ S
  BY <1>0, Thinned
<1>2. /\ server.pending \in Seq(Task) /\ Known(server) \subseteq ToSet(disk.dirs)
      /\ removed \cap ToSet(server.pending) = {}
      /\ Waiting(disk) = server.pending /\ Finished(disk) = server.completed
  BY Running
<1>3. ToSet(Without(server.pending, S)) = ToSet(server.pending) \ S
  BY <1>2, Left
<1>4. removed' = removed \cup S
  <2>1. gone \ ToSet(x.dirs) = S
    BY <1>0, <1>2
  <2>2. removed' = (removed \cup S) \ (ToSet(server.pending) \ S)
    BY <1>1, <1>3, <2>1 DEF x
  <2> QED BY <1>2, <2>2
<1>5. Kept.pending = server.pending /\ Kept.completed = server.completed
  BY <1>2, KeptIsOnDisk
<1>6. /\ (Kept.pending)' = Without(server.pending, S)
      /\ (Kept.completed)' = server.completed \ S
  BY <1>1, KeptIsOnDisk DEF x
<1>7. S \in SUBSET (ToSet(Kept.pending) \cup Kept.completed)
  BY <1>5 DEF Listed
<1> HIDE DEF Kept
<1> QED BY <1>4, <1>5, <1>6, <1>7, SameLanguage DEF Queue!Withdraw

LEMMA DeleteFits ==
  ASSUME TasksInv, NEW t \in Known(server), Delete(t)
  PROVE  TasksInv' /\ Queue!Withdraw
<1> DEFINE s == Forgotten(server, t)
           S == {t}
           dirs == Without(disk.dirs, S)
           rm == [disk EXCEPT !.dirs = dirs]
           id == [rm EXCEPT !.taskid_begin = s.taskid_begin]
           d == IF t \in server.completed THEN [id EXCEPT !.completed = s.completed]
                ELSE [id EXCEPT !.pending = s.pending]
           r == IF t \in server.completed THEN s ELSE Activated(s)
           partial == {rm, id, d}
<1>1. up /\ t \in Listed(server) /\ Handled("delete", r, partial, d, S)
  BY DEF Delete
<1>2. /\ FrontIsActive(server) /\ InStep(server, disk) /\ FilesFit(disk)
      /\ server \in Server /\ InOneList(server) /\ AtWork(server) /\ disk \in Disk
      /\ server.pending \in Seq(Task) /\ t \in Task
  BY <1>1, Running
<1>3. /\ Good(s) /\ Known(s) = Known(server) \ {t}
      /\ t \notin ToSet(server.pending) =>
           s.pending = server.pending /\ (FrontIsActive(server) => FrontIsActive(s))
  BY <1>2, ForgottenIsGood
<1>4. s.pending = Without(server.pending, S) /\ s.completed = server.completed \ {t}
      /\ s.taskid_end = server.taskid_end /\ s \in Server
  BY <1>2, ForgottenFields
<1>5. \A x : x \in S <=> x = t
  OBVIOUS
<1>6. \/ /\ t \in server.completed /\ s.pending = server.pending /\ FrontIsActive(s)
      \/ /\ t \notin server.completed /\ s.completed = server.completed
  BY <1>1, <1>2, <1>3, <1>4 DEF InOneList, Listed
<1>7. s.completed = server.completed \ S /\ Known(s) = Known(server) \ S
  BY <1>3, <1>4, <1>5
<1> HIDE DEF s, S
<1>8. dirs \in Seq(Task) /\ ToSet(dirs) = ToSet(disk.dirs) \ S /\ IsInjective(dirs)
  BY <1>2, DiskFields, Left DEF FilesFit
<1>9. s.pending \in Seq(Task) /\ IsInjective(s.pending) /\ s.completed \in SUBSET Task
      /\ ToSet(s.pending) \cap s.completed = {} /\ s.taskid_begin \in Id
  BY <1>3, <1>4 DEF Good, InOneList, Server
<1>9a. ToSet(s.pending) = ToSet(server.pending) \ S
  BY <1>2, <1>4, Left
<1> HIDE DEF dirs
<1>10. /\ rm \in Disk /\ rm.dirs = dirs /\ rm.pending = disk.pending
       /\ rm.completed = disk.completed
       /\ rm.taskid_begin = disk.taskid_begin /\ rm.taskid_end = disk.taskid_end
  BY <1>2, <1>8 DEF Disk
<1> HIDE DEF rm
<1>11. /\ id \in Disk /\ id.dirs = dirs /\ id.pending = disk.pending
       /\ id.completed = disk.completed
       /\ id.taskid_begin = s.taskid_begin /\ id.taskid_end = disk.taskid_end
  BY <1>9, <1>10 DEF Disk
<1> HIDE DEF id
<1>12. /\ d \in Disk /\ d.dirs = dirs /\ d.pending = s.pending /\ d.completed = s.completed
       /\ d.taskid_begin = s.taskid_begin /\ d.taskid_end = disk.taskid_end
  BY <1>2, <1>6, <1>9, <1>11 DEF Disk, InStep
<1> HIDE DEF d
<1>13. FilesFit(rm) /\ FilesFit(id) /\ FilesFit(d)
  BY <1>2, <1>8, <1>9, <1>10, <1>11, <1>12 DEF FilesFit
<1>14. \A x \in partial : LeftOf(x, S) /\ FilesFit(x)
  BY <1>2, <1>4, <1>7, <1>8, <1>10, <1>11, <1>12, <1>13 DEF LeftOf, InStep
<1>15. d \in partial
  OBVIOUS
<1>16. InStep(s, d)
  BY <1>2, <1>4, <1>7, <1>8, <1>12 DEF InStep
<1>17. Good(r) /\ FrontIsActive(r) /\ InStep(r, d)
  BY <1>3, <1>6, <1>16, ActivatedFits
<1>18. S \in SUBSET Task /\ S \subseteq Listed(server) /\ S \in SUBSET Known(server)
  BY <1>1, <1>2, <1>5
<1> HIDE DEF partial, r
<1>19. /\ TasksInv' /\ disk' \in partial
       /\ removed' = (removed \cup (S \ ToSet(disk'.dirs))) \ ToSet(Waiting(disk'))
  BY <1>1, <1>13, <1>14, <1>15, <1>17, <1>18, HandledKeeps
<1>20. Queue!Withdraw
  BY <1>1, <1>14, <1>18, <1>19, Withdrawn
<1> QED BY <1>19, <1>20

LEMMA PurgeFits ==
  ASSUME TasksInv, NEW n \in 1 .. Len(server.aged), Purge(n)
  PROVE  TasksInv' /\ Queue!Withdraw
<1> DEFINE after == Purged(server, n)
           Oldest(i) == {server.aged[k] : k \in 1 .. i}
           Files(i, j) == [disk EXCEPT !.dirs = Without(@, Oldest(i)),
                                       !.taskid_begin = after[j].taskid_begin]
           s == after[n]
           wait == Len(s.pending) # Len(server.pending)
           pend == IF wait THEN [Files(n, n) EXCEPT !.pending = s.pending] ELSE Files(n, n)
           d == [pend EXCEPT !.completed = IF s.completed # server.completed
                                           THEN s.completed ELSE @]
           r == IF wait THEN Activated(s) ELSE s
           partial == {Files(i, i - 1) : i \in 1 .. n} \cup {Files(i, i) : i \in 1 .. n}
                      \cup {pend, d}
           gone == Oldest(n)
<1>1. /\ up /\ \A i \in 1 .. n : server.aged[i] \in Listed(server)
      /\ Handled("purge", r, partial, d, gone)
  BY DEF Purge
<1>2. /\ FrontIsActive(server) /\ InStep(server, disk) /\ FilesFit(disk)
      /\ server \in Server /\ InOneList(server) /\ AtWork(server) /\ disk \in Disk
      /\ server.pending \in Seq(Task) /\ server.aged \in Seq(Task)
      /\ disk.dirs \in Seq(Task) /\ Known(server) \subseteq Task
      /\ Listed(server) \subseteq Known(server)
  BY <1>1, Running, DiskFields
<1>3. n \in Nat /\ n # 0 /\ n \in 0 .. n /\ n \in 0 .. Len(server.aged) /\ n \in 1 .. n
  BY <1>2, LenProperties
<1>4. \A i \in 0 .. n :
        /\ Good(after[i]) /\ Known(after[i]) = Known(server) \ Oldest(i)
        /\ after[i].taskid_end = server.taskid_end
        /\ after[i].pending = Without(server.pending, Oldest(i))
        /\ after[i].completed = server.completed \ Oldest(i)
        /\ Oldest(i) \cap ToSet(server.pending) = {} /\ FrontIsActive(server) => FrontIsActive(after[i])
  BY <1>2, <1>3, PurgedFacts, ZenonT(40)
<1>5. /\ \A i \in 1 .. n : Oldest(i) \subseteq gone
      /\ gone \subseteq Listed(server) /\ gone = Oldest(n)
  <2>1. gone \subseteq Listed(server)
    BY <1>1
  <2>2. \A i \in 1 .. n : 1 .. i \subseteq 1 .. n
    BY <1>3
  <2>3. \A i \in 1 .. n : Oldest(i) \subseteq gone
    BY <2>2
  <2> QED BY <2>1, <2>3
<1> HIDE DEF Oldest, after, gone
<1>6. ASSUME NEW i \in 1 .. n, NEW j \in 0 .. n
      PROVE  /\ Files(i, j) \in Disk /\ ToSet(Files(i, j).dirs) = ToSet(disk.dirs) \ Oldest(i)
             /\ IsInjective(Files(i, j).dirs)
             /\ Files(i, j).pending = disk.pending /\ Files(i, j).completed = disk.completed
             /\ Files(i, j).taskid_begin = after[j].taskid_begin
             /\ Files(i, j).taskid_end = disk.taskid_end
  <2> DEFINE S == Oldest(i)
             dirs == Without(disk.dirs, S)
             begin == after[j].taskid_begin
             f == [disk EXCEPT !.dirs = dirs, !.taskid_begin = begin]
  <2>1. begin \in Id
    BY <1>4 DEF Good, Server
  <2>2. dirs \in Seq(Task) /\ ToSet(dirs) = ToSet(disk.dirs) \ S /\ IsInjective(dirs)
    <3> HIDE DEF S
    <3> QED BY <1>2, Left DEF FilesFit
  <2>3. Files(i, j) = f
    OBVIOUS
  <2> HIDE DEF S, dirs, begin, Files
  <2>4. /\ f \in Disk /\ f.dirs = dirs /\ f.pending = disk.pending
        /\ f.completed = disk.completed
        /\ f.taskid_begin = begin /\ f.taskid_end = disk.taskid_end
    BY <1>2, <2>1, <2>2 DEF Disk
  <2> HIDE DEF f
  <2> QED BY <2>2, <2>3, <2>4 DEF S, begin
<1> HIDE DEF Files
<1>7. \A i \in 1 .. n, j \in 0 .. n : LeftOf(Files(i, j), Oldest(i))
  BY <1>2, <1>6 DEF LeftOf, FilesFit, InStep
<1>8. /\ Good(s) /\ Known(s) = Known(server) \ gone /\ s.taskid_end = server.taskid_end
      /\ s.pending = Without(server.pending, gone) /\ s.completed = server.completed \ gone
      /\ gone \cap ToSet(server.pending) = {} => FrontIsActive(s)
      /\ s.pending \in Seq(Task) /\ s.completed \in SUBSET Task /\ IsInjective(s.pending)
      /\ ToSet(s.pending) \cap s.completed = {}
  <2>1. /\ Good(s) /\ Known(s) = Known(server) \ gone /\ s.taskid_end = server.taskid_end
        /\ s.pending = Without(server.pending, gone) /\ s.completed = server.completed \ gone
        /\ gone \cap ToSet(server.pending) = {} => FrontIsActive(s)
    BY <1>2, <1>3, <1>4, <1>5
  <2> QED BY <2>1 DEF Good, Server, InOneList
<1> HIDE DEF s
<1>9. ~wait => s.pending = server.pending /\ FrontIsActive(s)
  <2>1. SUFFICES ASSUME ~wait PROVE s.pending = server.pending /\ FrontIsActive(s)
    OBVIOUS
  <2>2. Without(server.pending, gone) = server.pending
    BY <1>2, <1>8, <2>1, Left
  <2>3. ToSet(Without(server.pending, gone)) = ToSet(server.pending) \ gone
    BY <1>2, Left
  <2>4. gone \cap ToSet(server.pending) = {}
    BY <2>2, <2>3
  <2> QED BY <1>8, <2>2, <2>4
<1>10. /\ Files(n, n) \in Disk /\ ToSet(Files(n, n).dirs) = ToSet(disk.dirs) \ gone
       /\ IsInjective(Files(n, n).dirs)
       /\ Files(n, n).pending = server.pending /\ Files(n, n).completed = server.completed
       /\ Files(n, n).taskid_begin = s.taskid_begin /\ Files(n, n).taskid_end = server.taskid_end
  <2>1. /\ Files(n, n) \in Disk /\ ToSet(Files(n, n).dirs) = ToSet(disk.dirs) \ Oldest(n)
        /\ IsInjective(Files(n, n).dirs)
        /\ Files(n, n).pending = disk.pending /\ Files(n, n).completed = disk.completed
        /\ Files(n, n).taskid_begin = after[n].taskid_begin
        /\ Files(n, n).taskid_end = disk.taskid_end
    BY <1>3, <1>6
  <2> QED BY <1>2, <1>5, <2>1 DEF InStep, s
<1> DEFINE f == Files(n, n)
<1> HIDE DEF f, wait
<1>11. /\ pend \in Disk /\ pend.dirs = f.dirs /\ pend.pending = s.pending
       /\ pend.completed = f.completed
       /\ pend.taskid_begin = f.taskid_begin /\ pend.taskid_end = f.taskid_end
  BY <1>8, <1>9, <1>10 DEF Disk, f
<1> HIDE DEF pend
<1>12. /\ d \in Disk /\ d.dirs = f.dirs /\ d.pending = s.pending /\ d.completed = s.completed
       /\ d.taskid_begin = f.taskid_begin /\ d.taskid_end = f.taskid_end
  BY <1>8, <1>10, <1>11 DEF Disk, f
<1> HIDE DEF d
<1>13. FilesFit(pend) /\ FilesFit(d) /\ LeftOf(pend, gone) /\ LeftOf(d, gone)
  <2>1. ToSet(s.pending) \subseteq ToSet(server.pending)
    <3>1. ToSet(Without(server.pending, gone)) = ToSet(server.pending) \ gone
      BY <1>2, Left
    <3> QED BY <1>8, <3>1
  <2>2. FilesFit(pend) /\ FilesFit(d)
    BY <1>2, <1>8, <1>10, <1>11, <1>12, <2>1 DEF FilesFit, f, InOneList
  <2> QED BY <1>8, <1>10, <1>11, <1>12, <2>2 DEF LeftOf, f
<1>14. InStep(s, d)
  BY <1>2, <1>8, <1>10, <1>12 DEF InStep, f
<1>15. Good(r) /\ FrontIsActive(r) /\ InStep(r, d)
  BY <1>8, <1>9, <1>14, ActivatedFits
<1>16. ASSUME NEW x \in partial
       PROVE  \E S \in SUBSET gone : LeftOf(x, S)
  <2>1. CASE x \in {pend, d}
    BY <1>13, <2>1
  <2>2. CASE x \in {Files(i, i - 1) : i \in 1 .. n} \cup {Files(i, i) : i \in 1 .. n}
    <3>1. PICK i \in 1 .. n : x = Files(i, i - 1) \/ x = Files(i, i)
      BY <2>2
    <3>2. i - 1 \in 0 .. n /\ i \in 0 .. n
      BY <1>3
    <3> QED BY <1>5, <1>7, <3>1, <3>2
  <2> QED BY <2>1, <2>2
<1>17. d \in partial
  OBVIOUS
<1>18. \A x \in partial : FilesFit(x)
  BY <1>16 DEF LeftOf
<1>19. gone \in SUBSET Task /\ gone \in SUBSET Known(server)
  BY <1>2, <1>5
<1> HIDE DEF partial, r
<1>20. /\ TasksInv' /\ disk' \in partial
       /\ removed' = (removed \cup (gone \ ToSet(disk'.dirs))) \ ToSet(Waiting(disk'))
  BY <1>1, <1>13, <1>15, <1>17, <1>18, <1>19, HandledKeeps
<1>21. PICK S \in SUBSET gone : LeftOf(disk', S)
  BY <1>16, <1>20
<1>22. Queue!Withdraw
  BY <1>1, <1>5, <1>19, <1>20, <1>21, Withdrawn
<1> QED BY <1>20, <1>22

LEMMA MoveFits ==
  ASSUME TasksInv, NEW i \in 1 .. Len(server.pending), NEW steps \in Steps, Move(i, steps)
  PROVE  TasksInv' /\ Queue!Move
<1> DEFINE to == MoveTo(Len(server.pending), i, steps)
           s == Moved(server, i, to)
           d == [disk EXCEPT !.pending = s.pending]
           r == Activated(s)
           gone == {}
           partial == {d}
           t == server.pending[i]
<1>1. up /\ Handled("move", r, partial, d, gone)
  BY DEF Move
<1>2. /\ FrontIsActive(server) /\ InStep(server, disk) /\ FilesFit(disk)
      /\ server \in Server /\ InOneList(server) /\ AtWork(server) /\ disk \in Disk
      /\ server.pending \in Seq(Task)
      /\ removed \subseteq Task /\ removed \cap ToSet(server.pending) = {}
      /\ Waiting(disk) = server.pending /\ Finished(disk) = server.completed
  BY <1>1, Running
<1>3. to \in 1 .. Len(server.pending) + 1
  <2>1. Len(server.pending) \in Nat /\ steps \in Int
    BY <1>2, LenProperties, TasksAssumption
  <2> QED BY <2>1, MoveToPlace
<1> HIDE DEF to
<1>4. /\ Good(s) /\ Known(s) = Known(server) /\ s.completed = server.completed
      /\ ToSet(s.pending) = ToSet(server.pending) /\ Len(s.pending) = Len(server.pending)
      /\ s.taskid_begin = server.taskid_begin /\ s.taskid_end = server.taskid_end
      /\ Dropped(s.pending, t) = Dropped(server.pending, t)
  BY <1>2, <1>3, MovedIsGood
<1>5. t \in ToSet(server.pending)
  BY DEF ToSet
<1> HIDE DEF s, t
<1>6. s.pending \in Seq(Task) /\ IsInjective(s.pending)
  BY <1>4 DEF Good, Server, InOneList
<1>7. /\ d \in Disk /\ d.dirs = disk.dirs /\ d.pending = s.pending /\ d.completed = disk.completed
      /\ d.taskid_begin = disk.taskid_begin /\ d.taskid_end = disk.taskid_end
  BY <1>2, <1>6 DEF Disk
<1> HIDE DEF d
<1>8. FilesFit(d) /\ InStep(s, d)
  BY <1>2, <1>4, <1>6, <1>7 DEF FilesFit, InStep
<1>9. /\ Good(r) /\ FrontIsActive(r) /\ InStep(r, d)
      /\ r.pending = s.pending /\ r.completed = s.completed
  BY <1>4, <1>8, ActivatedFits
<1>10. \A x \in partial : x = d
  OBVIOUS
<1>11. gone \in SUBSET Task /\ \A x : removed \cup (gone \ x) = removed
  OBVIOUS
<1> HIDE DEF partial, gone, r
<1>12. /\ TasksInv' /\ disk' = d
       /\ removed' = (removed \cup (gone \ ToSet(disk'.dirs))) \ ToSet(Waiting(disk'))
  BY <1>1, <1>8, <1>9, <1>10, <1>11, HandledKeeps
<1>13. Waiting(d) = s.pending /\ Finished(d) = server.completed
  BY <1>4, <1>8, <1>9, Agreeing
<1>14. removed' = removed
  BY <1>2, <1>4, <1>11, <1>12, <1>13
<1>15. Queue!Move
  <2>1. Kept.pending = server.pending /\ Kept.completed = server.completed
    BY <1>2, KeptIsOnDisk
  <2>2. (Kept.pending)' = s.pending /\ (Kept.completed)' = server.completed
    BY <1>12, <1>13, KeptIsOnDisk
  <2>3. Without(s.pending, {t}) = Without(server.pending, {t})
    BY <1>4 DEF Dropped
  <2> HIDE DEF Kept
  <2> QED BY <1>4, <1>5, <1>14, <2>1, <2>2, <2>3, SameLanguage DEF Queue!Move
<1> QED BY <1>12, <1>15

LEMMA RestOfList ==
  ASSUME NEW T, NEW s \in Seq(T), s # <<>>, IsInjective(s)
  PROVE  /\ Tail(s) \in Seq(T) /\ ToSet(Tail(s)) = ToSet(s) \ {Head(s)} /\ IsInjective(Tail(s))
         /\ Head(s) \in ToSet(s) /\ Head(s) \in T
<1> DEFINE u == Tail(s)
           n == Len(s)
<1>1. n \in Nat /\ n # 0 /\ u \in Seq(T) /\ Len(u) = n - 1 /\ Head(s) = s[1]
      /\ \A i \in 1 .. n - 1 : u[i] = s[i + 1]
  BY LenProperties, EmptySeq, HeadTailProperties
<1>2. \A i, j \in 1 .. n : s[i] = s[j] => i = j
  BY Apart
<1>3. ToSet(s) = {s[i] : i \in 1 .. n} /\ ToSet(u) = {u[i] : i \in 1 .. n - 1}
  <2>1. \A t \in Seq(T) : ToSet(t) = {t[i] : i \in 1 .. Len(t)}
    BY SetOfList DEF Members
  <2> QED BY <1>1, <2>1
<1>4. IsInjective(u) <=> \A i, j \in 1 .. n - 1 : u[i] = u[j] => i = j
  <2> HIDE DEF u
  <2>1. IsInjective(u) <=> \A i, j \in 1 .. Len(u) : u[i] = u[j] => i = j
    BY <1>1, Apart
  <2> QED BY <1>1, <2>1
<1> HIDE DEF n, u
<1>5. \A i \in 1 .. n - 1 : i + 1 \in 1 .. n /\ i + 1 # 1
  BY <1>1
<1>6. \A i \in 1 .. n : i = 1 \/ (i - 1 \in 1 .. n - 1 /\ (i - 1) + 1 = i)
  BY <1>1
<1>7. 1 \in 1 .. n
  BY <1>1
<1>8. IsInjective(u)
  <2>1. ASSUME NEW i \in 1 .. n - 1, NEW j \in 1 .. n - 1, u[i] = u[j] PROVE i = j
    <3>1. i + 1 = j + 1
      BY <1>1, <1>2, <1>5, <2>1
    <3> QED BY <3>1, <1>1
  <2> QED BY <1>4, <2>1
<1>9. ToSet(u) \subseteq ToSet(s) \ {s[1]}
  BY <1>1, <1>2, <1>3, <1>5, <1>7
<1>10. ToSet(s) \ {s[1]} \subseteq ToSet(u)
  <2>1. SUFFICES ASSUME NEW x \in ToSet(s), x # s[1] PROVE x \in ToSet(u)
    OBVIOUS
  <2>2. PICK i \in 1 .. n : x = s[i]
    BY <1>3
  <2>3. i - 1 \in 1 .. n - 1 /\ u[i - 1] = x
    BY <1>1, <1>6, <2>1, <2>2
  <2> QED BY <1>3, <2>3
<1>11. Head(s) \in ToSet(s) /\ Head(s) \in T
  BY HeadIsMember
<1> QED BY <1>1, <1>8, <1>9, <1>10, <1>11 DEF u

\* A crash in the middle of a completion is another matter: the task is in neither index.
LEMMA CompleteFits ==
  ASSUME TasksInv, NEW t \in Known(server), Complete(t)
  PROVE  TasksInv' /\ ("complete" \notin CrashPoints => Queue!Complete)
<1> DEFINE off == Deactivated(server, t)
           pending == Tail(server.pending)
           completed == server.completed \cup {t}
           s == [off EXCEPT !.pending = pending, !.completed = completed]
           pend == [disk EXCEPT !.pending = pending]
           d == [pend EXCEPT !.completed = completed]
           r == Activated(s)
           gone == {}
           partial == {pend, d}
<1>1. /\ FrontIsActive(server) /\ InStep(server, disk) /\ FilesFit(disk)
      /\ server \in Server /\ InOneList(server) /\ AtWork(server) /\ disk \in Disk
      /\ server.pending \in Seq(Task) /\ t \in Task
      /\ removed \subseteq Task /\ removed \cap ToSet(server.pending) = {}
      /\ Waiting(disk) = server.pending /\ Finished(disk) = server.completed
  BY Running DEF Complete
<1>2. off \in Server /\ SameLists(server, off) /\ off.active = server.active \ {t} /\ AtWork(off)
  BY <1>1, DeactivatedFields
<1> HIDE DEF off
<1>3. t \in server.active /\ t = Head(server.pending) /\ server.pending # <<>>
  BY <1>1 DEF Complete, FrontIsActive
<1>4. /\ pending \in Seq(Task) /\ ToSet(pending) = ToSet(server.pending) \ {t}
      /\ IsInjective(pending) /\ t \in ToSet(server.pending)
  BY <1>1, <1>3, RestOfList DEF InOneList
<1>5. completed \in SUBSET Task
  BY <1>1 DEF Server
<1>6. pending = Tail(server.pending) /\ completed = server.completed \cup {t}
  OBVIOUS
<1> HIDE DEF pending, completed
<1>7. /\ s \in Server /\ s.aged = server.aged /\ s.pending = pending /\ s.completed = completed
      /\ s.active = off.active /\ s.peer = off.peer
      /\ s.taskid_begin = server.taskid_begin /\ s.taskid_end = server.taskid_end
  BY <1>2, <1>4, <1>5 DEF Server, SameLists
<1>8. up /\ Handled("complete", r, partial, d, gone)
  <2> DEFINE s2 == [off EXCEPT !.pending = Tail(@), !.completed = @ \cup {t}]
             pend2 == [disk EXCEPT !.pending = s2.pending]
             d2 == [pend2 EXCEPT !.completed = s2.completed]
  <2>1. s2 = s
    BY <1>2, <1>6 DEF SameLists
  <2>2. up /\ Handled("complete", Activated(s2), {pend2, d2}, d2, {})
    BY DEF Complete, off
  <2> HIDE DEF s, s2
  <2> QED BY <1>7, <2>1, <2>2
<1> HIDE DEF s
<1>9. /\ pend \in Disk /\ pend.dirs = disk.dirs /\ pend.pending = pending
      /\ pend.completed = disk.completed
      /\ pend.taskid_begin = disk.taskid_begin /\ pend.taskid_end = disk.taskid_end
  BY <1>1, <1>4 DEF Disk
<1> HIDE DEF pend
<1>10. /\ d \in Disk /\ d.dirs = disk.dirs /\ d.pending = pending /\ d.completed = completed
       /\ d.taskid_begin = disk.taskid_begin /\ d.taskid_end = disk.taskid_end
  BY <1>5, <1>9 DEF Disk
<1> HIDE DEF d
<1>11. ToSet(pending) \cap completed = {} /\ ToSet(pending) \cap server.completed = {}
  BY <1>1, <1>4, <1>6 DEF InOneList
<1>12. FilesFit(pend) /\ FilesFit(d) /\ InStep(s, d)
  BY <1>1, <1>4, <1>7, <1>9, <1>10, <1>11 DEF FilesFit, InStep, Known
<1>13. Good(s)
  <2>1. InOneList(s)
    BY <1>1, <1>4, <1>6, <1>7, <1>11 DEF InOneList, Listed, Known
  <2>2. off.active = {}
    BY <1>1, <1>2, <1>3 DEF FrontIsActive
  <2>3. AtWork(s)
    BY <1>2, <1>7, <2>2 DEF AtWork
  <2> QED BY <1>7, <2>1, <2>3 DEF Good
<1>14. /\ Good(r) /\ FrontIsActive(r) /\ InStep(r, d)
       /\ r.pending = s.pending /\ r.completed = s.completed
  BY <1>12, <1>13, ActivatedFits
<1>15. \A x \in partial : FilesFit(x)
  BY <1>12
<1>16. gone \in SUBSET Task /\ \A x : removed \cup (gone \ x) = removed
  OBVIOUS
<1> HIDE DEF partial, gone, r
<1>17. /\ TasksInv' /\ ("complete" \notin CrashPoints => disk' = d)
       /\ removed' = (removed \cup (gone \ ToSet(disk'.dirs))) \ ToSet(Waiting(disk'))
  BY <1>8, <1>12, <1>14, <1>15, <1>16, HandledKeeps
<1>18. ASSUME "complete" \notin CrashPoints PROVE Queue!Complete
  <2>1. disk' = d
    BY <1>17, <1>18
  <2>2. Waiting(d) = pending /\ Finished(d) = completed
    BY <1>7, <1>12, <1>14, Agreeing
  <2>3. removed' = removed
    BY <1>1, <1>4, <1>16, <1>17, <2>1, <2>2
  <2>4. Kept.pending = server.pending /\ Kept.completed = server.completed
    BY <1>1, KeptIsOnDisk
  <2>5. (Kept.pending)' = pending /\ (Kept.completed)' = completed
    BY <1>17, <2>1, <2>2, KeptIsOnDisk
  <2> HIDE DEF Kept
  <2> QED BY <1>3, <1>6, <2>3, <2>4, <2>5 DEF Queue!Complete
<1> QED BY <1>17, <1>18

LEMMA StartFits ==
  ASSUME TasksInv, Start
  PROVE  TasksInv' /\ SameToAll
<1> DEFINE s == Recovered(disk)
           comp == [disk EXCEPT !.completed = s.completed]
           d == [comp EXCEPT !.pending = s.pending]
           r == Activated(s)
           gone == {}
           partial == {comp, d}
<1>1. Handled("start", r, partial, d, gone)
  BY DEF Start
<1>2. FilesFit(disk) /\ disk \in Disk /\ disk.pending \in Seq(Task)
      /\ removed \subseteq Task /\ removed \cap ToSet(Waiting(disk)) = {}
  BY DiskFields DEF TasksInv, FilesFit
<1>3. /\ Good(s) /\ s.pending = Waiting(disk) /\ s.completed = Finished(disk)
      /\ s.taskid_begin = disk.taskid_begin /\ s.taskid_end = disk.taskid_end
      /\ Known(s) \subseteq ToSet(disk.dirs)
      /\ ToSet(s.pending) = ToSet(disk.pending) \cap ToSet(disk.dirs)
  BY <1>2, RecoveredFields
<1> HIDE DEF s
<1>4. /\ s.pending \in Seq(Task) /\ s.completed \in SUBSET Task /\ IsInjective(s.pending)
      /\ ToSet(s.pending) \cap s.completed = {} /\ Listed(s) \subseteq Known(s)
  BY <1>3 DEF Good, Server, InOneList
<1>5. /\ comp \in Disk /\ comp.dirs = disk.dirs /\ comp.pending = disk.pending
      /\ comp.completed = s.completed
      /\ comp.taskid_begin = disk.taskid_begin /\ comp.taskid_end = disk.taskid_end
  BY <1>2, <1>4 DEF Disk
<1> HIDE DEF comp
<1>6. /\ d \in Disk /\ d.dirs = disk.dirs /\ d.pending = s.pending /\ d.completed = s.completed
      /\ d.taskid_begin = disk.taskid_begin /\ d.taskid_end = disk.taskid_end
  BY <1>4, <1>5 DEF Disk
<1> HIDE DEF d
<1>7. FilesFit(comp) /\ FilesFit(d) /\ InStep(s, d)
  BY <1>2, <1>3, <1>4, <1>5, <1>6 DEF FilesFit, InStep, Finished
<1>8. Good(r) /\ FrontIsActive(r) /\ InStep(r, d)
  BY <1>3, <1>7, ActivatedFits
<1>9. \A x \in partial : FilesFit(x) /\ Waiting(x) = Waiting(disk) /\ Finished(x) = Finished(disk)
  <2>1. Waiting(d) = Waiting(disk) /\ Finished(d) = Finished(disk)
    BY <1>3, <1>7, Agreeing
  <2>2. Waiting(comp) = Waiting(disk) /\ Finished(comp) = Finished(disk)
    BY <1>3, <1>5 DEF Waiting, Finished
  <2> QED BY <1>7, <2>1, <2>2
<1>10. d \in partial /\ gone \in SUBSET Task /\ \A x : removed \cup (gone \ x) = removed
  OBVIOUS
<1> HIDE DEF partial, gone, r
<1>11. /\ TasksInv' /\ disk' \in partial
       /\ removed' = (removed \cup (gone \ ToSet(disk'.dirs))) \ ToSet(Waiting(disk'))
  BY <1>1, <1>7, <1>8, <1>9, <1>10, HandledKeeps
<1>12. SameToAll
  BY <1>2, <1>9, <1>10, <1>11 DEF SameToAll
<1> QED BY <1>11, <1>12

-----------------------------------------------------------------------------
(* The theorems.                                                            *)

LEMMA TasksInitially == Init => TasksInv
<1>1. SUFFICES ASSUME Init PROVE TasksInv
  OBVIOUS
<1>2. up \in BOOLEAN /\ ~up /\ server = NoServer /\ disk = NoFiles /\ removed = {} /\ crashes = 0
  BY <1>1 DEF Init
<1>3. crashes \in 0 .. MaxCrashes
  BY <1>2, TasksAssumption
<1> QED BY <1>2, <1>3, NoServerFits DEF TasksInv

LEMMA TasksStep ==
  ASSUME TasksInv, [Next]_vars
  PROVE  /\ TasksInv'
         /\ "complete" \notin CrashPoints => [Queue!Next]_(Queue!vars)
<1>1. CASE UNCHANGED vars
  <2>1. TasksInv'
    BY <1>1 DEF vars, TasksInv
  <2>2. SameToAll
    BY <1>1 DEF vars, SameToAll
  <2> QED BY <2>1, <2>2, Unseen
<1>2. CASE Start \/ Crash
  <2>1. TasksInv' /\ SameToAll
    BY <1>2, StartFits, CrashFits
  <2> QED BY <2>1, Unseen
<1>3. ASSUME NEW m \in Model, NewTask(m)
      PROVE  TasksInv' /\ UNCHANGED Queue!vars
  <2>1. TasksInv' /\ SameToAll
    BY <1>3, NewTaskFits
  <2> QED BY <2>1, Unseen
<1>4. ASSUME NEW t \in Known(server), LoaderFails(t)
      PROVE  TasksInv' /\ UNCHANGED Queue!vars
  <2>1. TasksInv' /\ SameToAll
    BY <1>4, LoaderFailsFits
  <2> QED BY <2>1, Unseen
<1>5. ASSUME NEW t \in Known(server), MarkPending(t) \/ Delete(t) \/ Complete(t)
      PROVE  TasksInv' /\ ("complete" \notin CrashPoints => Queue!Next)
  BY <1>5, MarkPendingFits, DeleteFits, CompleteFits DEF Queue!Next
<1>6. ASSUME NEW n \in 1 .. Len(server.aged), Purge(n)
      PROVE  TasksInv' /\ Queue!Next
  BY <1>6, PurgeFits DEF Queue!Next
<1>7. ASSUME NEW i \in 1 .. Len(server.pending), NEW steps \in Steps, Move(i, steps)
      PROVE  TasksInv' /\ Queue!Next
  BY <1>7, MoveFits DEF Queue!Next
<1>8. ASSUME NEW p \in Peer, Connect(p) \/ ReadyToProcess(p) \/ EndProcess(p) \/ Disconnect(p)
      PROVE  TasksInv' /\ UNCHANGED Queue!vars
  <2>1. TasksInv' /\ SameToAll
    BY <1>8, PeersFit
  <2> QED BY <2>1, Unseen
<1> QED BY <1>1, <1>2, <1>3, <1>4, <1>5, <1>6, <1>7, <1>8 DEF Next

LEMMA TasksInvariant == Spec => []TasksInv
<1>1. TasksInv /\ [Next]_vars => TasksInv'
  BY TasksStep
<1> QED BY <1>1, TasksInitially, PTL DEF Spec

\* The type invariant of TaskManager: any peers, ids, models, moves and crashes.
THEOREM TasksHaveTheirTypes == Spec => []TypeOK
<1>1. TasksInv => TypeOK
  <2>1. SUFFICES ASSUME TasksInv PROVE TypeOK
    OBVIOUS
  <2>2. Good(server)
    <3>1. CASE up
      BY <2>1, <3>1 DEF TasksInv
    <3>2. CASE ~up
      BY <2>1, <3>2, NoServerIsGood DEF TasksInv
    <3> QED BY <3>1, <3>2
  <2>3. /\ IsInjective(server.aged) /\ IsInjective(server.pending)
        /\ Listed(server) \subseteq Known(server)
        /\ ToSet(server.pending) \cap server.completed = {}
    BY <2>2 DEF Good, InOneList
  <2>4. /\ up \in BOOLEAN /\ crashes \in 0 .. MaxCrashes /\ removed \subseteq Task
        /\ server \in Server /\ disk \in Disk
    BY <2>1 DEF TasksInv, FilesFit
  <2> QED BY <2>3, <2>4 DEF TypeOK
<1> QED BY <1>1, TasksInvariant, PTL

\* OnlyFrontIsActive: after every handler - whatever it deletes, purges, moves, loads or
\* completes - the front task is active and no other is.
THEOREM FrontAloneIsActive == Spec => []OnlyFrontIsActive
<1>1. TasksInv => OnlyFrontIsActive
  BY DEF TasksInv, FrontIsActive, OnlyFrontIsActive
<1> QED BY <1>1, TasksInvariant, PTL

\* NobodyWaits: a peer that is ready gets the task that becomes active, and one whose
\* task is no longer active is told to end.
THEOREM NobodyIsLeftWaiting == Spec => []NobodyWaits
<1>1. TasksInv => NobodyWaits
  BY DEF TasksInv, Good, AtWork, NobodyWaits
<1> QED BY <1>1, TasksInvariant, PTL

\* RestartKeepsTasks: between two handlers the files say what the memory does.
THEOREM FilesKeepTasks == Spec => []RestartKeepsTasks
<1>1. TasksInv => RestartKeepsTasks
  <2>1. SUFFICES ASSUME TasksInv, up
                 PROVE  /\ Recovered(disk).pending = server.pending
                        /\ Recovered(disk).completed = server.completed
    BY DEF RestartKeepsTasks
  <2>2. FilesFit(disk) /\ Good(server) /\ InStep(server, disk)
    BY <2>1 DEF TasksInv
  <2> QED BY <2>2, Agreeing, RecoveredFields
<1> QED BY <1>1, TasksInvariant, PTL

\* TasksAreKept, for handlers that a crash does not cut short while a task is completed:
\* the lists implement TaskQueue, also across crashes in the middle of any other handler,
\* and restarts.
THEOREM ListsImplementQueue ==
  ASSUME "complete" \notin CrashPoints
  PROVE  Spec => TasksAreKept
<1>1. Init => Queue!Init
  <2>1. SUFFICES ASSUME Init PROVE Queue!Init
    OBVIOUS
  <2>2. TasksInv /\ disk = NoFiles /\ removed = {}
    BY <2>1, TasksInitially DEF Init
  <2>3. Waiting(NoFiles) = <<>> /\ Finished(NoFiles) = {}
    BY OnlyEmpty DEF Waiting, Finished, NoFiles
  <2>4. Kept.pending = <<>> /\ Kept.completed = {}
    BY <2>2, <2>3, KeptIsOnDisk
  <2> QED BY <2>2, <2>4 DEF Queue!Init
<1>2. TasksInv /\ [Next]_vars => [Queue!Next]_(Queue!vars)
  BY TasksStep
<1> QED BY <1>1, <1>2, TasksInvariant, PTL DEF Spec, TasksAreKept, Queue!Spec

-----------------------------------------------------------------------------
(* Ids.                                                                     *)

\* The ids of K lie between begin and end, and each is that of one task.
Numbered(K, begin, end) ==
  /\ \A t \in K : IF begin <= end THEN begin <= t.id /\ t.id < end
                  ELSE begin <= t.id \/ t.id < end
  /\ \A t, u \in K : t.id = u.id => t = u

\* The tasks that a start from these files would know.
Found(d) == ToSet(Waiting(d)) \cup Finished(d)

IdsInv ==
  /\ up => Numbered(Known(server), server.taskid_begin, server.taskid_end)
  /\ Numbered(Found(disk), disk.taskid_begin, disk.taskid_end)

LEMMA WindowIs ==
  ASSUME NEW i \in Id, NEW begin \in Id, NEW end \in Id
  PROVE  (i - begin) % IdSpace < (end - begin) % IdSpace
           <=> IF begin <= end THEN begin <= i /\ i < end ELSE begin <= i \/ i < end
<1>1. IdSpace \in Nat /\ IdSpace > 0
  BY TasksAssumption
<1>2. \A j \in Id : (j - begin) % IdSpace = IF begin <= j THEN j - begin ELSE j - begin + IdSpace
  BY <1>1, SMT DEF Id
<1> QED BY <1>1, <1>2, SMT DEF Id

LEMMA FewerNumbered ==
  ASSUME NEW K, NEW L \in SUBSET K, NEW begin, NEW end, Numbered(K, begin, end)
  PROVE  Numbered(L, begin, end)
BY DEF Numbered

\* The next id, unless it comes too near to the first.
LEMMA NumberedNext ==
  ASSUME NEW K \in SUBSET Task, NEW begin \in Id, NEW end \in Id, NEW t \in Task, t.id = end,
         Numbered(K, begin, end), begin - ((end + 1) % IdSpace) \notin 0 .. Margin - 1
  PROVE  Numbered(K \cup {t}, begin, (end + 1) % IdSpace)
<1> DEFINE next == (end + 1) % IdSpace
<1>1. IdSpace \in Nat /\ IdSpace > 0 /\ Margin \in 1 .. IdSpace
  BY TasksAssumption
<1>2. next = IF end = IdSpace - 1 THEN 0 ELSE end + 1
  BY <1>1, SMT DEF Id
<1>3. next # begin
  <2>1. begin - next \notin 0 .. Margin - 1 /\ 0 \in 0 .. Margin - 1 /\ begin \in Int
    BY <1>1 DEF Id
  <2>2. begin - begin = 0
    BY <2>1
  <2> QED BY <2>1, <2>2
<1> HIDE DEF next
<1>4. \A u \in K : u.id \in Id
  BY DEF Task
<1>5. ASSUME NEW u \in K \cup {t}
      PROVE  IF begin <= next THEN begin <= u.id /\ u.id < next
             ELSE begin <= u.id \/ u.id < next
  <2>1. CASE u = t
    BY <1>1, <1>2, <1>3, <2>1 DEF Id
  <2>2. CASE u \in K
    <3>1. u.id \in Id /\ IF begin <= end THEN begin <= u.id /\ u.id < end
                         ELSE begin <= u.id \/ u.id < end
      BY <1>4, <2>2 DEF Numbered
    <3> QED BY <1>1, <1>2, <1>3, <3>1 DEF Id
  <2> QED BY <2>1, <2>2
<1>6. ASSUME NEW u \in K PROVE u.id # end
  <2>1. u.id \in Id /\ IF begin <= end THEN begin <= u.id /\ u.id < end
                       ELSE begin <= u.id \/ u.id < end
    BY <1>4, <1>6 DEF Numbered
  <2> QED BY <2>1 DEF Id
<1>7. \A u, v \in K \cup {t} : u.id = v.id => u = v
  BY <1>6 DEF Numbered
<1> QED BY <1>5, <1>7 DEF Numbered, next

\* The window shrinks with the tasks, unless some of them are ahead of its end.
LEMMA ForgottenIds ==
  ASSUME NEW s \in Server, NEW t \in Known(s),
         Numbered(Known(s), s.taskid_begin, s.taskid_end), SameSide(Known(s), s.taskid_begin)
  PROVE  /\ Numbered(Known(s) \ {t}, Released(s, t), s.taskid_end)
         /\ SameSide(Known(s) \ {t}, Released(s, t))
<1> DEFINE K == Known(s)
           begin == s.taskid_begin
           end == s.taskid_end
           L == K \ {t}
           above == {u.id : u \in {v \in K : v.id > t.id}}
<1>1. K \subseteq Task /\ begin \in Id /\ end \in Id /\ t \in K
  BY LenProperties DEF Known, ToSet, Server
<1>2. (\A u \in K : u.id \in Id) /\ Id \subseteq Nat
  BY <1>1 DEF Task, Id
<1>3. Numbered(K, begin, end) /\ SameSide(K, begin)
  OBVIOUS
<1>4. Released(s, t) = IF t.id # begin THEN begin ELSE IF above = {} THEN end ELSE Min(above)
  BY DEF Released
<1>5. \A u \in L : u \in K /\ u.id # t.id
  BY <1>1, <1>3 DEF Numbered
<1>6. \A x : x \in above <=> \E u \in K : u.id > t.id /\ x = u.id
  OBVIOUS
<1> HIDE DEF K, begin, end, L, above
<1>7. CASE t.id # begin
  <2>1. Numbered(L, begin, end)
    BY <1>3, <1>5 DEF Numbered
  <2>2. SameSide(L, begin)
    BY <1>3, <1>5 DEF SameSide
  <2> QED BY <1>4, <1>7, <2>1, <2>2 DEF L, K, begin, end
<1>8. CASE t.id = begin
  <2>1. \A u \in L : begin <= u.id
    BY <1>1, <1>2, <1>3, <1>5, <1>8 DEF SameSide
  <2>2. \A u \in L : u.id > t.id /\ u.id \in above
    <3>1. SUFFICES ASSUME NEW u \in L PROVE u.id > t.id /\ u.id \in above
      OBVIOUS
    <3>2. u \in K /\ u.id # t.id /\ begin <= u.id /\ u.id \in Nat /\ t.id \in Nat
      BY <1>1, <1>2, <1>5, <2>1
    <3>3. u.id > t.id
      BY <1>8, <3>2
    <3> QED BY <1>6, <3>2, <3>3
  <2>3. CASE above = {}
    <3>1. L = {}
      BY <2>2, <2>3
    <3>2. \A b : Numbered(L, b, end) /\ SameSide(L, b)
      BY <3>1 DEF Numbered, SameSide
    <3> QED BY <3>2 DEF L, K, end
  <2>4. CASE above # {}
    <3> DEFINE m == Min(above)
    <3>1. above \subseteq Nat
      BY <1>2, <1>6
    <3>2. m \in above /\ \A x \in above : m <= x
      <4>1. \E y \in above : \A x \in above : y <= x
        BY <2>4, <3>1, Least
      <4> QED BY <4>1 DEF Min
    <3> HIDE DEF m
    <3>3. PICK w \in K : w.id > t.id /\ m = w.id
      BY <1>6, <3>2
    <3>4. \A u \in L : m <= u.id
      BY <2>2, <3>2
    <3>5. SameSide(L, m)
      BY <3>4 DEF SameSide
    <3>6. ASSUME begin <= end PROVE m <= end
      <4>1. m < end /\ m \in Nat /\ end \in Nat
        BY <1>1, <1>2, <1>3, <3>3, <3>6 DEF Numbered
      <4> QED BY <4>1
    <3>7. ASSUME begin <= end, NEW u \in L PROVE u.id < end
      BY <1>3, <1>5, <3>7 DEF Numbered
    <3>8. ASSUME ~(begin <= end) PROVE ~(m <= end)
      <4>1. begin \in Nat /\ end \in Nat /\ m \in Nat /\ m > begin
        BY <1>1, <1>2, <1>8, <3>3
      <4> QED BY <3>8, <4>1
    <3>9. \A u, v \in L : u.id = v.id => u = v
      BY <1>3, <1>5 DEF Numbered
    <3>10. \A u \in L : IF m <= end THEN m <= u.id /\ u.id < end ELSE m <= u.id \/ u.id < end
      BY <3>4, <3>7, <3>8
    <3>11. Numbered(L, m, end)
      BY <3>9, <3>10 DEF Numbered
    <3>12. Released(s, t) = m
      BY <1>4, <1>8, <2>4 DEF m
    <3> QED BY <3>5, <3>11, <3>12 DEF L, K, end
  <2> QED BY <2>3, <2>4
<1> QED BY <1>7, <1>8 DEF L, K, begin, end

\* A running server has numbered what a start would find.
LEMMA FoundIsKnown ==
  ASSUME NEW s, NEW d, Good(s), FilesFit(d), InStep(s, d)
  PROVE  Found(d) \subseteq Known(s)
<1>1. Waiting(d) = s.pending /\ Finished(d) = s.completed
  BY Agreeing
<1>2. Listed(s) \subseteq Known(s)
  BY DEF Good, InOneList
<1> QED BY <1>1, <1>2 DEF Found, Listed

\* Files name what is found in them.
LEMMA FoundIsNamed ==
  ASSUME NEW d, FilesFit(d)
  PROVE  Found(d) = ToSet(d.dirs) \cap (ToSet(d.pending) \cup d.completed)
<1>1. ToSet(Waiting(d)) = ToSet(d.pending) \cap ToSet(d.dirs)
  BY RecoveredFields
<1> QED BY <1>1 DEF Found, Finished

LEMMA RecoveredIsFound ==
  ASSUME NEW d, FilesFit(d)
  PROVE  Known(Recovered(d)) = Found(d)
<1>1. Recovered(d).aged = Only(d.dirs, d.completed \cup ToSet(d.pending))
  BY DEF Recovered
<1>2. ToSet(Recovered(d).aged) = ToSet(d.dirs) \cap (d.completed \cup ToSet(d.pending))
  BY <1>1, DiskFields, KeptApart DEF FilesFit
<1> QED BY <1>2, FoundIsNamed DEF Known

LEMMA SameToAllFound == SameToAll => Found(disk') = Found(disk)
BY DEF SameToAll, Found

\* A server that runs, with its tasks numbered.
LEMMA RunningNumbered ==
  ASSUME TasksInv', up', Numbered(Known(server'), server'.taskid_begin, server'.taskid_end)
  PROVE  IdsInv'
<1>1. FilesFit(disk') /\ Good(server') /\ InStep(server', disk')
  BY DEF TasksInv
<1>2. /\ Found(disk') \subseteq Known(server')
      /\ disk'.taskid_begin = server'.taskid_begin /\ disk'.taskid_end = server'.taskid_end
  BY <1>1, FoundIsKnown DEF InStep
<1>3. Numbered(Found(disk'), disk'.taskid_begin, disk'.taskid_end)
  BY <1>2, FewerNumbered
<1> QED BY <1>3 DEF IdsInv

\* A handler, whole or cut short.
LEMMA HandledNumbers ==
  ASSUME TasksInv', NEW kind, NEW s, NEW partial, NEW d, NEW gone,
         Handled(kind, s, partial, d, gone),
         Numbered(Known(s), s.taskid_begin, s.taskid_end),
         \A x \in partial : Numbered(Found(x), x.taskid_begin, x.taskid_end)
  PROVE  IdsInv'
<1>1. CASE up' = TRUE /\ server' = s
  <2>1. up' /\ Numbered(Known(server'), server'.taskid_begin, server'.taskid_end)
    BY <1>1
  <2> QED BY <2>1, RunningNumbered
<1>2. CASE up' = FALSE /\ disk' \in partial
  <2>1. Numbered(Found(disk'), disk'.taskid_begin, disk'.taskid_end)
    BY <1>2
  <2> QED BY <1>2, <2>1 DEF IdsInv
<1> QED BY <1>1, <1>2 DEF Handled

\* Activation does not change ids, and nothing is known that was not.
LEMMA ActivatedNumbered ==
  ASSUME NEW s, Good(s)
  PROVE  LET r == Activated(s)
         IN /\ Known(r) = Known(s) /\ r.taskid_begin = s.taskid_begin
            /\ r.taskid_end = s.taskid_end
<1>1. SameLists(s, Activated(s))
  BY ActivatedFields DEF Good
<1> QED BY <1>1 DEF SameLists, Known

LEMMA StartNumbers ==
  ASSUME TasksInv, IdsInv, TasksInv', Start
  PROVE  IdsInv'
<1> DEFINE s == Recovered(disk)
           comp == [disk EXCEPT !.completed = s.completed]
           d == [comp EXCEPT !.pending = s.pending]
           r == Activated(s)
           partial == {comp, d}
<1>1. Handled("start", r, partial, d, {})
  BY DEF Start
<1>2. FilesFit(disk) /\ disk \in Disk
  BY DEF TasksInv, FilesFit
<1>3. /\ Good(s) /\ s.pending = Waiting(disk) /\ s.completed = Finished(disk)
      /\ s.taskid_begin = disk.taskid_begin /\ s.taskid_end = disk.taskid_end
      /\ Waiting(disk) \in Seq(Task) /\ ToSet(s.pending) = ToSet(disk.pending) \cap ToSet(disk.dirs)
  BY <1>2, RecoveredFields
<1>4. Known(s) = Found(disk)
  BY <1>2, RecoveredIsFound
<1> HIDE DEF s
<1>5. /\ comp \in Disk /\ comp.dirs = disk.dirs /\ comp.pending = disk.pending
      /\ comp.completed = s.completed
      /\ comp.taskid_begin = disk.taskid_begin /\ comp.taskid_end = disk.taskid_end
  BY <1>2, <1>3 DEF Disk, Finished
<1> HIDE DEF comp
<1>6. /\ d.dirs = disk.dirs /\ d.pending = s.pending /\ d.completed = s.completed
      /\ d.taskid_begin = disk.taskid_begin /\ d.taskid_end = disk.taskid_end
  BY <1>5 DEF Disk
<1> HIDE DEF d
<1>7. Numbered(Known(r), r.taskid_begin, r.taskid_end)
  <2>1. Numbered(Known(s), disk.taskid_begin, disk.taskid_end)
    BY <1>4, FewerNumbered DEF IdsInv
  <2> QED BY <1>3, <2>1, ActivatedNumbered
<1>8. Found(comp) \subseteq Found(disk) /\ Found(d) \subseteq Found(disk)
  <2>1. Found(comp) \subseteq Found(disk)
    BY <1>3, <1>5 DEF Found, Waiting, Finished
  <2>2. Found(d) \subseteq Found(disk)
    <3>1. Only(s.pending, ToSet(disk.dirs)) = s.pending
      <4>1. s.pending \in Seq(Task) /\ Members(s.pending) \subseteq ToSet(disk.dirs)
        BY <1>3, SetOfList
      <4> QED BY <4>1, OnlyShortens
    <3> QED BY <1>3, <1>6, <3>1 DEF Found, Waiting, Finished
  <2> QED BY <2>1, <2>2
<1>9. \A x \in partial : Numbered(Found(x), x.taskid_begin, x.taskid_end)
  BY <1>5, <1>6, <1>8, FewerNumbered DEF IdsInv
<1> HIDE DEF partial, r
<1> QED BY <1>1, <1>7, <1>9, HandledNumbers

LEMMA PeersNumber ==
  ASSUME TasksInv, IdsInv, TasksInv',
         NEW p \in Peer, Connect(p) \/ ReadyToProcess(p) \/ EndProcess(p) \/ Disconnect(p)
  PROVE  IdsInv'
<1>1. PICK state : up /\ PeerBecomes(p, state)
  BY DEF Connect, ReadyToProcess, EndProcess, Disconnect
<1>2. /\ server'.aged = server.aged /\ server'.taskid_begin = server.taskid_begin
      /\ server'.taskid_end = server.taskid_end /\ up' = up /\ disk' = disk
  BY <1>1 DEF PeerBecomes, TasksInv, Server
<1> QED BY <1>2 DEF IdsInv, Known

LEMMA NewTaskNumbers ==
  ASSUME TasksInv, IdsInv, TasksInv', NEW m \in Model, NewTask(m)
  PROVE  IdsInv'
<1> DEFINE t == [id |-> server.taskid_end, model |-> m]
           end == (server.taskid_end + 1) % IdSpace
           made == [disk EXCEPT !.dirs = Append(@, t)]
           kept == [made EXCEPT !.taskid_end = end]
           s == [server EXCEPT !.aged = Append(@, t), !.taskid_end = end]
           partial == {made, kept}
<1>1. up
  BY DEF NewTask
<1>2. \/ Died(disk) \/ Died(made)
      \/ server.taskid_begin - end \notin 0 .. Margin - 1 /\ Handled("new", s, partial, kept, {})
  BY DEF NewTask
<1>3. /\ server \in Server /\ disk \in Disk /\ Known(server) \subseteq Task
      /\ InStep(server, disk) /\ Good(server) /\ FilesFit(disk)
  BY <1>1, Running
<1>4. /\ server.taskid_begin \in Id /\ server.taskid_end \in Id
      /\ server.aged \in Seq(Task) /\ disk.dirs \in Seq(Task)
  BY <1>3, DiskFields DEF Server
<1>5. t \in Task /\ t.id = server.taskid_end
  BY <1>4 DEF Task
<1>6. end = (server.taskid_end + 1) % IdSpace
  OBVIOUS
<1> HIDE DEF t
<1>7. Numbered(Known(server), server.taskid_begin, server.taskid_end)
  BY <1>1 DEF IdsInv
<1>8. /\ SameToAll => Found(disk') = Found(disk)
      /\ Found(disk) \subseteq Known(server)
      /\ disk.taskid_begin = server.taskid_begin /\ disk.taskid_end = server.taskid_end
  BY <1>3, FoundIsKnown, SameToAllFound DEF InStep
<1>9. SameToAll
  BY NewTaskFits
<1>10. made.taskid_begin = disk.taskid_begin /\ made.taskid_end = disk.taskid_end /\ made \in Disk
  <2>1. Append(disk.dirs, t) \in Seq(Task)
    BY <1>4, <1>5, ApartAppend
  <2> QED BY <1>3, <2>1 DEF Disk
<1> HIDE DEF made, end
<1>11. CASE Died(disk) \/ Died(made)
  <2>1. ~up' /\ disk'.taskid_begin = disk.taskid_begin /\ disk'.taskid_end = disk.taskid_end
    BY <1>10, <1>11 DEF Died
  <2> QED BY <1>8, <1>9, <2>1 DEF IdsInv
<1>12. CASE server.taskid_begin - end \notin 0 .. Margin - 1 /\ Handled("new", s, partial, kept, {})
  <2>1. Numbered(Known(server) \cup {t}, server.taskid_begin, end)
    BY <1>3, <1>4, <1>5, <1>6, <1>7, <1>12, NumberedNext
  <2>2. /\ s.aged = Append(server.aged, t) /\ s.taskid_begin = server.taskid_begin
        /\ s.taskid_end = end
    BY <1>3 DEF Server
  <2>3. kept.taskid_begin = disk.taskid_begin /\ kept.taskid_end = end
    BY <1>10 DEF Disk
  <2>4. Known(s) = Known(server) \cup {t}
    BY <1>4, <1>5, <2>2, ApartAppend DEF Known
  <2>5. disk' \in partial \/ disk' = kept
    BY <1>12 DEF Handled
  <2>6. (disk'.taskid_begin = disk.taskid_begin /\ disk'.taskid_end = disk.taskid_end)
        \/ (disk'.taskid_begin = disk.taskid_begin /\ disk'.taskid_end = end)
    BY <1>10, <2>3, <2>5
  <2>7. Numbered(Found(disk'), disk'.taskid_begin, disk'.taskid_end)
    <3>1. Found(disk') \subseteq Known(server) /\ Found(disk') \subseteq Known(server) \cup {t}
      BY <1>8, <1>9
    <3> QED BY <1>7, <1>8, <2>1, <2>6, <3>1, FewerNumbered
  <2>8. CASE up'
    <3>1. server' = s
      BY <1>12, <2>8 DEF Handled
    <3>2. Numbered(Known(server'), server'.taskid_begin, server'.taskid_end)
      BY <2>1, <2>2, <2>4, <3>1
    <3> QED BY <2>8, <3>2, RunningNumbered
  <2>9. CASE ~up'
    BY <2>7, <2>9 DEF IdsInv
  <2> QED BY <2>8, <2>9
<1> QED BY <1>2, <1>11, <1>12

\* Handlers that leave ids alone.
LEMMA SameIdsNumber ==
  ASSUME TasksInv, IdsInv, TasksInv', up,
         \/ /\ up' /\ Known(server') = Known(server)
            /\ server'.taskid_begin = server.taskid_begin /\ server'.taskid_end = server.taskid_end
         \/ /\ ~up' /\ ToSet(disk'.pending) \cup disk'.completed \subseteq Known(server)
            /\ disk'.taskid_begin = disk.taskid_begin /\ disk'.taskid_end = disk.taskid_end
  PROVE  IdsInv'
<1>1. Numbered(Known(server), server.taskid_begin, server.taskid_end) /\ InStep(server, disk)
  BY Running DEF IdsInv
<1>2. CASE up'
  <2>1. Numbered(Known(server'), server'.taskid_begin, server'.taskid_end)
    BY <1>1, <1>2
  <2> QED BY <1>2, <2>1, RunningNumbered
<1>3. CASE ~up'
  <2>1. FilesFit(disk')
    BY DEF TasksInv
  <2>2. Found(disk') \subseteq Known(server)
    BY <1>3, <2>1, FoundIsNamed
  <2>3. Numbered(Found(disk'), server.taskid_begin, server.taskid_end)
    BY <1>1, <2>2, FewerNumbered
  <2> QED BY <1>1, <1>3, <2>3 DEF IdsInv, InStep
<1> QED BY <1>2, <1>3

LEMMA MarkPendingNumbers ==
  ASSUME TasksInv, IdsInv, TasksInv', NEW t \in Known(server), MarkPending(t)
  PROVE  IdsInv'
<1> DEFINE pending == Append(server.pending, t)
           s == [server EXCEPT !.pending = pending]
           d == [disk EXCEPT !.pending = s.pending]
<1>1. up /\ Handled("pending", Activated(s), {d}, d, {})
  BY DEF MarkPending
<1>2. /\ server \in Server /\ disk \in Disk /\ InStep(server, disk) /\ t \in Task
      /\ server.pending \in Seq(Task) /\ Listed(server) \subseteq Known(server)
  BY <1>1, Running
<1>3. pending \in Seq(Task) /\ ToSet(pending) = ToSet(server.pending) \cup {t}
  BY <1>2, ApartAppend
<1> HIDE DEF pending
<1>4. /\ s \in Server /\ s.aged = server.aged /\ s.pending = pending
      /\ s.taskid_begin = server.taskid_begin /\ s.taskid_end = server.taskid_end
  BY <1>2, <1>3 DEF Server
<1> HIDE DEF s
<1>5. /\ d.pending = pending /\ d.completed = server.completed
      /\ d.taskid_begin = disk.taskid_begin /\ d.taskid_end = disk.taskid_end
  BY <1>2, <1>4 DEF Disk, InStep
<1>6. ToSet(d.pending) \cup d.completed \subseteq Known(server)
  BY <1>2, <1>3, <1>5 DEF Listed
<1>7. SameLists(s, Activated(s))
  BY <1>4, ActivatedFields
<1> HIDE DEF d
<1>8. (up' /\ server' = Activated(s)) \/ (~up' /\ disk' = d)
  BY <1>1 DEF Handled
<1> QED BY <1>1, <1>4, <1>5, <1>6, <1>7, <1>8, SameIdsNumber DEF SameLists, Known

LEMMA CompleteNumbers ==
  ASSUME TasksInv, IdsInv, TasksInv', NEW t \in Known(server), Complete(t)
  PROVE  IdsInv'
<1> DEFINE off == Deactivated(server, t)
           pending == Tail(server.pending)
           s == [off EXCEPT !.pending = Tail(@), !.completed = @ \cup {t}]
           pend == [disk EXCEPT !.pending = s.pending]
           d == [pend EXCEPT !.completed = s.completed]
<1>1. up /\ t \in server.active /\ Handled("complete", Activated(s), {pend, d}, d, {})
  BY DEF Complete
<1>2. /\ server \in Server /\ disk \in Disk /\ InStep(server, disk) /\ t \in Task
      /\ server.pending \in Seq(Task) /\ Listed(server) \subseteq Known(server)
      /\ IsInjective(server.pending) /\ FrontIsActive(server) /\ Known(server) \subseteq Task
  BY <1>1, Running DEF InOneList
<1>3. pending \in Seq(Task) /\ ToSet(pending) \subseteq ToSet(server.pending)
  <2>1. server.pending # <<>>
    BY <1>1, <1>2 DEF FrontIsActive
  <2> QED BY <1>2, <2>1, RestOfList
<1>4. off \in Server /\ SameLists(server, off)
  BY <1>2, DeactivatedFields
<1>5. pending = Tail(server.pending)
  OBVIOUS
<1> HIDE DEF off, pending
<1>6. /\ s \in Server /\ s.aged = server.aged /\ s.pending = pending
      /\ s.completed = server.completed \cup {t}
      /\ s.taskid_begin = server.taskid_begin /\ s.taskid_end = server.taskid_end
  BY <1>2, <1>3, <1>4, <1>5 DEF Server, SameLists
<1> HIDE DEF s
<1>7. /\ pend \in Disk /\ pend.pending = pending /\ pend.completed = server.completed
      /\ pend.taskid_begin = disk.taskid_begin /\ pend.taskid_end = disk.taskid_end
  BY <1>2, <1>3, <1>6 DEF Disk, InStep
<1> HIDE DEF pend
<1>8. /\ d.pending = pending /\ d.completed = server.completed \cup {t}
      /\ d.taskid_begin = disk.taskid_begin /\ d.taskid_end = disk.taskid_end
  BY <1>6, <1>7 DEF Disk
<1> HIDE DEF d
<1>9. ToSet(pending) \cup server.completed \cup {t} \subseteq Known(server)
  BY <1>2, <1>3 DEF Listed
<1>10. SameLists(s, Activated(s))
  BY <1>6, ActivatedFields
<1>11. (up' /\ server' = Activated(s)) \/ (~up' /\ disk' \in {pend, d})
  BY <1>1 DEF Handled
<1>12. ~up' => /\ ToSet(disk'.pending) \cup disk'.completed \subseteq Known(server)
               /\ disk'.taskid_begin = disk.taskid_begin /\ disk'.taskid_end = disk.taskid_end
  BY <1>7, <1>8, <1>9, <1>11
<1> QED BY <1>1, <1>6, <1>10, <1>11, <1>12, SameIdsNumber DEF SameLists, Known

LEMMA MoveNumbers ==
  ASSUME TasksInv, IdsInv, TasksInv', NEW i \in 1 .. Len(server.pending), NEW steps \in Steps,
         Move(i, steps)
  PROVE  IdsInv'
<1> DEFINE to == MoveTo(Len(server.pending), i, steps)
           s == Moved(server, i, to)
           d == [disk EXCEPT !.pending = s.pending]
<1>1. up /\ Handled("move", Activated(s), {d}, d, {})
  BY DEF Move
<1>2. /\ server \in Server /\ disk \in Disk /\ InStep(server, disk)
      /\ FrontIsActive(server) /\ InOneList(server) /\ AtWork(server)
      /\ server.pending \in Seq(Task) /\ Listed(server) \subseteq Known(server)
  BY <1>1, Running
<1>3. to \in 1 .. Len(server.pending) + 1
  <2>1. Len(server.pending) \in Nat /\ steps \in Int
    BY <1>2, LenProperties, TasksAssumption
  <2> QED BY <2>1, MoveToPlace
<1> HIDE DEF to
<1>4. /\ Good(s) /\ Known(s) = Known(server) /\ s.completed = server.completed
      /\ ToSet(s.pending) = ToSet(server.pending)
      /\ s.taskid_begin = server.taskid_begin /\ s.taskid_end = server.taskid_end
  BY <1>2, <1>3, MovedIsGood
<1> HIDE DEF s
<1>5. /\ d.pending = s.pending /\ d.completed = server.completed
      /\ d.taskid_begin = disk.taskid_begin /\ d.taskid_end = disk.taskid_end
  BY <1>2 DEF Disk, InStep
<1> HIDE DEF d
<1>6. ToSet(d.pending) \cup d.completed \subseteq Known(server)
  BY <1>2, <1>4, <1>5 DEF Listed
<1>7. (up' /\ server' = Activated(s)) \/ (~up' /\ disk' = d)
  BY <1>1 DEF Handled
<1> QED BY <1>1, <1>4, <1>5, <1>6, <1>7, ActivatedNumbered, SameIdsNumber

\* What is found when the directories of the tasks in S have gone.
LEMMA LeftIsFound ==
  ASSUME TasksInv, up, NEW S, NEW x, LeftOf(x, S)
  PROVE  Found(x) \subseteq Known(server) \ S
<1>1. Waiting(x) = Without(server.pending, S) /\ Finished(x) = server.completed \ S
  BY Thinned DEF LeftOf
<1>2. server.pending \in Seq(Task) /\ Listed(server) \subseteq Known(server)
  BY Running
<1>3. ToSet(Without(server.pending, S)) = ToSet(server.pending) \ S
  BY <1>2, Left
<1> QED BY <1>1, <1>2, <1>3 DEF Found, Listed

LEMMA LoaderFailsNumbers ==
  ASSUME TasksInv, IdsInv, TasksInv', NoneIsOvertaken, NEW t \in Known(server), LoaderFails(t)
  PROVE  IdsInv'
<1> DEFINE s == Forgotten(server, t)
           S == {t}
           rm == [disk EXCEPT !.dirs = Without(@, S)]
           d == [rm EXCEPT !.taskid_begin = s.taskid_begin]
           partial == {rm, d}
<1>1. up /\ Handled("delete", s, partial, d, {})
  BY DEF LoaderFails
<1>2. /\ server \in Server /\ InOneList(server) /\ AtWork(server) /\ disk \in Disk
      /\ InStep(server, disk) /\ FilesFit(disk)
  BY <1>1, Running
<1>3. /\ Known(s) = Known(server) \ S /\ s.taskid_begin = Released(server, t)
      /\ s.taskid_end = server.taskid_end /\ s \in Server
  BY <1>2, ForgottenIsGood, ForgottenFields
<1>4. Numbered(Known(server), server.taskid_begin, server.taskid_end)
  BY <1>1 DEF IdsInv
<1>5. Numbered(Known(server) \ S, s.taskid_begin, server.taskid_end)
  BY <1>2, <1>3, <1>4, ForgottenIds DEF NoneIsOvertaken
<1>6. Numbered(Known(server) \ S, server.taskid_begin, server.taskid_end)
  BY <1>4, FewerNumbered
<1> HIDE DEF s, S
<1>7. Without(disk.dirs, S) \in Seq(Task) /\ ToSet(Without(disk.dirs, S)) = ToSet(disk.dirs) \ S
      /\ IsInjective(Without(disk.dirs, S))
  BY <1>2, DiskFields, Left DEF FilesFit
<1>8. /\ rm \in Disk /\ rm.dirs = Without(disk.dirs, S) /\ rm.pending = disk.pending
      /\ rm.completed = disk.completed
      /\ rm.taskid_begin = disk.taskid_begin /\ rm.taskid_end = disk.taskid_end
  BY <1>2, <1>7 DEF Disk
<1> HIDE DEF rm
<1>9. /\ d \in Disk /\ d.dirs = rm.dirs /\ d.pending = disk.pending
      /\ d.completed = disk.completed
      /\ d.taskid_begin = s.taskid_begin /\ d.taskid_end = disk.taskid_end
  BY <1>3, <1>8 DEF Disk, Server
<1> HIDE DEF d
<1>10. LeftOf(rm, S) /\ LeftOf(d, S)
  BY <1>2, <1>7, <1>8, <1>9 DEF LeftOf, FilesFit, InStep
<1>11. Found(rm) \subseteq Known(server) \ S /\ Found(d) \subseteq Known(server) \ S
  BY <1>1, <1>10, LeftIsFound
<1>12. \A x \in partial : Numbered(Found(x), x.taskid_begin, x.taskid_end)
  BY <1>2, <1>5, <1>6, <1>8, <1>9, <1>11, FewerNumbered DEF InStep
<1> HIDE DEF partial
<1> QED BY <1>1, <1>3, <1>5, <1>12, HandledNumbers

LEMMA DeleteNumbers ==
  ASSUME TasksInv, IdsInv, TasksInv', NoneIsOvertaken, NEW t \in Known(server), Delete(t)
  PROVE  IdsInv'
<1> DEFINE s == Forgotten(server, t)
           S == {t}
           rm == [disk EXCEPT !.dirs = Without(@, S)]
           id == [rm EXCEPT !.taskid_begin = s.taskid_begin]
           d == IF t \in server.completed THEN [id EXCEPT !.completed = s.completed]
                ELSE [id EXCEPT !.pending = s.pending]
           r == IF t \in server.completed THEN s ELSE Activated(s)
           partial == {rm, id, d}
<1>1. up /\ Handled("delete", r, partial, d, S)
  BY DEF Delete
<1>2. /\ server \in Server /\ InOneList(server) /\ AtWork(server) /\ disk \in Disk
      /\ InStep(server, disk) /\ FilesFit(disk) /\ server.pending \in Seq(Task)
  BY <1>1, Running
<1>3. /\ Good(s) /\ Known(s) = Known(server) \ S /\ s.taskid_begin = Released(server, t)
      /\ s.taskid_end = server.taskid_end /\ s \in Server
      /\ s.pending = Without(server.pending, S) /\ s.completed = server.completed \ S
  BY <1>2, ForgottenIsGood, ForgottenFields
<1>4. Numbered(Known(server), server.taskid_begin, server.taskid_end)
  BY <1>1 DEF IdsInv
<1>5. Numbered(Known(server) \ S, s.taskid_begin, server.taskid_end)
  BY <1>2, <1>3, <1>4, ForgottenIds DEF NoneIsOvertaken
<1>6. Numbered(Known(server) \ S, server.taskid_begin, server.taskid_end)
  BY <1>4, FewerNumbered
<1> HIDE DEF s, S
<1>7. Without(disk.dirs, S) \in Seq(Task) /\ ToSet(Without(disk.dirs, S)) = ToSet(disk.dirs) \ S
      /\ IsInjective(Without(disk.dirs, S))
  BY <1>2, DiskFields, Left DEF FilesFit
<1>8. /\ rm \in Disk /\ rm.dirs = Without(disk.dirs, S) /\ rm.pending = disk.pending
      /\ rm.completed = disk.completed
      /\ rm.taskid_begin = disk.taskid_begin /\ rm.taskid_end = disk.taskid_end
  BY <1>2, <1>7 DEF Disk
<1> HIDE DEF rm
<1>9. /\ id \in Disk /\ id.dirs = rm.dirs /\ id.pending = disk.pending
      /\ id.completed = disk.completed
      /\ id.taskid_begin = s.taskid_begin /\ id.taskid_end = disk.taskid_end
  BY <1>3, <1>8 DEF Disk, Server
<1> HIDE DEF id
<1>10. /\ d \in Disk /\ d.dirs = rm.dirs
       /\ \/ d.pending = disk.pending /\ d.completed = s.completed
          \/ d.pending = s.pending /\ d.completed = disk.completed
       /\ d.taskid_begin = s.taskid_begin /\ d.taskid_end = disk.taskid_end
  BY <1>3, <1>9 DEF Disk, Server
<1> HIDE DEF d
<1>11. IsInjective(s.pending) /\ ToSet(s.pending) \subseteq ToSet(server.pending)
  <2>1. ToSet(Without(server.pending, S)) = ToSet(server.pending) \ S
    BY <1>2, Left
  <2> QED BY <1>3, <2>1 DEF Good, InOneList
<1>12. LeftOf(rm, S) /\ LeftOf(id, S)
  BY <1>2, <1>7, <1>8, <1>9 DEF LeftOf, FilesFit, InStep
<1>13. LeftOf(d, S)
  <2>1. FilesFit(d)
    BY <1>2, <1>3, <1>7, <1>8, <1>10, <1>11 DEF FilesFit, InStep
  <2> QED BY <1>2, <1>3, <1>7, <1>8, <1>10, <2>1 DEF LeftOf, InStep
<1>14. /\ Found(rm) \subseteq Known(server) \ S /\ Found(id) \subseteq Known(server) \ S
       /\ Found(d) \subseteq Known(server) \ S
  BY <1>1, <1>12, <1>13, LeftIsFound
<1>15. \A x \in partial : Numbered(Found(x), x.taskid_begin, x.taskid_end)
  BY <1>2, <1>5, <1>6, <1>8, <1>9, <1>10, <1>14, FewerNumbered DEF InStep
<1>16. Numbered(Known(r), r.taskid_begin, r.taskid_end)
  BY <1>3, <1>5, ActivatedNumbered
<1> HIDE DEF partial, r
<1> QED BY <1>1, <1>15, <1>16, HandledNumbers

\* Ids when i tasks have been purged.
LEMMA PurgedNumbers ==
  ASSUME NEW s \in Server, InOneList(s), AtWork(s), NEW n \in 0 .. Len(s.aged), NEW i \in 0 .. n,
         Numbered(Known(s), s.taskid_begin, s.taskid_end), SameSide(Known(s), s.taskid_begin)
  PROVE  LET p == Purged(s, n)[i]
         IN Numbered(Known(p), p.taskid_begin, s.taskid_end) /\ SameSide(Known(p), p.taskid_begin)
<1> DEFINE after == Purged(s, n)
           Oldest(m) == {s.aged[k] : k \in 1 .. m}
           Fits(m) == /\ Numbered(Known(after[m]), after[m].taskid_begin, s.taskid_end)
                      /\ SameSide(Known(after[m]), after[m].taskid_begin)
           Fitting == {m \in 0 .. n : Fits(m)}
<1>1. n \in Nat /\ Len(s.aged) \in Nat /\ n <= Len(s.aged) /\ s.aged \in Seq(Task)
  BY LenProperties DEF Server
<1>2. /\ after[0] = s
      /\ \A m \in 1 .. n : after[m] = Forgotten(after[m - 1], s.aged[m])
  BY <1>1, PurgedUnfolds
<1>3. \A m \in 0 .. n : /\ Good(after[m]) /\ Known(after[m]) = Known(s) \ Oldest(m)
                        /\ after[m].taskid_end = s.taskid_end
  BY PurgedFacts, ZenonT(40)
<1>4. \A k, m \in 1 .. Len(s.aged) : s.aged[k] = s.aged[m] => k = m
  BY <1>1, Apart DEF InOneList
<1>5. \A m \in 1 .. n : s.aged[m] \in Known(s) /\ s.aged[m] \notin Oldest(m - 1)
  <2>1. SUFFICES ASSUME NEW m \in 1 .. n
                 PROVE  s.aged[m] \in Known(s) /\ s.aged[m] \notin Oldest(m - 1)
    OBVIOUS
  <2>2. m \in 1 .. Len(s.aged) /\ \A k \in 1 .. m - 1 : k \in 1 .. Len(s.aged) /\ k # m
    BY <1>1
  <2>3. s.aged[m] \in Known(s)
    BY <2>2 DEF Known, ToSet
  <2> QED BY <2>2, <2>3, <1>4
<1> HIDE DEF after, Oldest
<1>6. 0 \in Fitting
  <2>1. Fits(0)
    BY <1>2
  <2> HIDE DEF Fits
  <2> QED BY <2>1, <1>1
<1>7. ASSUME NEW m \in 1 .. n, m - 1 \in Fitting PROVE m \in Fitting
  <2> DEFINE a == after[m - 1]
             t == s.aged[m]
             f == Forgotten(a, t)
  <2>1. Fits(m - 1) /\ after[m] = f /\ m - 1 \in 0 .. n
    BY <1>1, <1>2, <1>7
  <2>2. Good(a) /\ Known(a) = Known(s) \ Oldest(m - 1) /\ a.taskid_end = s.taskid_end
    BY <1>3, <2>1
  <2>3. t \in Known(a)
    BY <1>5, <2>2
  <2>4. Numbered(Known(a), a.taskid_begin, a.taskid_end) /\ SameSide(Known(a), a.taskid_begin)
    BY <2>1, <2>2
  <2> HIDE DEF a, t, f, Fits
  <2>5. /\ Numbered(Known(a) \ {t}, Released(a, t), a.taskid_end)
        /\ SameSide(Known(a) \ {t}, Released(a, t))
    BY <2>2, <2>3, <2>4, ForgottenIds DEF Good
  <2>6. Known(f) = Known(a) \ {t} /\ f.taskid_begin = Released(a, t)
    BY <2>2, ForgottenIsGood, ForgottenFields DEF Good, f
  <2>7. Fits(m)
    BY <2>1, <2>2, <2>5, <2>6 DEF Fits
  <2> QED BY <2>7, <1>1
<1>8. Fits(i)
  <2> HIDE DEF Fitting
  <2>1. 0 .. n \subseteq Fitting
    BY <1>1, <1>6, <1>7, UpTo
  <2>2. i \in Fitting
    BY <2>1
  <2> QED BY <2>2 DEF Fitting
<1> QED BY <1>8 DEF after

LEMMA PurgeNumbers ==
  ASSUME TasksInv, IdsInv, NoneIsOvertaken, NEW n \in 1 .. Len(server.aged), Purge(n)
  PROVE  IdsInv'
<1>0. up
  BY Zenon DEF Purge
<1>2. /\ InStep(server, disk) /\ FilesFit(disk)
      /\ server \in Server /\ InOneList(server) /\ AtWork(server) /\ disk \in Disk
      /\ server.pending \in Seq(Task) /\ server.aged \in Seq(Task) /\ disk.dirs \in Seq(Task)
  BY <1>0, Running, DiskFields
<1>4. Numbered(Known(server), server.taskid_begin, server.taskid_end)
  BY <1>0 DEF IdsInv
<1> DEFINE after == Purged(server, n)
           Oldest(i) == {server.aged[k] : k \in 1 .. i}
           Files(i, j) == [disk EXCEPT !.dirs = Without(@, Oldest(i)),
                                       !.taskid_begin = after[j].taskid_begin]
           s == after[n]
           wait == Len(s.pending) # Len(server.pending)
           pend == IF wait THEN [Files(n, n) EXCEPT !.pending = s.pending] ELSE Files(n, n)
           d == [pend EXCEPT !.completed = IF s.completed # server.completed
                                           THEN s.completed ELSE @]
           r == IF wait THEN Activated(s) ELSE s
           partial == {Files(i, i - 1) : i \in 1 .. n} \cup {Files(i, i) : i \in 1 .. n}
                      \cup {pend, d}
           gone == Oldest(n)
           end == server.taskid_end
<1>1. up /\ Handled("purge", r, partial, d, gone)
  BY Zenon DEF Purge
<1>3. n \in Nat /\ n \in 0 .. n /\ n \in 0 .. Len(server.aged) /\ n \in 1 .. n
      /\ \A i \in 1 .. n : i \in 0 .. n /\ i - 1 \in 0 .. n
  BY <1>2, LenProperties
<1>5. \A i \in 0 .. n :
        /\ Good(after[i]) /\ Known(after[i]) = Known(server) \ Oldest(i)
        /\ after[i].taskid_end = end
        /\ after[i].pending = Without(server.pending, Oldest(i))
        /\ after[i].completed = server.completed \ Oldest(i)
  BY <1>2, <1>3, PurgedFacts, ZenonT(40)
<1>6. \A i \in 0 .. n : Numbered(Known(server) \ Oldest(i), after[i].taskid_begin, end)
  <2>1. \A i \in 0 .. n : Numbered(Known(after[i]), after[i].taskid_begin, end)
    BY <1>2, <1>3, <1>4, PurgedNumbers, ZenonT(40) DEF NoneIsOvertaken
  <2> QED BY <1>5, <2>1
<1>7. \A i \in 1 .. n : Oldest(i - 1) \subseteq Oldest(i)
  <2>1. \A i \in 1 .. n : 1 .. i - 1 \subseteq 1 .. i
    BY <1>3
  <2> QED BY <2>1
<1>8. gone = Oldest(n)
  OBVIOUS
<1> HIDE DEF Oldest, after, gone
<1>9. ASSUME NEW i \in 1 .. n, NEW j \in 0 .. n
      PROVE  /\ Files(i, j) \in Disk /\ LeftOf(Files(i, j), Oldest(i))
             /\ Files(i, j).taskid_begin = after[j].taskid_begin
             /\ Files(i, j).taskid_end = end
             /\ Files(i, j).pending = server.pending /\ Files(i, j).completed = server.completed
  <2> DEFINE S == Oldest(i)
             dirs == Without(disk.dirs, S)
             begin == after[j].taskid_begin
             f == [disk EXCEPT !.dirs = dirs, !.taskid_begin = begin]
  <2>1. begin \in Id
    BY <1>5 DEF Good, Server
  <2>2. dirs \in Seq(Task) /\ ToSet(dirs) = ToSet(disk.dirs) \ S /\ IsInjective(dirs)
    <3> HIDE DEF S
    <3> QED BY <1>2, Left DEF FilesFit
  <2>3. Files(i, j) = f
    OBVIOUS
  <2> HIDE DEF S, dirs, begin, Files
  <2>4. /\ f \in Disk /\ f.dirs = dirs /\ f.pending = disk.pending
        /\ f.completed = disk.completed
        /\ f.taskid_begin = begin /\ f.taskid_end = disk.taskid_end
    BY <1>2, <2>1, <2>2 DEF Disk
  <2> HIDE DEF f
  <2>5. LeftOf(f, S)
    BY <1>2, <2>2, <2>4 DEF LeftOf, FilesFit, InStep
  <2> QED BY <1>2, <2>3, <2>4, <2>5 DEF S, begin, InStep
<1>10. ASSUME NEW i \in 1 .. n, NEW j \in 0 .. n, j = i - 1 \/ j = i
       PROVE  Numbered(Found(Files(i, j)), Files(i, j).taskid_begin, Files(i, j).taskid_end)
  <2>2. /\ LeftOf(Files(i, j), Oldest(i)) /\ Files(i, j).taskid_begin = after[j].taskid_begin
        /\ Files(i, j).taskid_end = end
    <3> HIDE DEF Files
    <3> QED BY <1>9
  <2> DEFINE x == Files(i, j)
             S == Oldest(i)
  <2> HIDE DEF Files, x, S
  <2>3. Found(x) \subseteq Known(server) \ S
    BY <1>1, <2>2, LeftIsFound DEF x, S
  <2>4. Known(server) \ S \subseteq Known(server) \ Oldest(j)
    BY <1>7, <1>10 DEF S
  <2>5. Numbered(Known(server) \ Oldest(j), after[j].taskid_begin, end)
    BY <1>6
  <2>6. Found(x) \subseteq Known(server) \ Oldest(j)
    BY <2>3, <2>4
  <2>7. Numbered(Found(x), after[j].taskid_begin, end)
    BY <2>5, <2>6, FewerNumbered
  <2> QED BY <2>2, <2>7 DEF x
<1> HIDE DEF Files
<1>11. /\ Good(s) /\ Known(s) = Known(server) \ gone /\ s.taskid_end = end
       /\ s.pending = Without(server.pending, gone) /\ s.completed = server.completed \ gone
       /\ Numbered(Known(s), s.taskid_begin, end)
  BY <1>3, <1>5, <1>6, <1>8
<1>12. /\ Files(n, n) \in Disk /\ LeftOf(Files(n, n), gone)
       /\ Files(n, n).taskid_begin = s.taskid_begin /\ Files(n, n).taskid_end = end
       /\ Files(n, n).pending = server.pending /\ Files(n, n).completed = server.completed
  BY <1>3, <1>8, <1>9
<1> DEFINE f == Files(n, n)
<1> HIDE DEF s, f
<1>13. /\ s.pending \in Seq(Task) /\ s.completed \in SUBSET Task /\ IsInjective(s.pending)
       /\ ToSet(s.pending) \subseteq ToSet(server.pending)
  <2>1. ToSet(Without(server.pending, gone)) = ToSet(server.pending) \ gone
    BY <1>2, Left
  <2> QED BY <1>11, <2>1 DEF Good, Server, InOneList
<1>14. /\ pend \in Disk /\ pend.dirs = f.dirs /\ pend.pending \in {server.pending, s.pending}
       /\ pend.completed = server.completed
       /\ pend.taskid_begin = s.taskid_begin /\ pend.taskid_end = end
  <2>1. f \in Disk
    BY <1>12 DEF f
  <2>2. [f EXCEPT !.pending = s.pending] \in Disk
    BY <1>13, <2>1 DEF Disk
  <2>3. pend = IF wait THEN [f EXCEPT !.pending = s.pending] ELSE f
    BY DEF f
  <2> HIDE DEF wait, pend
  <2> QED BY <1>12, <2>1, <2>2, <2>3 DEF f, Disk
<1> HIDE DEF pend
<1>15. /\ d \in Disk /\ d.dirs = f.dirs /\ d.pending = pend.pending
       /\ d.completed = s.completed \/ d.completed = server.completed
       /\ d.taskid_begin = s.taskid_begin /\ d.taskid_end = end
  BY <1>13, <1>14 DEF Disk
<1> HIDE DEF d
<1>16. LeftOf(pend, gone) /\ LeftOf(d, gone)
  <2>1. ToSet(f.dirs) = ToSet(disk.dirs) \ gone /\ IsInjective(f.dirs)
    BY <1>12 DEF LeftOf, FilesFit, f
  <2>2. ToSet(server.pending) \cap server.completed = {} /\ IsInjective(server.pending)
    BY <1>2 DEF InOneList
  <2>3. FilesFit(pend) /\ FilesFit(d)
    BY <1>11, <1>13, <1>14, <1>15, <2>1, <2>2 DEF FilesFit
  <2> QED BY <1>11, <1>14, <1>15, <2>1, <2>3 DEF LeftOf
<1>17. Numbered(Found(pend), s.taskid_begin, end) /\ Numbered(Found(d), s.taskid_begin, end)
  <2>1. Found(pend) \subseteq Known(s) /\ Found(d) \subseteq Known(s)
    BY <1>1, <1>11, <1>16, LeftIsFound
  <2> QED BY <1>11, <2>1, FewerNumbered
<1>18. \A x \in partial : Numbered(Found(x), x.taskid_begin, x.taskid_end)
  <2>1. SUFFICES ASSUME NEW x \in partial
                 PROVE  Numbered(Found(x), x.taskid_begin, x.taskid_end)
    OBVIOUS
  <2>2. CASE x \in {pend, d}
    BY <1>14, <1>15, <1>17, <2>2
  <2>3. CASE x \notin {pend, d}
    <3>1. PICK i \in 1 .. n : x = Files(i, i - 1) \/ x = Files(i, i)
      BY <2>1, <2>3
    <3> QED BY <1>3, <1>10, <3>1
  <2> QED BY <2>2, <2>3
<1>19. Numbered(Known(r), r.taskid_begin, r.taskid_end)
  BY <1>11, ActivatedNumbered
<1> HIDE DEF partial, r
<1>20. TasksInv'
  BY PurgeFits
<1> QED BY <1>1, <1>18, <1>19, <1>20, HandledNumbers

LEMMA IdsStep ==
  ASSUME TasksInv, IdsInv, NoneIsOvertaken, [Next]_vars
  PROVE  IdsInv'
<1>1. TasksInv'
  BY TasksStep
<1>2. CASE UNCHANGED vars
  BY <1>2 DEF vars, IdsInv
<1>3. CASE Crash
  <2>1. ~up' /\ disk' = disk
    BY <1>3 DEF Crash
  <2> QED BY <2>1 DEF IdsInv
<1>4. CASE Start
  BY <1>1, <1>4, StartNumbers
<1>5. CASE \E m \in Model : NewTask(m)
  BY <1>1, <1>5, NewTaskNumbers
<1>6. CASE \E t \in Known(server) : LoaderFails(t) \/ MarkPending(t) \/ Delete(t) \/ Complete(t)
  BY <1>1, <1>6, LoaderFailsNumbers, MarkPendingNumbers, DeleteNumbers, CompleteNumbers
<1>7. CASE \E n \in 1 .. Len(server.aged) : Purge(n)
  BY <1>1, <1>7, PurgeNumbers
<1>8. CASE \E i \in 1 .. Len(server.pending) : \E steps \in Steps : Move(i, steps)
  BY <1>1, <1>8, MoveNumbers
<1>9. CASE \E p \in Peer : Connect(p) \/ ReadyToProcess(p) \/ EndProcess(p) \/ Disconnect(p)
  BY <1>1, <1>9, PeersNumber
<1> QED BY <1>2, <1>3, <1>4, <1>5, <1>6, <1>7, <1>8, <1>9 DEF Next

\* As long as tasks from before and after the ids began again are not in use together, the
\* next id is that of no task (generate_taskdir), in memory and in the files, whatever is
\* deleted, purged or cut short, and whenever the ids begin again.
THEOREM IdsAreTheirOwn == Spec => IdsAreOwn
<1>1. Init => IdsInv
  <2>1. SUFFICES ASSUME Init PROVE IdsInv
    OBVIOUS
  <2>2. ~up /\ disk = NoFiles /\ FilesFit(NoFiles)
    BY <2>1, NoServerFits DEF Init
  <2>3. Found(NoFiles) = {}
    <3> DEFINE none == <<>>
    <3>1. NoFiles.dirs = none /\ none \in Seq(Task) /\ Len(none) = 0
      BY EmptySeq DEF NoFiles
    <3> HIDE DEF none
    <3>2. ToSet(none) = {none[i] : i \in 1 .. Len(none)}
      BY <3>1 DEF ToSet
    <3>3. ToSet(NoFiles.dirs) = {}
      BY <3>1, <3>2
    <3> QED BY <2>2, <3>3, FoundIsNamed
  <2> QED BY <2>2, <2>3 DEF IdsInv, Numbered
<1>2. TasksInv /\ IdsInv /\ NoneIsOvertaken /\ [Next]_vars => IdsInv'
  BY IdsStep
<1>3. TasksInv /\ IdsInv => IdsInWindow
  <2> DEFINE Within(s) ==
        /\ \A t \in Known(s) : (t.id - s.taskid_begin) % IdSpace
                                 < (s.taskid_end - s.taskid_begin) % IdSpace
        /\ \A t, u \in Known(s) : t.id = u.id => t = u
  <2>1. SUFFICES ASSUME TasksInv, IdsInv, up PROVE Within(server) /\ Within(Recovered(disk))
    BY DEF IdsInWindow
  <2>2. ASSUME NEW s, Good(s), Numbered(Known(s), s.taskid_begin, s.taskid_end)
        PROVE  Within(s)
    <3>1. /\ s.taskid_begin \in Id /\ s.taskid_end \in Id
          /\ \A t \in Known(s) : t.id \in Id
      <4>1. s \in Server
        BY <2>2 DEF Good
      <4>2. Known(s) \subseteq Task
        BY <4>1, LenProperties DEF Server, Known, ToSet
      <4> QED BY <4>1, <4>2 DEF Server, Task
    <3> QED BY <2>2, <3>1, WindowIs DEF Numbered
  <2>3. Good(server) /\ FilesFit(disk)
    BY <2>1, Running
  <2>4. Numbered(Known(server), server.taskid_begin, server.taskid_end)
    BY <2>1 DEF IdsInv
  <2>5. /\ Good(Recovered(disk)) /\ Recovered(disk).taskid_begin = disk.taskid_begin
        /\ Recovered(disk).taskid_end = disk.taskid_end
    BY <2>3, RecoveredFields
  <2>6. Known(Recovered(disk)) = Found(disk)
    BY <2>3, RecoveredIsFound
  <2> HIDE DEF Within
  <2> QED BY <2>1, <2>2, <2>3, <2>4, <2>5, <2>6 DEF IdsInv
<1> QED BY <1>1, <1>2, <1>3, TasksInvariant, PTL DEF Spec, IdsAreOwn

=============================================================================
