------------------------- MODULE GridSearchProofs --------------------------
(***************************************************************************)
(* Lemmas about the operators of GridSearch: what numbers the levels,      *)
(* grids and likelihoods are, and what each operator does to the fields of *)
(* a search.                                                               *)
(***************************************************************************)
EXTENDS GridSearch, ListProofs

-----------------------------------------------------------------------------
(* Facts about numbers and levels.                                          *)

\* Levels are numbered from 1, the level past the last is none of them, and every
\* range of complexities that belongs to a level is one of complexities.
LEMMA LevelFacts ==
  /\ Len(LevelEnd) \in Nat \ {0}
  /\ 1 \in Level /\ Level \subseteq Nat /\ NoLevel \in Nat /\ NoLevel \notin Level
  /\ \A l \in Level : LevelEnd[l] \in Nat \ {0} /\ l < NoLevel
  /\ Complexity \subseteq Nat /\ NoComplexity \notin Complexity
  /\ \A l \in Level : LevelRange(l) \subseteq Complexity
  /\ LevelRange(1) # {}
<1>1. Len(LevelEnd) \in Nat \ {0}
  BY SearchAssumption
<1>2. 1 \in Level /\ Level \subseteq Nat /\ NoLevel \in Nat /\ NoLevel \notin Level
  BY <1>1 DEF Level, NoLevel
<1>3. \A l \in Level : LevelEnd[l] \in Nat \ {0} /\ l < NoLevel
  BY <1>1, SearchAssumption DEF Level, NoLevel
<1>4. Complexity \subseteq Nat /\ NoComplexity \notin Complexity
  BY <1>1, SearchAssumption DEF Complexity, NoComplexity
<1>5. ASSUME NEW l \in Level PROVE LevelRange(l) \subseteq Complexity
  <2>1. Len(LevelEnd) \in Level /\ l <= Len(LevelEnd) /\ l \in Nat
    BY <1>1, <1>2 DEF Level
  <2>2. LevelEnd[l] \in Nat /\ LevelEnd[Len(LevelEnd)] \in Nat
    BY <1>3, <2>1
  <2>3. LevelEnd[l] <= LevelEnd[Len(LevelEnd)]
    <3>1. CASE l = Len(LevelEnd)
      BY <3>1, <2>2
    <3>2. CASE l < Len(LevelEnd)
      <4>1. LevelEnd[l] < LevelEnd[Len(LevelEnd)]
        BY <3>2, <2>1, SearchAssumption
      <4> QED BY <4>1, <2>2
    <3> QED BY <3>1, <3>2, <2>1, <1>1
  <2>4. (IF l = 1 THEN 0 ELSE LevelEnd[l - 1]) \in Nat
    <3>1. l # 1 => l - 1 \in Level
      BY <1>1, <2>1 DEF Level
    <3> QED BY <3>1, <1>3
  <2> HIDE DEF Level
  <2> QED BY <2>2, <2>3, <2>4 DEF LevelRange, Complexity
<1>6. LevelRange(1) # {}
  <2>1. LevelEnd[1] \in Nat \ {0}
    BY <1>2, <1>3
  <2>2. 0 \in LevelRange(1)
    BY <2>1 DEF LevelRange
  <2> QED BY <2>2
<1> QED BY <1>1, <1>2, <1>3, <1>4, <1>5, <1>6

\* Every complexity belongs to a level: to the first one that ends behind it.
LEMMA EveryComplexityHasALevel ==
  ASSUME NEW x \in Complexity
  PROVE  \E l \in Level : x \in LevelRange(l)
<1> DEFINE Behind == {l \in Level : x < LevelEnd[l]}
<1>1. Behind \in SUBSET Nat /\ x \in Nat
  BY LevelFacts
<1>2. Len(LevelEnd) \in Behind
  BY LevelFacts DEF Level, Complexity
<1>3. PICK l \in Behind : \A m \in Behind : l <= m
  <2> HIDE DEF Behind
  <2> QED BY <1>1, <1>2, Least
<1>4. CASE l = 1
  BY <1>1, <1>4, LevelFacts DEF LevelRange
<1>5. CASE l # 1
  <2>1. l - 1 \in Level /\ l - 1 \notin Behind
    BY <1>3, <1>5, LevelFacts DEF Level
  <2>2. LevelEnd[l - 1] \in Nat /\ LevelEnd[l - 1] <= x /\ LevelEnd[l] \in Nat
    BY <2>1, <1>1, LevelFacts
  <2>3. x \in LevelRange(l)
    BY <2>2, <1>1, <1>5 DEF LevelRange
  <2> QED BY <2>3
<1> QED BY <1>4, <1>5

\* While some coefficient is waited for there is a next grid to shrink to.
LEMMA GridFacts ==
  /\ 0 \in Grid /\ Waiting(0) # {}
  /\ \A g \in Grid : Waiting(g) # {} => g + 1 \in Grid
<1>1. LastGrid \in Nat \ {0} /\ Waiting(LastGrid) = {}
  BY SearchAssumption
<1>2. 0 \in Grid /\ 0 \in 0 .. LastGrid - 1
  BY <1>1 DEF Grid
<1>3. Waiting(0) # {}
  BY <1>2, SearchAssumption
<1>4. ASSUME NEW g \in Grid, Waiting(g) # {} PROVE g + 1 \in Grid
  <2>1. g \in 0 .. LastGrid /\ g # LastGrid
    BY <1>1, <1>4 DEF Grid
  <2> QED BY <2>1, <1>1 DEF Grid
<1> QED BY <1>2, <1>3, <1>4

\* Likelihoods are numbers, and improving by the ratio is monotone.
LEMMA LikelihoodFacts ==
  /\ Largish \in Likelihood /\ \A pl \in Place : Value[pl] \in Likelihood
  /\ \A v \in Likelihood : v \in Int /\ Target[v] \in Int /\ Target[v] <= v
  /\ \A v, w \in Likelihood : v <= w => Target[v] <= Target[w]
<1>1. Largish \in Likelihood /\ \A pl \in Place : Value[pl] \in Likelihood
  BY DEF Likelihood
<1>2. \A v \in Likelihood : v \in Int
  BY SearchAssumption DEF Likelihood
<1>3. Target \in [Likelihood -> Int]
  BY SearchAssumption
<1>4. \A v \in Likelihood : Target[v] \in Int
  BY <1>3
<1>5. \A v, w \in Likelihood : Target[v] <= v /\ (v <= w => Target[v] <= Target[w])
  BY SearchAssumption
<1> HIDE DEF Likelihood
<1> QED BY <1>1, <1>2, <1>4, <1>5

\* Demodulating a complexity around a centre gives a place of the grid.
LEMMA PlaceOfIsAPlace ==
  ASSUME NEW s \in Search, NEW x \in Complexity
  PROVE  PlaceOf(s, x) \in Place
<1>1. s.grid \in Grid /\ s.centre \in Place
  BY DEF Search
<1>2. Demod \in [Grid -> [Place -> [Complexity -> Place]]]
  BY SearchAssumption
<1> QED BY <1>1, <1>2 DEF PlaceOf

-----------------------------------------------------------------------------
(* What the operators of GridSearch do to the fields of a search.           *)

\* What merging the accumulated complexities does to the fields of a search.
LEMMA MergedFields ==
  ASSUME NEW s \in Search
  PROVE  LET m == Merged(s) IN
         /\ m \in Search
         /\ m.am_bootstrapping = s.am_bootstrapping /\ m.e_min = s.e_min
         /\ m.e_min_complexity = s.e_min_complexity
         /\ m.grid = s.grid /\ m.centre = s.centre /\ m.level = s.level
         /\ m.remaining = s.remaining \ s.accumulated
         /\ m.accumulated = {} /\ m.visited = Struck(s)
         /\ \A x : PlaceOf(m, x) = PlaceOf(s, x)
<1> DEFINE places == {PlaceOf(s, x) : x \in s.accumulated}
           m == Merged(s)
<1>1. places \subseteq Place
  <2>1. s.accumulated \subseteq Complexity
    BY DEF Search
  <2> QED BY <2>1, PlaceOfIsAPlace
<1>2. m = [s EXCEPT !.visited = @ \cup places, !.remaining = @ \ s.accumulated,
                    !.accumulated = {}]
  BY DEF Merged
<1> HIDE DEF places
<1>3. /\ m \in Search
      /\ m.am_bootstrapping = s.am_bootstrapping /\ m.e_min = s.e_min
      /\ m.e_min_complexity = s.e_min_complexity
      /\ m.grid = s.grid /\ m.centre = s.centre /\ m.level = s.level
      /\ m.remaining = s.remaining \ s.accumulated
      /\ m.accumulated = {} /\ m.visited = s.visited \cup places
  <2> HIDE DEF m
  <2> QED BY <1>1, <1>2 DEF Search
<1>4. m.visited = Struck(s)
  BY <1>3 DEF Struck, places
<1>5. \A x : PlaceOf(m, x) = PlaceOf(s, x)
  BY <1>3 DEF PlaceOf
<1> HIDE DEF m
<1> QED BY <1>3, <1>4, <1>5 DEF m

\* What recentring does to the fields of a search.
LEMMA RecentredFields ==
  ASSUME NEW s \in Search, s.e_min_complexity # NoComplexity
  PROVE  LET r == Recentred(s) IN
         /\ r \in Search
         /\ r.am_bootstrapping = s.am_bootstrapping /\ r.e_min = s.e_min
         /\ r.e_min_complexity = NoComplexity /\ r.grid = s.grid
         /\ r.centre = PlaceOf(s, s.e_min_complexity) /\ r.level = 1
         /\ r.accumulated = s.accumulated /\ r.visited = s.visited
         /\ r.remaining = Unvisited(r, 1)
<1> DEFINE b == [s EXCEPT !.centre = PlaceOf(s, s.e_min_complexity),
                          !.e_min_complexity = NoComplexity, !.level = 1]
           r == Recentred(s)
<1>1. PlaceOf(s, s.e_min_complexity) \in Place
  <2>1. s.e_min_complexity \in Complexity
    BY DEF Search
  <2> QED BY <2>1, PlaceOfIsAPlace
<1>2. /\ b \in Search
      /\ b.am_bootstrapping = s.am_bootstrapping /\ b.e_min = s.e_min
      /\ b.e_min_complexity = NoComplexity /\ b.grid = s.grid
      /\ b.centre = PlaceOf(s, s.e_min_complexity) /\ b.level = 1
      /\ b.accumulated = s.accumulated /\ b.visited = s.visited
  BY <1>1, LevelFacts DEF Search
<1>3. Unvisited(b, 1) \in SUBSET Complexity
  BY LevelFacts DEF Unvisited
<1>4. r = [b EXCEPT !.remaining = Unvisited(b, 1)]
  BY DEF Recentred
<1> HIDE DEF b, r
<1>5. /\ r \in Search /\ r.remaining = Unvisited(b, 1)
      /\ r.am_bootstrapping = b.am_bootstrapping /\ r.e_min = b.e_min
      /\ r.e_min_complexity = b.e_min_complexity /\ r.grid = b.grid
      /\ r.centre = b.centre /\ r.level = b.level
      /\ r.accumulated = b.accumulated /\ r.visited = b.visited
  BY <1>2, <1>3, <1>4 DEF Search
<1>6. Unvisited(b, 1) = Unvisited(r, 1)
  BY <1>5 DEF Unvisited, PlaceOf
<1> QED BY <1>2, <1>5, <1>6 DEF r

\* FirstOfPlace keeps a complexity of every place, so a level that has something
\* to do still has something to do when its duplicates are culled.
LEMMA FirstOfPlaceCovers ==
  ASSUME NEW s, NEW X \in SUBSET Complexity
  PROVE  /\ FirstOfPlace(s, X) \subseteq X
         /\ \A x \in X : \E y \in FirstOfPlace(s, X) : PlaceOf(s, x) = PlaceOf(s, y)
<1>1. FirstOfPlace(s, X) \subseteq X
  BY DEF FirstOfPlace
<1>2. ASSUME NEW x \in X
      PROVE  \E y \in FirstOfPlace(s, X) : PlaceOf(s, x) = PlaceOf(s, y)
  <2> DEFINE Same == {y \in X : PlaceOf(s, y) = PlaceOf(s, x)}
  <2>1. Same \in SUBSET Nat /\ X \subseteq Nat
    BY LevelFacts
  <2>2. x \in Same
    OBVIOUS
  <2>3. PICK y \in Same : \A z \in Same : y <= z
    <3> HIDE DEF Same
    <3> QED BY <2>1, <2>2, Least
  <2>4. \A z \in X : z < y => PlaceOf(s, z) # PlaceOf(s, y)
    <3>1. SUFFICES ASSUME NEW z \in X, z < y, PlaceOf(s, z) = PlaceOf(s, y)
                   PROVE  FALSE
      OBVIOUS
    <3>2. z \in Same /\ y \in Nat /\ z \in Nat
      BY <3>1, <2>1, <2>3
    <3> QED BY <3>1, <3>2, <2>3
  <2> QED BY <2>3, <2>4 DEF FirstOfPlace
<1> QED BY <1>1, <1>2

\* Opening a level leaves out only what leads to a visited place, or to the
\* place of another complexity that is kept.
LEMMA OpenedCovers ==
  ASSUME NEW s, NEW l \in Level
  PROVE  /\ Unvisited(s, l) \subseteq Complexity
         /\ Opened(s, l) \subseteq Complexity
         /\ \A x \in LevelRange(l) :
              \/ PlaceOf(s, x) \in s.visited
              \/ \E y \in Opened(s, l) : PlaceOf(s, x) = PlaceOf(s, y)
<1>1. Unvisited(s, l) \in SUBSET Complexity
  BY LevelFacts DEF Unvisited
<1>2. \A x \in LevelRange(l) : PlaceOf(s, x) \in s.visited \/ x \in Unvisited(s, l)
  BY DEF Unvisited
<1>3. /\ FirstOfPlace(s, Unvisited(s, l)) \subseteq Unvisited(s, l)
      /\ \A x \in Unvisited(s, l) : \E y \in FirstOfPlace(s, Unvisited(s, l)) :
           PlaceOf(s, x) = PlaceOf(s, y)
  BY <1>1, FirstOfPlaceCovers
<1> QED BY <1>1, <1>2, <1>3 DEF Opened

\* A bootstrapping report, whatever value it has, makes its place the centre.
LEMMA BootstrappedSearch ==
  ASSUME NEW s \in Search, NEW pl \in Place, NEW v \in Likelihood
  PROVE  LET b == Bootstrapped(s, pl, v) IN
         /\ b \in Search /\ b.am_bootstrapping = FALSE
         /\ b.grid = s.grid /\ b.centre = pl
<1> DEFINE c == [s EXCEPT !.am_bootstrapping = FALSE, !.e_min = v,
                          !.centre = pl, !.visited = {pl}]
           rem == IF Waiting(c.grid) = Coefficient THEN Unvisited(c, 1)
                  ELSE FirstOfPlace(c, Unvisited(c, 1))
           b == Bootstrapped(s, pl, v)
<1>1. c \in Search /\ c.am_bootstrapping = FALSE /\ c.grid = s.grid /\ c.centre = pl
  BY DEF Search
<1>2. rem \in SUBSET Complexity
  <2>1. Unvisited(c, 1) \in SUBSET Complexity
    BY LevelFacts DEF Unvisited
  <2> QED BY <2>1 DEF FirstOfPlace
<1>3. b = [c EXCEPT !.remaining = rem]
  BY DEF Bootstrapped
<1> HIDE DEF c, rem, b
<1> QED BY <1>1, <1>2, <1>3 DEF b, Search

\* What a bootstrapping report does to the fields of a search.
LEMMA BootstrappedFields ==
  ASSUME NEW s \in Search, NEW pl \in Place
  PROVE  LET b == Bootstrapped(s, pl, Value[pl]) IN
         /\ b \in Search
         /\ b.am_bootstrapping = FALSE /\ b.e_min = Value[pl]
         /\ b.e_min_complexity = s.e_min_complexity /\ b.grid = s.grid
         /\ b.centre = pl /\ b.level = s.level
         /\ b.accumulated = s.accumulated /\ b.visited = {pl}
         /\ b.remaining = IF Waiting(b.grid) = Coefficient THEN Unvisited(b, 1)
                          ELSE FirstOfPlace(b, Unvisited(b, 1))
<1> DEFINE c == [s EXCEPT !.am_bootstrapping = FALSE, !.e_min = Value[pl],
                          !.centre = pl, !.visited = {pl}]
           rem(z) == IF Waiting(z.grid) = Coefficient THEN Unvisited(z, 1)
                     ELSE FirstOfPlace(z, Unvisited(z, 1))
           b == Bootstrapped(s, pl, Value[pl])
<1>1. Value[pl] \in Likelihood
  BY LikelihoodFacts
<1>2. /\ c \in Search
      /\ c.am_bootstrapping = FALSE /\ c.e_min = Value[pl]
      /\ c.e_min_complexity = s.e_min_complexity /\ c.grid = s.grid
      /\ c.centre = pl /\ c.level = s.level
      /\ c.accumulated = s.accumulated /\ c.visited = {pl}
  BY <1>1 DEF Search
<1>3. rem(c) \in SUBSET Complexity
  <2>1. Unvisited(c, 1) \in SUBSET Complexity
    BY LevelFacts DEF Unvisited
  <2> QED BY <2>1 DEF FirstOfPlace
<1>4. b = [c EXCEPT !.remaining = rem(c)]
  BY DEF Bootstrapped
<1> HIDE DEF c, b, rem
<1>5. /\ b \in Search /\ b.remaining = rem(c)
      /\ b.am_bootstrapping = c.am_bootstrapping /\ b.e_min = c.e_min
      /\ b.e_min_complexity = c.e_min_complexity /\ b.grid = c.grid
      /\ b.centre = c.centre /\ b.level = c.level
      /\ b.accumulated = c.accumulated /\ b.visited = c.visited
  BY <1>2, <1>3, <1>4 DEF Search
<1>6. Unvisited(b, 1) = Unvisited(c, 1)
  BY <1>5 DEF Unvisited, PlaceOf
<1>7. FirstOfPlace(b, Unvisited(b, 1)) = FirstOfPlace(c, Unvisited(c, 1))
  BY <1>5, <1>6 DEF FirstOfPlace, PlaceOf
<1>8. rem(b) = rem(c)
  BY <1>5, <1>6, <1>7 DEF rem
<1> QED BY <1>2, <1>5, <1>8 DEF b, rem

\* What a peer's report does to the fields of a search.
LEMMA ReportedFields ==
  ASSUME NEW s \in Search, NEW done \in SUBSET Complexity,
         NEW x \in Complexity \cup {NoComplexity}, NEW v \in Likelihood
  PROVE  LET r == Reported(s, v, x, done) IN
         /\ r \in Search
         /\ r.am_bootstrapping = s.am_bootstrapping
         /\ r.grid = s.grid /\ r.centre = s.centre /\ r.level = s.level
         /\ r.remaining = s.remaining /\ r.accumulated = s.accumulated \cup done
         /\ r.visited = s.visited /\ r.e_min <= s.e_min
         /\ r.e_min_complexity = IF x # NoComplexity /\ v < s.e_min
                                 THEN x ELSE s.e_min_complexity
<1> DEFINE a == [s EXCEPT !.accumulated = @ \cup done]
           r == Reported(s, v, x, done)
<1>1. s.e_min \in Int /\ v \in Int
  BY LikelihoodFacts DEF Search
<1>2. /\ a \in Search
      /\ a.am_bootstrapping = s.am_bootstrapping /\ a.e_min = s.e_min
      /\ a.e_min_complexity = s.e_min_complexity
      /\ a.grid = s.grid /\ a.centre = s.centre /\ a.level = s.level
      /\ a.remaining = s.remaining /\ a.accumulated = s.accumulated \cup done
      /\ a.visited = s.visited
  BY DEF Search
<1>3. CASE x # NoComplexity /\ v < s.e_min
  <2>1. r = [a EXCEPT !.e_min = v, !.e_min_complexity = x]
    BY <1>3 DEF Reported
  <2> HIDE DEF a, r
  <2>2. /\ r \in Search /\ r.e_min = v /\ r.e_min_complexity = x
        /\ r.am_bootstrapping = a.am_bootstrapping
        /\ r.grid = a.grid /\ r.centre = a.centre /\ r.level = a.level
        /\ r.remaining = a.remaining /\ r.accumulated = a.accumulated
        /\ r.visited = a.visited
    BY <2>1, <1>2 DEF Search
  <2>3. v <= s.e_min
    BY <1>1, <1>3
  <2> QED BY <1>2, <1>3, <2>2, <2>3 DEF r
<1>4. CASE ~ (x # NoComplexity /\ v < s.e_min)
  <2>1. r = a
    BY <1>4 DEF Reported
  <2> HIDE DEF a, r
  <2>2. s.e_min <= s.e_min
    BY <1>1
  <2> QED BY <2>1, <2>2, <1>2, <1>4 DEF r
<1> QED BY <1>3, <1>4

\* A report lowers the least value when it says of a better combo.
LEMMA ReportedMinimum ==
  ASSUME NEW s \in Search, NEW done \in SUBSET Complexity,
         NEW x \in Complexity \cup {NoComplexity}, NEW v \in Likelihood
  PROVE  Reported(s, v, x, done).e_min = IF x # NoComplexity /\ v < s.e_min THEN v ELSE s.e_min
<1> DEFINE a == [s EXCEPT !.accumulated = @ \cup done]
           r == Reported(s, v, x, done)
<1>1. a \in Search /\ a.e_min = s.e_min
  BY DEF Search
<1>2. CASE x # NoComplexity /\ v < s.e_min
  <2>1. r = [a EXCEPT !.e_min = v, !.e_min_complexity = x]
    BY <1>2 DEF Reported
  <2> HIDE DEF a
  <2> QED BY <1>1, <1>2, <2>1 DEF Search
<1>3. CASE ~ (x # NoComplexity /\ v < s.e_min)
  <2>1. r = a
    BY <1>3 DEF Reported
  <2> HIDE DEF a
  <2> QED BY <1>1, <1>3, <2>1
<1> QED BY <1>2, <1>3

\* A report moves no grid.
LEMMA ReportedGrid ==
  ASSUME NEW s \in Search, NEW done, NEW x, NEW v
  PROVE  Reported(s, v, x, done).grid = s.grid
BY DEF Reported, Search

\* Exhausting a level leads to the next one with something to do, and all the
\* levels that are passed over have nothing to do.
LEMMA AdvancedFields ==
  ASSUME NEW s \in Search, s.remaining = {}
  PROVE  LET a == Advanced(s) IN
         /\ a \in Search
         /\ a.am_bootstrapping = s.am_bootstrapping /\ a.e_min = s.e_min
         /\ a.e_min_complexity = s.e_min_complexity
         /\ a.grid = s.grid /\ a.centre = s.centre
         /\ a.accumulated = s.accumulated /\ a.visited = s.visited
         /\ \/ a.level = NoLevel /\ a.remaining = {}
            \/ a.level \in Level /\ a.level > s.level /\ a.remaining = Opened(s, a.level)
         /\ \A l \in Level : l > s.level /\ l < a.level => Opened(s, l) = {}
<1> DEFINE open == {l \in Level : l > s.level /\ Opened(s, l) # {}}
           a == Advanced(s)
<1>1. Level \subseteq Nat /\ s.level \in Nat
  BY LevelFacts DEF Search
<1>2. CASE open = {}
  <2>1. a = [s EXCEPT !.level = NoLevel]
    BY <1>2 DEF Advanced
  <2>2. \A l \in Level : l > s.level => Opened(s, l) = {}
    BY <1>2
  <2> HIDE DEF a, open
  <2>3. /\ a \in Search /\ a.level = NoLevel /\ a.remaining = s.remaining
        /\ a.am_bootstrapping = s.am_bootstrapping /\ a.e_min = s.e_min
        /\ a.e_min_complexity = s.e_min_complexity
        /\ a.grid = s.grid /\ a.centre = s.centre
        /\ a.accumulated = s.accumulated /\ a.visited = s.visited
    BY <2>1 DEF Search
  <2> QED BY <2>2, <2>3 DEF a
<1>3. CASE open # {}
  <2> DEFINE l == CHOOSE m \in open : \A n \in open : m <= n
  <2>1. a = [s EXCEPT !.level = l, !.remaining = Opened(s, l)]
    BY <1>3 DEF Advanced
  <2>2. l \in open /\ \A n \in open : l <= n
    <3>1. open \in SUBSET Nat
      BY <1>1
    <3>2. \E m \in open : \A n \in open : m <= n
      <4> HIDE DEF open
      <4> QED BY <3>1, <1>3, Least
    <3> HIDE DEF open
    <3> QED BY <3>2
  <2>3. l \in Level /\ l > s.level /\ Opened(s, l) \subseteq Complexity
    BY <2>2, OpenedCovers
  <2>4. \A k \in Level : k > s.level /\ k < l => Opened(s, k) = {}
    <3>1. SUFFICES ASSUME NEW k \in Level, k > s.level, k < l, Opened(s, k) # {}
                   PROVE  FALSE
      OBVIOUS
    <3>2. k \in open
      BY <3>1
    <3>3. l <= k /\ l \in Nat /\ k \in Nat
      BY <3>2, <2>2, <2>3, <1>1
    <3> HIDE DEF l
    <3> QED BY <3>1, <3>3
  <2> HIDE DEF a, open, l
  <2>5. /\ a \in Search /\ a.level = l /\ a.remaining = Opened(s, l)
        /\ a.am_bootstrapping = s.am_bootstrapping /\ a.e_min = s.e_min
        /\ a.e_min_complexity = s.e_min_complexity
        /\ a.grid = s.grid /\ a.centre = s.centre
        /\ a.accumulated = s.accumulated /\ a.visited = s.visited
    BY <2>1, <2>3 DEF Search
  <2> QED BY <2>3, <2>4, <2>5 DEF a
<1> QED BY <1>2, <1>3

\* What a shrink does to the fields of a search.
LEMMA ShrunkFields ==
  ASSUME NEW s \in Search, Waiting(s.grid) # {}
  PROVE  LET z == Shrunk(s) IN
         /\ z \in Search
         /\ z.am_bootstrapping = TRUE /\ z.grid = s.grid + 1 /\ z.centre = Origin
         /\ z.e_min_complexity = s.e_min_complexity /\ z.accumulated = s.accumulated
         /\ Waiting(z.grid) # {} =>
              z.level = 1 /\ z.remaining = LevelRange(1) /\ z.visited = {}
<1> DEFINE y == [s EXCEPT !.am_bootstrapping = TRUE, !.grid = @ + 1, !.centre = Origin]
           z == Shrunk(s)
<1>1. s.grid + 1 \in Grid
  BY GridFacts DEF Search
<1>2. Origin \in Place /\ Largish \in Likelihood
  BY SearchAssumption, LikelihoodFacts
<1>3. /\ y \in Search
      /\ y.am_bootstrapping = TRUE /\ y.grid = s.grid + 1 /\ y.centre = Origin
      /\ y.e_min_complexity = s.e_min_complexity /\ y.accumulated = s.accumulated
  BY <1>1, <1>2 DEF Search
<1>4. CASE Waiting(y.grid) = {}
  <2>1. z = y
    BY <1>4 DEF Shrunk
  <2> HIDE DEF y, z
  <2> QED BY <2>1, <1>3, <1>4 DEF z
<1>5. CASE Waiting(y.grid) # {}
  <2>1. z = [y EXCEPT !.e_min = Largish, !.level = 1, !.remaining = LevelRange(1),
                      !.visited = {}]
    BY <1>5 DEF Shrunk
  <2>2. 1 \in Level /\ LevelRange(1) \in SUBSET Complexity
    BY LevelFacts
  <2> HIDE DEF y, z
  <2>3. /\ z \in Search /\ z.level = 1 /\ z.remaining = LevelRange(1) /\ z.visited = {}
        /\ z.am_bootstrapping = y.am_bootstrapping /\ z.grid = y.grid
        /\ z.centre = y.centre /\ z.e_min_complexity = y.e_min_complexity
        /\ z.accumulated = y.accumulated
    <3> HIDE DEF Level
    <3> QED BY <2>1, <2>2, <1>2, <1>3 DEF Search
  <2> QED BY <2>3, <1>3 DEF z
<1> QED BY <1>4, <1>5

\* A synced search comes back from disk as it was.
LEMMA LoadedIsSaved ==
  ASSUME NEW s \in Search, Synced(s)
  PROVE  Saved(s) \in Image /\ Loaded(Saved(s)) = s
<1>1. Saved(s) \in Image
  BY DEF Saved, Search, Image
<1>2. Loaded(Saved(s)) = s
  BY DEF Loaded, Saved, Search, Synced
<1> QED BY <1>1, <1>2

-----------------------------------------------------------------------------
(* What makes a search a sound one: what it looks like while it is          *)
(* bootstrapping and while it is not, that its best find is among what is   *)
(* still to be merged and has the value that it is remembered with, that    *)
(* what was opened is covered, and that nothing was struck off unseen.  A   *)
(* good search has found the best of what it has struck off, besides.       *)

Phase(s) ==
  /\ s.am_bootstrapping => Synced(s)
  /\ s.am_bootstrapping /\ Waiting(s.grid) # {} =>
       s.level = 1 /\ s.visited = {} /\ s.remaining = LevelRange(1)
  /\ ~s.am_bootstrapping =>
       Waiting(s.grid) # {} /\ s.level # NoLevel /\ s.centre \in s.visited

FindIsKnown(s) ==
  ~s.am_bootstrapping =>
    IF s.e_min_complexity = NoComplexity THEN s.e_min = Value[s.centre]
    ELSE /\ s.e_min_complexity \in s.accumulated
         /\ s.e_min = Value[PlaceOf(s, s.e_min_complexity)]

Sound(s, ev) ==
  /\ s \in Search
  /\ Phase(s)
  /\ FindIsKnown(s)
  /\ CoverageOf(s)
  /\ Waiting(s.grid) # {} => \A pl \in Struck(s) : <<s.grid, pl>> \in ev

Good(s, ev) == Sound(s, ev) /\ BestOf(s, Struck(s))

-----------------------------------------------------------------------------
(* Each step of the search leads from a sound search to a sound one, and    *)
(* from a good one to a good one.                                           *)

\* A task that starts afresh has a good search.
LEMMA FreshIsGood == ASSUME NEW ev PROVE Good(FreshSearch, ev) /\ Synced(FreshSearch)
<1>1. /\ FreshSearch \in Search
      /\ FreshSearch.am_bootstrapping /\ FreshSearch.level = 1
      /\ FreshSearch.visited = {} /\ FreshSearch.remaining = LevelRange(1)
      /\ FreshSearch.accumulated = {} /\ FreshSearch.e_min_complexity = NoComplexity
  <2>1. 1 \in Level /\ LevelRange(1) \in SUBSET Complexity /\ 0 \in Grid
        /\ Origin \in Place /\ Largish \in Likelihood
    BY LevelFacts, GridFacts, SearchAssumption, LikelihoodFacts
  <2> HIDE DEF Level, Grid
  <2> QED BY <2>1 DEF FreshSearch, Search
<1>2. Phase(FreshSearch)
  BY <1>1, LevelFacts DEF Phase, Synced
<1>3. FindIsKnown(FreshSearch) /\ CoverageOf(FreshSearch)
      /\ BestOf(FreshSearch, Struck(FreshSearch))
  BY <1>1 DEF FindIsKnown, CoverageOf, BestOf
<1>4. Struck(FreshSearch) = {}
  BY <1>1 DEF Struck
<1>5. Synced(FreshSearch)
  BY <1>1 DEF Synced
<1> QED BY <1>1, <1>2, <1>3, <1>4, <1>5 DEF Sound, Good

\* Evaluating more places spoils no search.
LEMMA GoodWithMoreEvaluated ==
  ASSUME NEW s, NEW ev, NEW more, ev \subseteq more
  PROVE  /\ Sound(s, ev) => Sound(s, more)
         /\ Good(s, ev) => Good(s, more)
BY DEF Sound, Good

\* An accepted location keeps the search good: level 1 is covered around it.
LEMMA GoodBootstrapped ==
  ASSUME NEW s, NEW ev, Sound(s, ev), s.am_bootstrapping, Waiting(s.grid) # {},
         NEW pl \in Place, <<s.grid, pl>> \in ev
  PROVE  Good(Bootstrapped(s, pl, Value[pl]), ev)
<1> DEFINE b == Bootstrapped(s, pl, Value[pl])
<1>1. s \in Search /\ s.level = 1 /\ s.e_min_complexity = NoComplexity /\ s.accumulated = {}
  BY DEF Sound, Phase, Synced
<1>2. /\ b \in Search
      /\ b.am_bootstrapping = FALSE /\ b.e_min = Value[pl]
      /\ b.e_min_complexity = NoComplexity /\ b.grid = s.grid
      /\ b.centre = pl /\ b.level = 1
      /\ b.accumulated = {} /\ b.visited = {pl}
      /\ b.remaining = IF Waiting(b.grid) = Coefficient THEN Unvisited(b, 1)
                       ELSE FirstOfPlace(b, Unvisited(b, 1))
  <2>1. /\ b \in Search
        /\ b.am_bootstrapping = FALSE /\ b.e_min = Value[pl]
        /\ b.e_min_complexity = s.e_min_complexity /\ b.grid = s.grid
        /\ b.centre = pl /\ b.level = s.level
        /\ b.accumulated = s.accumulated /\ b.visited = {pl}
        /\ b.remaining = IF Waiting(b.grid) = Coefficient THEN Unvisited(b, 1)
                         ELSE FirstOfPlace(b, Unvisited(b, 1))
    BY <1>1, BootstrappedFields, Zenon
  <2> HIDE DEF b
  <2> QED BY <1>1, <2>1
<1> HIDE DEF b
<1>3. Struck(b) = {pl}
  BY <1>2 DEF Struck
<1>4. Phase(b) /\ FindIsKnown(b)
  BY <1>2, LevelFacts DEF Phase, FindIsKnown
<1>5. BestOf(b, Struck(b))
  <2>1. Value[pl] \in Int /\ Target[Value[pl]] \in Int /\ Target[Value[pl]] <= Value[pl]
    BY LikelihoodFacts
  <2> QED BY <2>1, <1>2, <1>3 DEF BestOf
<1>6. CoverageOf(b)
  <2>1. SUFFICES ASSUME NEW l \in Level, l <= b.level, NEW x \in LevelRange(l),
                        PlaceOf(b, x) \notin b.visited
                 PROVE  \E y \in b.remaining : PlaceOf(b, x) = PlaceOf(b, y)
    BY DEF CoverageOf
  <2>2. l = 1
    BY <2>1, <1>2, LevelFacts DEF Level
  <2>3. x \in Unvisited(b, 1)
    BY <2>1, <2>2 DEF Unvisited
  <2>4. Unvisited(b, 1) \in SUBSET Complexity
    BY LevelFacts DEF Unvisited
  <2>5. \E y \in FirstOfPlace(b, Unvisited(b, 1)) : PlaceOf(b, x) = PlaceOf(b, y)
    BY <2>3, <2>4, FirstOfPlaceCovers
  <2> QED BY <1>2, <2>3, <2>5
<1> QED BY <1>2, <1>3, <1>4, <1>5, <1>6 DEF Sound, Good, b

\* A report keeps the search good, if it reports what was evaluated and no
\* reported place beats the best find beyond the improvement ratio.
LEMMA SoundReported ==
  ASSUME NEW s, NEW ev, Sound(s, ev), ~s.am_bootstrapping,
         NEW done \in SUBSET Complexity, NEW x \in done \cup {NoComplexity},
         NEW v \in Likelihood, x # NoComplexity => v = Value[PlaceOf(s, x)],
         \A y \in done : PlaceOf(s, y) \in s.visited \/ <<s.grid, PlaceOf(s, y)>> \in ev
  PROVE  Sound(Reported(s, v, x, done), ev)
<1> DEFINE r == Reported(s, v, x, done)
<1>1. s \in Search /\ Waiting(s.grid) # {} /\ s.level # NoLevel /\ s.centre \in s.visited
  BY DEF Sound, Phase
<1>2. /\ r \in Search
      /\ r.am_bootstrapping = s.am_bootstrapping
      /\ r.grid = s.grid /\ r.centre = s.centre /\ r.level = s.level
      /\ r.remaining = s.remaining /\ r.accumulated = s.accumulated \cup done
      /\ r.visited = s.visited
      /\ r.e_min_complexity = IF x # NoComplexity /\ v < s.e_min
                              THEN x ELSE s.e_min_complexity
      /\ r.e_min = IF x # NoComplexity /\ v < s.e_min THEN v ELSE s.e_min
  <2>1. x \in Complexity \cup {NoComplexity}
    OBVIOUS
  <2> HIDE DEF r
  <2>2. r = Reported(s, v, x, done)
    BY DEF r
  <2>3. /\ r \in Search
        /\ r.am_bootstrapping = s.am_bootstrapping
        /\ r.grid = s.grid /\ r.centre = s.centre /\ r.level = s.level
        /\ r.remaining = s.remaining /\ r.accumulated = s.accumulated \cup done
        /\ r.visited = s.visited
        /\ r.e_min_complexity = IF x # NoComplexity /\ v < s.e_min
                                THEN x ELSE s.e_min_complexity
    BY <1>1, <2>1, <2>2, ReportedFields
  <2>4. r.e_min = IF x # NoComplexity /\ v < s.e_min THEN v ELSE s.e_min
    BY <1>1, <2>1, <2>2, ReportedMinimum
  <2> QED BY ONLY <2>3, <2>4
<1> HIDE DEF r
<1>3. \A y : PlaceOf(r, y) = PlaceOf(s, y)
  BY <1>2 DEF PlaceOf
<1>4. Struck(r) = Struck(s) \cup {PlaceOf(s, y) : y \in done}
  BY <1>2, <1>3 DEF Struck
<1>5. Phase(r)
  BY <1>1, <1>2 DEF Phase
<1>6. FindIsKnown(r)
  <2>1. CASE x # NoComplexity /\ v < s.e_min
    BY <2>1, <1>2, <1>3 DEF FindIsKnown
  <2>2. CASE ~ (x # NoComplexity /\ v < s.e_min)
    BY <2>2, <1>2, <1>3 DEF FindIsKnown, Sound
  <2> QED BY <2>1, <2>2
<1>7. CoverageOf(r)
  BY <1>2, <1>3 DEF CoverageOf, Sound
<1>8. \A pl \in Struck(r) : <<r.grid, pl>> \in ev
  <2>1. \A pl \in Struck(s) : <<s.grid, pl>> \in ev
    BY <1>1 DEF Sound
  <2>2. \A y \in done : <<s.grid, PlaceOf(s, y)>> \in ev
    BY <2>1 DEF Struck
  <2> QED BY <2>1, <2>2, <1>2, <1>4
<1> QED BY <1>2, <1>5, <1>6, <1>7, <1>8 DEF Sound, r

\* It keeps it good, too, if no reported place beats the best find beyond the
\* improvement ratio.
LEMMA GoodReported ==
  ASSUME NEW s, NEW ev, Good(s, ev), ~s.am_bootstrapping,
         NEW done \in SUBSET Complexity, NEW x \in done \cup {NoComplexity},
         NEW v \in Likelihood, x # NoComplexity => v = Value[PlaceOf(s, x)],
         \A y \in done : PlaceOf(s, y) \in s.visited \/ <<s.grid, PlaceOf(s, y)>> \in ev,
         \A y \in done : Value[PlaceOf(s, y)] >= Target[Reported(s, v, x, done).e_min]
  PROVE  Good(Reported(s, v, x, done), ev)
<1> DEFINE r == Reported(s, v, x, done)
<1>1. s \in Search
  BY DEF Good, Sound
<1>2. /\ r \in Search
      /\ r.am_bootstrapping = s.am_bootstrapping
      /\ r.grid = s.grid /\ r.centre = s.centre /\ r.visited = s.visited
      /\ r.accumulated = s.accumulated \cup done /\ r.e_min <= s.e_min
  <2>1. /\ x \in Complexity \cup {NoComplexity} /\ done \in SUBSET Complexity
        /\ v \in Likelihood
    OBVIOUS
  <2> HIDE DEF r
  <2>2. r = Reported(s, v, x, done)
    BY DEF r
  <2>3. /\ r \in Search
        /\ r.am_bootstrapping = s.am_bootstrapping
        /\ r.grid = s.grid /\ r.centre = s.centre /\ r.level = s.level
        /\ r.remaining = s.remaining /\ r.accumulated = s.accumulated \cup done
        /\ r.visited = s.visited
        /\ r.e_min_complexity = IF x # NoComplexity /\ v < s.e_min
                                THEN x ELSE s.e_min_complexity
    BY <1>1, <2>1, <2>2, ReportedFields
  <2>4. r.e_min = IF x # NoComplexity /\ v < s.e_min THEN v ELSE s.e_min
    BY <1>1, <2>1, <2>2, ReportedMinimum
  <2>5. s.e_min \in Int /\ v \in Int
    BY <1>1, LikelihoodFacts DEF Search
  <2> QED BY ONLY <2>3, <2>4, <2>5
<1>3. \A y \in done : Value[PlaceOf(s, y)] >= Target[r.e_min]
  OBVIOUS
<1>4. Sound(r, ev)
  BY SoundReported DEF Good
<1> HIDE DEF r
<1>5. Struck(r) = Struck(s) \cup {PlaceOf(s, y) : y \in done}
  BY <1>2 DEF Struck, PlaceOf
<1>6. BestOf(r, Struck(r))
  <2>1. s.e_min \in Likelihood /\ r.e_min \in Likelihood
    BY <1>1, <1>2 DEF Search
  <2>2. Target[r.e_min] <= Target[s.e_min] /\ Target[r.e_min] \in Int /\ Target[s.e_min] \in Int
    BY <2>1, <1>2, LikelihoodFacts
  <2>3. ASSUME NEW pl \in Struck(s) PROVE Value[pl] >= Target[r.e_min]
    <3>1. Value[pl] >= Target[s.e_min]
      BY DEF Good, BestOf
    <3>2. pl \in Place
      BY <1>1, PlaceOfIsAPlace DEF Struck, Search
    <3>3. Value[pl] \in Int
      BY <3>2, LikelihoodFacts
    <3> QED BY <3>1, <3>3, <2>2
  <2> QED BY <2>3, <1>3, <1>5 DEF BestOf
<1> QED BY <1>4, <1>6 DEF Good, r

\* Merging keeps the search sound, and good: a complexity is only done with when its place
\* is visited.
LEMMA GoodMerged ==
  ASSUME NEW s, NEW ev, Sound(s, ev), s.e_min_complexity = NoComplexity
  PROVE  /\ Sound(Merged(s), ev) /\ Synced(Merged(s))
         /\ Good(s, ev) => Good(Merged(s), ev)
<1> DEFINE m == Merged(s)
<1>1. s \in Search
  BY DEF Sound
<1>2. /\ m \in Search
      /\ m.am_bootstrapping = s.am_bootstrapping /\ m.e_min = s.e_min
      /\ m.e_min_complexity = s.e_min_complexity
      /\ m.grid = s.grid /\ m.centre = s.centre /\ m.level = s.level
      /\ m.remaining = s.remaining \ s.accumulated
      /\ m.accumulated = {} /\ m.visited = Struck(s)
      /\ \A x : PlaceOf(m, x) = PlaceOf(s, x)
  BY <1>1, MergedFields
<1> HIDE DEF m
<1>3. Struck(m) = Struck(s)
  BY <1>2 DEF Struck
<1>4. s.accumulated = {} => Struck(s) = s.visited
  BY DEF Struck
<1>5. Synced(m)
  BY <1>2 DEF Synced
<1>6. Phase(m)
  <2>1. Phase(s)
    BY DEF Sound
  <2>2. s.visited \subseteq m.visited
    BY <1>2 DEF Struck
  <2>3. s.am_bootstrapping => m.visited = s.visited /\ m.remaining = s.remaining
    BY <2>1, <1>2, <1>4 DEF Phase, Synced
  <2> QED BY <2>1, <2>2, <2>3, <1>2, <1>5 DEF Phase
<1>7. FindIsKnown(m)
  BY <1>2 DEF FindIsKnown, Sound
<1>8. CoverageOf(m)
  <2>1. SUFFICES ASSUME ~s.am_bootstrapping, NEW l \in Level, l <= s.level,
                        NEW x \in LevelRange(l), PlaceOf(s, x) \notin m.visited
                 PROVE  \E y \in m.remaining : PlaceOf(s, x) = PlaceOf(s, y)
    BY <1>2 DEF CoverageOf
  <2>2. PICK y \in s.remaining : PlaceOf(s, x) = PlaceOf(s, y)
    <3>1. PlaceOf(s, x) \notin s.visited
      BY <2>1, <1>2 DEF Struck
    <3> QED BY <3>1, <2>1 DEF Sound, CoverageOf
  <2>3. y \notin s.accumulated
    BY <2>1, <2>2, <1>2 DEF Struck
  <2> QED BY <2>2, <2>3, <1>2
<1>9. BestOf(s, Struck(s)) => BestOf(m, Struck(m))
  BY <1>2, <1>3 DEF BestOf
<1>10. Waiting(m.grid) # {} => \A pl \in Struck(m) : <<m.grid, pl>> \in ev
  BY <1>2, <1>3 DEF Sound
<1> QED BY <1>2, <1>5, <1>6, <1>7, <1>8, <1>9, <1>10 DEF Sound, Good, m

\* Recentring on a better find keeps the search sound, and good: level 1 is covered anew.
LEMMA GoodRecentred ==
  ASSUME NEW s, NEW ev, Sound(s, ev), s.e_min_complexity # NoComplexity
  PROVE  /\ Sound(Recentred(Merged(s)), ev) /\ Synced(Recentred(Merged(s)))
         /\ Good(s, ev) => Good(Recentred(Merged(s)), ev)
<1> DEFINE m == Merged(s)
           r == Recentred(m)
<1>1. s \in Search /\ ~s.am_bootstrapping /\ Waiting(s.grid) # {}
      /\ s.e_min_complexity \in s.accumulated
      /\ s.e_min = Value[PlaceOf(s, s.e_min_complexity)]
  BY DEF Sound, Phase, Synced, FindIsKnown
<1>2. /\ m \in Search
      /\ m.am_bootstrapping = s.am_bootstrapping /\ m.e_min = s.e_min
      /\ m.e_min_complexity = s.e_min_complexity /\ m.grid = s.grid
      /\ m.accumulated = {} /\ m.visited = Struck(s)
      /\ \A x : PlaceOf(m, x) = PlaceOf(s, x)
  BY <1>1, MergedFields
<1>3. /\ r \in Search
      /\ r.am_bootstrapping = s.am_bootstrapping /\ r.e_min = s.e_min
      /\ r.e_min_complexity = NoComplexity /\ r.grid = s.grid
      /\ r.centre = PlaceOf(s, s.e_min_complexity) /\ r.level = 1
      /\ r.accumulated = {} /\ r.visited = Struck(s)
      /\ r.remaining = Unvisited(r, 1)
  <2> HIDE DEF m
  <2>1. m.e_min_complexity # NoComplexity
    BY <1>2
  <2> QED BY <1>2, <2>1, RecentredFields
<1> HIDE DEF m, r
<1>4. Struck(r) = Struck(s)
  BY <1>3 DEF Struck
<1>5. Synced(r) /\ FindIsKnown(r)
  BY <1>1, <1>3 DEF Synced, FindIsKnown
<1>6. Phase(r)
  <2>1. r.centre \in r.visited
    BY <1>1, <1>3 DEF Struck
  <2> QED BY <2>1, <1>1, <1>3, LevelFacts DEF Phase
<1>7. CoverageOf(r)
  <2>1. SUFFICES ASSUME NEW l \in Level, l <= r.level, NEW x \in LevelRange(l),
                        PlaceOf(r, x) \notin r.visited
                 PROVE  \E y \in r.remaining : PlaceOf(r, x) = PlaceOf(r, y)
    BY DEF CoverageOf
  <2>2. l = 1
    BY <2>1, <1>3, LevelFacts DEF Level
  <2> QED BY <2>1, <2>2, <1>3 DEF Unvisited
<1>8. /\ BestOf(s, Struck(s)) => BestOf(r, Struck(r))
      /\ \A pl \in Struck(r) : <<r.grid, pl>> \in ev
  BY <1>1, <1>3, <1>4 DEF BestOf, Sound
<1> QED BY <1>3, <1>5, <1>6, <1>7, <1>8 DEF Sound, Good, m, r

\* A level is left behind with every place of it visited, and so are the levels
\* that are passed over.
LEMMA GoodAdvanced ==
  ASSUME NEW s, NEW ev, Sound(s, ev), Synced(s), s.remaining = {}, Waiting(s.grid) # {}
  PROVE  LET a == Advanced(s) IN
         /\ ~s.am_bootstrapping
         /\ a \in Search /\ a.grid = s.grid /\ Synced(a)
         /\ a.level # NoLevel => Sound(a, ev) /\ (Good(s, ev) => Good(a, ev))
         /\ a.level = NoLevel =>
              \A l \in Level : \A x \in LevelRange(l) : PlaceOf(s, x) \in s.visited
<1> DEFINE a == Advanced(s)
<1>1. s \in Search /\ ~s.am_bootstrapping /\ s.level # NoLevel /\ s.centre \in s.visited
  BY LevelFacts DEF Sound, Phase
<1>2. s.level \in Level /\ Level \subseteq Nat
  BY <1>1, LevelFacts DEF Search
<1>3. /\ a \in Search
      /\ a.am_bootstrapping = s.am_bootstrapping /\ a.e_min = s.e_min
      /\ a.e_min_complexity = s.e_min_complexity
      /\ a.grid = s.grid /\ a.centre = s.centre
      /\ a.accumulated = s.accumulated /\ a.visited = s.visited
      /\ \/ a.level = NoLevel /\ a.remaining = {}
         \/ a.level \in Level /\ a.level > s.level /\ a.remaining = Opened(s, a.level)
      /\ \A l \in Level : l > s.level /\ l < a.level => Opened(s, l) = {}
  BY <1>1, <1>2, AdvancedFields
<1> HIDE DEF a
<1>4. \A x : PlaceOf(a, x) = PlaceOf(s, x)
  BY <1>3 DEF PlaceOf
<1>5. ASSUME NEW l \in Level, l < a.level, NEW x \in LevelRange(l)
      PROVE  PlaceOf(s, x) \in s.visited
  <2>1. CASE l <= s.level
    BY <2>1, <1>1 DEF Sound, CoverageOf
  <2>2. CASE l > s.level
    <3>1. Opened(s, l) = {}
      BY <2>2, <1>3, <1>5
    <3> QED BY <3>1, OpenedCovers
  <2>3. l \in Nat /\ s.level \in Nat
    BY <1>2
  <2> QED BY <2>1, <2>2, <2>3
<1>6. Synced(a) /\ FindIsKnown(a)
  BY <1>3 DEF Synced, FindIsKnown, Sound
<1>7. ASSUME a.level = NoLevel, NEW l \in Level, NEW x \in LevelRange(l)
      PROVE  PlaceOf(s, x) \in s.visited
  BY <1>5, <1>7, LevelFacts
<1>8. ASSUME a.level # NoLevel PROVE Sound(a, ev) /\ (Good(s, ev) => Good(a, ev))
  <2>1. Phase(a)
    BY <1>1, <1>3, <1>8 DEF Phase
  <2>2. Struck(a) = Struck(s)
    BY <1>3, <1>4 DEF Struck
  <2>3. /\ BestOf(s, Struck(s)) => BestOf(a, Struck(a))
        /\ \A pl \in Struck(a) : <<a.grid, pl>> \in ev
    BY <1>1, <1>3, <2>2 DEF BestOf, Sound
  <2>4. CoverageOf(a)
    <3>1. SUFFICES ASSUME NEW l \in Level, l <= a.level, NEW x \in LevelRange(l),
                          PlaceOf(a, x) \notin a.visited
                   PROVE  \E y \in a.remaining : PlaceOf(a, x) = PlaceOf(a, y)
      BY DEF CoverageOf
    <3>2. a.level \in Level /\ a.remaining = Opened(s, a.level)
      BY <1>3, <1>8
    <3>3. l = a.level
      <4>1. ~ (l < a.level)
        BY <3>1, <1>3, <1>4, <1>5
      <4>2. l \in Nat /\ a.level \in Nat
        BY <3>2, <1>2
      <4> QED BY <4>1, <4>2, <3>1
    <3> QED BY <3>1, <3>2, <3>3, <1>3, <1>4, OpenedCovers
  <2> QED BY <1>3, <1>6, <2>1, <2>3, <2>4 DEF Sound, Good
<1> QED BY <1>1, <1>3, <1>6, <1>7, <1>8 DEF a

\* A shrink leads to a search that bootstraps from scratch.
LEMMA GoodShrunk ==
  ASSUME NEW s \in Search, NEW ev, Synced(s), Waiting(s.grid) # {}
  PROVE  Good(Shrunk(s), ev) /\ Synced(Shrunk(s))
<1> DEFINE z == Shrunk(s)
<1>1. /\ z \in Search
      /\ z.am_bootstrapping = TRUE
      /\ z.e_min_complexity = NoComplexity /\ z.accumulated = {}
      /\ Waiting(z.grid) # {} =>
           z.level = 1 /\ z.remaining = LevelRange(1) /\ z.visited = {}
  BY ShrunkFields DEF Synced
<1> HIDE DEF z
<1>2. Synced(z) /\ FindIsKnown(z) /\ CoverageOf(z) /\ BestOf(z, Struck(z))
  BY <1>1 DEF Synced, FindIsKnown, CoverageOf, BestOf
<1>3. Phase(z)
  BY <1>1, <1>2, LevelFacts DEF Phase
<1>4. Waiting(z.grid) # {} => Struck(z) = {}
  BY <1>1 DEF Struck
<1> QED BY <1>1, <1>2, <1>3, <1>4 DEF Sound, Good, z

\* What the destructor of a task saves is as good as what it finds.
LEMMA GoodRunThrough ==
  ASSUME NEW s, NEW ev, Sound(s, ev), Waiting(s.grid) # {}
  PROVE  /\ Sound(RunThrough(s), ev) /\ Synced(RunThrough(s))
         /\ Good(s, ev) => Good(RunThrough(s), ev)
<1> DEFINE m == IF s.e_min_complexity = NoComplexity THEN Merged(s) ELSE Recentred(Merged(s))
           a == Advanced(m)
<1>1. RunThrough(s) = IF a.level = NoLevel THEN Shrunk(a) ELSE a
  BY DEF RunThrough
<1>2. Sound(m, ev) /\ Synced(m) /\ (Good(s, ev) => Good(m, ev))
  BY GoodMerged, GoodRecentred
<1>3. Waiting(m.grid) # {} /\ m \in Search
  <2>1. s \in Search
    BY DEF Sound
  <2>2. Merged(s).grid = s.grid /\ Merged(s) \in Search
        /\ Merged(s).e_min_complexity = s.e_min_complexity
    BY <2>1, MergedFields
  <2>3. s.e_min_complexity # NoComplexity => Recentred(Merged(s)).grid = s.grid
    BY <2>2, RecentredFields
  <2>4. m.grid = s.grid
    BY <2>2, <2>3
  <2> HIDE DEF m
  <2> QED BY <2>4, <1>2 DEF Sound
<1> HIDE DEF m
<1>4. CASE m.remaining # {}
  <2>1. a = m
    BY <1>4 DEF Advanced
  <2>2. CASE m.level = NoLevel
    BY <2>1, <2>2, <1>1, <1>2, <1>3, GoodShrunk DEF Good
  <2>3. CASE m.level # NoLevel
    BY <2>1, <2>3, <1>1, <1>2
  <2> QED BY <2>2, <2>3
<1>5. CASE m.remaining = {}
  <2>1. /\ a \in Search /\ a.grid = m.grid /\ Synced(a)
        /\ a.level # NoLevel => Sound(a, ev) /\ (Good(m, ev) => Good(a, ev))
    BY <1>2, <1>3, <1>5, GoodAdvanced
  <2> HIDE DEF a
  <2>2. CASE a.level = NoLevel
    BY <2>1, <2>2, <1>1, <1>3, GoodShrunk DEF Good
  <2>3. CASE a.level # NoLevel
    BY <2>1, <2>3, <1>1, <1>2
  <2> QED BY <2>2, <2>3
<1> QED BY <1>4, <1>5

\* Saving a good search that is synced.
LEMMA GoodSaved ==
  ASSUME NEW s, NEW ev, Sound(s, ev), Synced(s)
  PROVE  /\ Saved(s) \in Image /\ Sound(Loaded(Saved(s)), ev)
         /\ Good(s, ev) => Good(Loaded(Saved(s)), ev)
<1>1. s \in Search
  BY DEF Sound
<1> QED BY <1>1, LoadedIsSaved

\* What is on disk reads as the search that is loaded from it.
LEMMA LoadedFields ==
  ASSUME NEW d
  PROVE  LET s == Loaded(d) IN
         /\ s.am_bootstrapping = d.am_bootstrapping /\ s.e_min = d.e_min
         /\ s.grid = d.grid /\ s.level = d.level /\ s.remaining = d.remaining
         /\ s.visited = d.visited /\ Struck(s) = d.visited
         /\ \A x : PlaceOf(s, x) = PlaceOf(d, x)
<1> DEFINE s == Loaded(d)
<1>1. /\ s.am_bootstrapping = d.am_bootstrapping /\ s.e_min = d.e_min
      /\ s.grid = d.grid /\ s.centre = d.centre /\ s.level = d.level
      /\ s.remaining = d.remaining /\ s.visited = d.visited /\ s.accumulated = {}
  BY DEF Loaded
<1> HIDE DEF s
<1>2. Struck(s) = d.visited
  BY <1>1 DEF Struck
<1>3. \A x : PlaceOf(s, x) = PlaceOf(d, x)
  BY <1>1 DEF PlaceOf
<1> QED BY <1>1, <1>2, <1>3 DEF s
=============================================================================
