------------------------- MODULE ConvergenceProofs --------------------------
(***************************************************************************)
(* Proofs about Convergence, for every grid, every number of levels and    *)
(* coefficients and every likelihood that SearchAssumption allows.         *)
(***************************************************************************)
EXTENDS Convergence, GridSearchProofs

-----------------------------------------------------------------------------
(* The inductive invariant.  Coverage and BestOfVisited are not inductive   *)
(* as they stand: what keeps them is what a search looks like while it is   *)
(* bootstrapping and while it is not, that a find is among what is still to *)
(* be merged, and that what is on disk is as good as what is in memory.     *)

IInv ==
  /\ status \in {"active", "inactive", "converged", "failed"}
  /\ Good(search, evaluated)
  /\ disk \in Image \cup {NoImage}
  /\ disk # NoImage => Good(Loaded(disk), evaluated)
  /\ evaluated \subseteq Grid \X Place

\* The invariant holds initially.
LEMMA InitInv == Init => IInv
BY FreshIsGood DEF Init, IInv

\* Evaluate keeps the invariant.
LEMMA EvaluateInv == IInv /\ Evaluate => IInv'
<1> SUFFICES ASSUME IInv, Evaluate PROVE IInv'
  OBVIOUS
<1>1. evaluated \subseteq evaluated' /\ evaluated' \subseteq Grid \X Place
  BY DEF Evaluate, IInv
<1>2. UNCHANGED <<status, search, disk>>
  BY DEF Evaluate
<1>3. Good(search, evaluated')
  BY <1>1, GoodWithMoreEvaluated DEF IInv
<1>4. disk # NoImage => Good(Loaded(disk), evaluated')
  BY <1>1, GoodWithMoreEvaluated DEF IInv
<1> QED BY <1>1, <1>2, <1>3, <1>4 DEF IInv

\* Locate keeps the invariant.
LEMMA LocateInv == IInv /\ Locate => IInv'
<1> SUFFICES ASSUME IInv, Locate PROVE IInv'
  OBVIOUS
<1>1. PICK pl \in Place : /\ <<search.grid, pl>> \in evaluated
                          /\ search' = Bootstrapped(search, pl, Value[pl])
  BY DEF Locate
<1>2. search.am_bootstrapping /\ Waiting(search.grid) # {}
      /\ UNCHANGED <<status, disk, evaluated>>
  BY DEF Locate
<1>3. Good(search', evaluated)
  BY <1>1, <1>2, GoodBootstrapped DEF IInv, Good
<1> QED BY <1>2, <1>3 DEF IInv

\* Report keeps the invariant.
LEMMA ReportInv ==
  ASSUME NEW done \in SUBSET Complexity, NEW x \in done \cup {NoComplexity},
         IInv, Report(done, x)
  PROVE  IInv'
<1> DEFINE v == IF x = NoComplexity THEN Largish ELSE Value[PlaceOf(search, x)]
<1>1. search \in Search
  BY DEF IInv, Good, Sound
<1>2. v \in Likelihood
  <2>1. x # NoComplexity => PlaceOf(search, x) \in Place
    BY <1>1, PlaceOfIsAPlace
  <2> QED BY <2>1, LikelihoodFacts
<1>3. /\ search' = Reported(search, v, x, done)
      /\ \A y \in done : Value[PlaceOf(search, y)] >= Target[search'.e_min]
      /\ ~search.am_bootstrapping /\ UNCHANGED <<status, disk, evaluated>>
  BY DEF Report
<1>4. \A y \in done : PlaceOf(search, y) \in search.visited
                      \/ <<search.grid, PlaceOf(search, y)>> \in evaluated
  BY DEF Report
<1>6. x # NoComplexity => v = Value[PlaceOf(search, x)]
  OBVIOUS
<1> HIDE DEF v
<1>5. Good(Reported(search, v, x, done), evaluated)
  BY <1>2, <1>3, <1>4, <1>6, GoodReported DEF IInv
<1> QED BY <1>3, <1>5 DEF IInv

\* Every case of SyncStep keeps the invariant.
LEMMA SyncStepInv == IInv /\ SyncStep => IInv'
<1> SUFFICES ASSUME IInv, SyncStep PROVE IInv'
  OBVIOUS
<1>1. Good(search, evaluated) /\ Waiting(search.grid) # {}
  BY DEF IInv, SyncStep
<1>2. Good(search', evaluated) /\ Synced(search')
  <2>1. CASE search.e_min_complexity = NoComplexity /\ search' = Merged(search)
    BY <2>1, <1>1, GoodMerged DEF Good
  <2>2. CASE search.e_min_complexity # NoComplexity /\ search' = Recentred(Merged(search))
    BY <2>2, <1>1, GoodRecentred DEF Good
  <2>3. CASE /\ Synced(search) /\ search.remaining = {}
             /\ LET a == Advanced(search)
                IN search' = IF a.level = NoLevel THEN Shrunk(a) ELSE a
    <3> DEFINE a == Advanced(search)
    <3>1. search' = IF a.level = NoLevel THEN Shrunk(a) ELSE a
      BY <2>3
    <3>2. /\ a \in Search /\ a.grid = search.grid /\ Synced(a)
          /\ a.level # NoLevel => Good(a, evaluated)
      BY <2>3, <1>1, GoodAdvanced DEF Good
    <3> HIDE DEF a
    <3>3. CASE a.level = NoLevel
      BY <3>1, <3>2, <3>3, <1>1, GoodShrunk DEF Good
    <3>4. CASE a.level # NoLevel
      BY <3>1, <3>2, <3>4
    <3> QED BY <3>3, <3>4
  <2> QED BY <2>1, <2>2, <2>3 DEF SyncStep
<1>3. disk' \in {disk, Saved(search')} /\ UNCHANGED <<status, evaluated>>
  BY DEF SyncStep
<1>4. Saved(search') \in Image /\ Good(Loaded(Saved(search')), evaluated)
  BY <1>2, GoodSaved DEF Good
<1>5. disk' \in Image \cup {NoImage} /\ (disk' # NoImage => Good(Loaded(disk'), evaluated))
  BY <1>3, <1>4 DEF IInv
<1> QED BY <1>2, <1>3, <1>5 DEF IInv

\* Save keeps the invariant.
LEMMA SaveInv == IInv /\ Save => IInv'
<1> SUFFICES ASSUME IInv, Save PROVE IInv'
  OBVIOUS
<1>1. Saved(search) \in Image /\ Good(Loaded(Saved(search)), evaluated)
  BY GoodSaved DEF IInv, Save, Good
<1> QED BY <1>1 DEF IInv, Save

\* Complete keeps the invariant.
LEMMA CompleteInv == IInv /\ Complete => IInv'
BY FreshIsGood DEF IInv, Complete

\* Stop keeps the invariant, whatever of the three it leaves on disk.
LEMMA StopInv == IInv /\ Stop => IInv'
<1> SUFFICES ASSUME IInv, Stop PROVE IInv'
  OBVIOUS
<1>1. status' = "inactive" /\ search' = FreshSearch /\ UNCHANGED evaluated
  BY DEF Stop
<1>2. Good(search, evaluated)
  BY DEF IInv
<1>3. disk' \in Image \cup {NoImage} /\ (disk' # NoImage => Good(Loaded(disk'), evaluated))
  <2>1. CASE UNCHANGED disk
    BY <2>1 DEF IInv
  <2>2. CASE Synced(search) /\ disk' = Saved(search)
    BY <2>2, <1>2, GoodSaved DEF Good
  <2>3. CASE Waiting(search.grid) # {} /\ disk' = Saved(RunThrough(search))
    <3>1. Good(RunThrough(search), evaluated) /\ Synced(RunThrough(search))
      BY <2>3, <1>2, GoodRunThrough DEF Good
    <3> QED BY <2>3, <3>1, GoodSaved DEF Good
  <2> QED BY <2>1, <2>2, <2>3 DEF Stop
<1> QED BY <1>1, <1>3, FreshIsGood DEF IInv

\* Resume keeps the invariant.
LEMMA ResumeInv == IInv /\ Resume => IInv'
<1> SUFFICES ASSUME IInv, Resume PROVE IInv'
  OBVIOUS
<1>1. status' \in {"active", "failed"} /\ UNCHANGED <<disk, evaluated>>
  BY DEF Resume
<1>2. Good(search', evaluated)
  <2>1. CASE search' = FreshSearch
    BY <2>1, FreshIsGood
  <2>2. CASE disk # NoImage /\ search' = Loaded(disk)
    BY <2>2 DEF IInv
  <2>3. CASE UNCHANGED search
    BY <2>3 DEF IInv
  <2> QED BY <2>1, <2>2, <2>3 DEF Resume
<1> QED BY <1>1, <1>2 DEF IInv

\* Every step keeps the invariant.
LEMMA NextInv == IInv /\ [Next]_vars => IInv'
<1> SUFFICES ASSUME IInv, [Next]_vars PROVE IInv'
  OBVIOUS
<1>1. CASE Evaluate
  BY <1>1, EvaluateInv
<1>2. CASE Locate
  BY <1>2, LocateInv
<1>3. CASE SyncStep
  BY <1>3, SyncStepInv
<1>4. CASE Save
  BY <1>4, SaveInv
<1>5. CASE Complete
  BY <1>5, CompleteInv
<1>6. CASE Stop
  BY <1>6, StopInv
<1>7. CASE Resume
  BY <1>7, ResumeInv
<1>8. ASSUME NEW done \in SUBSET Complexity, NEW x \in done \cup {NoComplexity},
             Report(done, x)
      PROVE  IInv'
  BY <1>8, ReportInv
<1>9. CASE UNCHANGED vars
  BY <1>9 DEF vars, IInv
<1> QED BY <1>1, <1>2, <1>3, <1>4, <1>5, <1>6, <1>7, <1>8, <1>9 DEF Next

\* The inductive invariant holds, on every grid and for every likelihood.
THEOREM Invariance == Spec => []IInv
BY InitInv, NextInv, PTL DEF Spec

\* Type correctness.
THEOREM TypeCorrect == Spec => []TypeOK
<1>1. IInv => TypeOK
  BY DEF IInv, Good, Sound, TypeOK
<1> QED BY <1>1, Invariance, PTL

\* Nothing is struck off the search, in memory or in the saved state, that was
\* not evaluated on that grid.
THEOREM OnlyEvaluatedIsVisited == Spec => []VisitedWasEvaluated
<1>1. IInv => VisitedWasEvaluated
  <2>1. SUFFICES ASSUME IInv PROVE VisitedWasEvaluated
    OBVIOUS
  <2>2. ASSUME Waiting(search.grid) # {}, NEW pl \in search.visited
        PROVE  <<search.grid, pl>> \in evaluated
    BY <2>1, <2>2 DEF IInv, Good, Sound, Struck
  <2>3. ASSUME disk # NoImage, Waiting(disk.grid) # {}, NEW pl \in disk.visited
        PROVE  <<disk.grid, pl>> \in evaluated
    <3>1. Good(Loaded(disk), evaluated)
      BY <2>1, <2>3 DEF IInv
    <3>2. Loaded(disk).grid = disk.grid /\ Struck(Loaded(disk)) = disk.visited
      BY LoadedFields
    <3> QED BY <3>1, <3>2, <2>3 DEF Good, Sound
  <2> QED BY <2>2, <2>3 DEF VisitedWasEvaluated
<1> QED BY <1>1, Invariance, PTL

\* No complexity of a level that was opened is dropped: not by merging,
\* recentring, culling duplicates, passing over levels, saving or loading.
THEOREM NothingIsDropped == Spec => []Coverage
<1>1. IInv => Coverage
  <2>1. SUFFICES ASSUME IInv PROVE Coverage
    OBVIOUS
  <2>2. CoverageOf(search)
    BY <2>1 DEF IInv, Good, Sound
  <2>3. ASSUME disk # NoImage PROVE CoverageOf(disk)
    <3> DEFINE s == Loaded(disk)
    <3>1. CoverageOf(s)
      BY <2>1, <2>3 DEF IInv, Good, Sound
    <3>2. /\ s.am_bootstrapping = disk.am_bootstrapping /\ s.level = disk.level
          /\ s.remaining = disk.remaining /\ s.visited = disk.visited
          /\ \A x : PlaceOf(s, x) = PlaceOf(disk, x)
      BY LoadedFields
    <3> HIDE DEF s
    <3> QED BY <3>1, <3>2 DEF CoverageOf
  <2> QED BY <2>2, <2>3 DEF Coverage
<1> QED BY <1>1, Invariance, PTL

\* The best find is the best of all places visited since the last shrink, up to
\* the improvement ratio.
THEOREM BestIsKept == Spec => []BestOfVisited
<1>1. IInv => BestOfVisited
  <2>1. SUFFICES ASSUME IInv PROVE BestOfVisited
    OBVIOUS
  <2>2. BestOf(search, Struck(search))
    BY <2>1 DEF IInv, Good, Sound
  <2>3. ASSUME disk # NoImage PROVE BestOf(disk, disk.visited)
    <3> DEFINE s == Loaded(disk)
    <3>1. BestOf(s, Struck(s))
      BY <2>1, <2>3 DEF IInv, Good, Sound
    <3>2. /\ s.am_bootstrapping = disk.am_bootstrapping /\ s.e_min = disk.e_min
          /\ Struck(s) = disk.visited
      BY LoadedFields
    <3> HIDE DEF s
    <3> QED BY <3>1, <3>2 DEF BestOf
  <2> QED BY <2>2, <2>3 DEF BestOfVisited
<1> QED BY <1>1, Invariance, PTL

\* The ranges are shrunk only around a local optimum: every complexity of every
\* level was evaluated around the present centre, and none beats e_min.
THEOREM ShrinksAtOptimum == Spec => ShrinkOnlyAtOptimum
<1> DEFINE Optimum == \A x \in Complexity :
                        /\ <<search.grid, PlaceOf(search, x)>> \in evaluated
                        /\ Value[PlaceOf(search, x)] >= Target[search.e_min]
           Claim == status = "active" /\ search'.grid = search.grid + 1 => Optimum
<1>1. ASSUME IInv, [Next]_vars, status = "active", search'.grid = search.grid + 1
      PROVE  Optimum
  <2>1. Good(search, evaluated) /\ search \in Search
    BY <1>1 DEF IInv, Good, Sound
  <2>2. search.grid \in Nat /\ search.grid + 1 # search.grid
    BY <2>1 DEF Search, Grid
  <2>3. CASE SyncStep
    <3>1. Waiting(search.grid) # {}
      BY <2>3 DEF SyncStep
    <3>2. search' # Merged(search)
      BY <1>1, <2>1, <2>2, MergedFields
    <3>3. search.e_min_complexity # NoComplexity => search' # Recentred(Merged(search))
      <4>1. Merged(search) \in Search /\ Merged(search).grid = search.grid
            /\ Merged(search).e_min_complexity = search.e_min_complexity
        BY <2>1, MergedFields
      <4> QED BY <4>1, <1>1, <2>2, RecentredFields
    <3> DEFINE a == Advanced(search)
    <3>4. /\ Synced(search) /\ search.remaining = {}
          /\ search' = IF a.level = NoLevel THEN Shrunk(a) ELSE a
      BY <2>3, <3>2, <3>3 DEF SyncStep
    <3>5. /\ ~search.am_bootstrapping /\ a.grid = search.grid
          /\ a.level = NoLevel =>
               \A l \in Level : \A x \in LevelRange(l) : PlaceOf(search, x) \in search.visited
      BY <3>1, <3>4, <2>1, GoodAdvanced DEF Good
    <3> HIDE DEF a
    <3>6. a.level = NoLevel
      BY <3>4, <3>5, <1>1, <2>2
    <3>7. ASSUME NEW x \in Complexity
          PROVE  /\ <<search.grid, PlaceOf(search, x)>> \in evaluated
                 /\ Value[PlaceOf(search, x)] >= Target[search.e_min]
      <4>1. PlaceOf(search, x) \in Struck(search)
        BY <3>5, <3>6, EveryComplexityHasALevel DEF Struck
      <4> QED BY <4>1, <2>1, <3>1, <3>5 DEF Good, Sound, BestOf
    <3> QED BY <3>7
  <2>4. CASE search'.grid = search.grid
    BY <2>4, <1>1, <2>2
  <2>5. CASE Locate
    <3>1. PICK pl \in Place : search' = Bootstrapped(search, pl, Value[pl])
      BY <2>5 DEF Locate
    <3>2. search'.grid = search.grid
      BY <3>1, <2>1, BootstrappedFields
    <3> QED BY <3>2, <2>4
  <2>6. ASSUME NEW done \in SUBSET Complexity, NEW x \in done \cup {NoComplexity},
               Report(done, x)
        PROVE  search'.grid = search.grid
    BY <2>1, <2>6, ReportedGrid DEF Report
  <2>7. CASE Complete \/ Stop
    <3>1. search'.grid = 0
      BY <2>7 DEF Complete, Stop, FreshSearch
    <3> QED BY <3>1, <1>1, <2>1 DEF Search, Grid
  <2>8. CASE Evaluate \/ Save \/ UNCHANGED vars
    BY <2>4, <2>8 DEF Evaluate, Save, vars
  <2>9. ~Resume
    BY <1>1 DEF Resume
  <2> QED BY <1>1, <2>3, <2>4, <2>5, <2>6, <2>7, <2>8, <2>9 DEF Next
<1>2. IInv /\ [Next]_vars => [Claim]_vars
  BY <1>1
<1>3. Spec => [][Claim]_vars
  BY <1>2, Invariance, PTL DEF Spec
<1> QED BY <1>3 DEF ShrinkOnlyAtOptimum

=============================================================================
