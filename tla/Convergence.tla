---------------------------- MODULE Convergence -----------------------------
(***************************************************************************)
(* What a task of the converger promises, without peers, messages and      *)
(* keys: the search over the grids of places as task_processor             *)
(* (netcpu/converger_1/server.h) accounts for it, its saved image, and the *)
(* life of the task.  Converger implements this specification.             *)
(***************************************************************************)
EXTENDS GridSearch

CONSTANT NoImage   \* no convergence_state.bin

VARIABLES
  status,     \* "active", "inactive", "converged" or "failed"
  search,     \* the accounting (GridSearch)
  disk,       \* convergence_state.bin, or NoImage
  evaluated   \* history: <<grid, place>> pairs that were evaluated

vars == <<status, search, disk, evaluated>>

\* Some peer computes the likelihood at a place.
Evaluate ==
  /\ \E g \in Grid : \E pl \in Place :
       evaluated' = evaluated \cup {<<g, pl>>}
  /\ UNCHANGED <<status, search, disk>>

\* A bootstrapping location arrives.
Locate ==
  /\ status = "active" /\ search.am_bootstrapping /\ Waiting(search.grid) # {}
  /\ \E pl \in Place :
       /\ <<search.grid, pl>> \in evaluated
       /\ search' = Bootstrapped(search, pl, Value[pl])
  /\ UNCHANGED <<status, disk, evaluated>>

\* Mutant of Report: complexities are taken for done that nobody evaluated.
ReportUnseen(done, x) ==
  /\ status = "active" /\ ~search.am_bootstrapping
  /\ search' = Reported(search, IF x = NoComplexity THEN Largish ELSE Value[PlaceOf(search, x)],
                        x, done)
  /\ \A y \in done : Value[PlaceOf(search, y)] >= Target[search'.e_min]
  /\ UNCHANGED <<status, disk, evaluated>>

\* The complexities `done' are reported, with the find x if there is one: they
\* were evaluated or are the centre, and none of them beats the find.
Report(done, x) ==
  /\ status = "active" /\ ~search.am_bootstrapping
  /\ \A y \in done :
       <<search.grid, PlaceOf(search, y)>> \in {search.grid} \X search.visited \cup evaluated
  /\ search' = Reported(search, IF x = NoComplexity THEN Largish ELSE Value[PlaceOf(search, x)],
                        x, done)
  /\ \A y \in done : Value[PlaceOf(search, y)] >= Target[search'.e_min]
  /\ UNCHANGED <<status, disk, evaluated>>

\* Mutant of SyncStep: the search goes on when every range has ended.
SyncStepAfterEnd ==
  /\ status = "active"
  /\ \/ search' = Merged(search)
     \/ /\ Synced(search) /\ search.remaining = {}
        /\ LET a == Advanced(search)
           IN search' = IF a.level = NoLevel THEN Shrunk(a) ELSE a
  /\ UNCHANGED <<status, disk, evaluated>>

\* A sync that finds something left of the level (Merge), a better find
\* (Recentre), the next level with something to do (Advance) or none (Shrink).
SyncStep ==
  /\ status = "active" /\ Waiting(search.grid) # {}
  /\ \/ search.e_min_complexity = NoComplexity /\ search' = Merged(search)
     \/ search.e_min_complexity # NoComplexity /\ search' = Recentred(Merged(search))
     \/ /\ Synced(search) /\ search.remaining = {}
        /\ LET a == Advanced(search)
           IN search' = IF a.level = NoLevel THEN Shrunk(a) ELSE a
  /\ disk' \in {disk, Saved(search')}
  /\ Waiting(search'.grid) = {} => disk' = Saved(search')
  /\ UNCHANGED <<status, evaluated>>

Save ==
  /\ status = "active" /\ Synced(search)
  /\ disk' = Saved(search)
  /\ UNCHANGED <<status, search, evaluated>>

\* Every range has ended.
Complete ==
  /\ status = "active" /\ Waiting(search.grid) = {}
  /\ status' = "converged" /\ search' = FreshSearch
  /\ UNCHANGED <<disk, evaluated>>

\* The task is moved behind another one, or the server dies.
Stop ==
  /\ status = "active"
  /\ status' = "inactive" /\ search' = FreshSearch
  /\ \/ UNCHANGED disk
     \/ Synced(search) /\ disk' = Saved(search)
     \/ Waiting(search.grid) # {} /\ disk' = Saved(RunThrough(search))
  /\ UNCHANGED evaluated

\* The task is constructed anew.
Resume ==
  /\ status = "inactive"
  /\ \/ disk = NoImage /\ status' = "active" /\ search' = FreshSearch
     \/ /\ disk # NoImage /\ Waiting(disk.grid) # {}
        /\ status' = "active" /\ search' = Loaded(disk)
     \/ /\ disk # NoImage /\ Waiting(disk.grid) = {}
        /\ status' = "failed" /\ UNCHANGED search
  /\ UNCHANGED <<disk, evaluated>>

Init ==
  /\ status = "active" /\ search = FreshSearch /\ disk = NoImage /\ evaluated = {}

Next ==
  \/ Evaluate \/ Locate \/ SyncStep \/ Save \/ Complete \/ Stop \/ Resume
  \/ \E done \in SUBSET Complexity : \E x \in done \cup {NoComplexity} : Report(done, x)

Spec == Init /\ [][Next]_vars

-----------------------------------------------------------------------------
TypeOK ==
  /\ status \in {"active", "inactive", "converged", "failed"}
  /\ search \in Search
  /\ disk \in Image \cup {NoImage}
  /\ evaluated \subseteq Grid \X Place

\* Nothing is struck off the search that no peer has evaluated: every visited
\* place, in memory and in the saved state, was evaluated on that grid (once
\* every range has ended the visited places are left over from the last one).
VisitedWasEvaluated ==
  /\ Waiting(search.grid) # {} => {search.grid} \X search.visited \subseteq evaluated
  /\ disk # NoImage /\ Waiting(disk.grid) # {} =>
       {disk.grid} \X disk.visited \subseteq evaluated

\* No complexity is dropped by merging, recentring, culling duplicates, levels
\* with nothing left to do, saving and loading: one of a level already opened is
\* still to be done or leads to a place that is visited or still to be visited.
Coverage ==
  /\ CoverageOf(search)
  /\ disk # NoImage => CoverageOf(disk)

\* The best find is the best of all places visited since the last shrink, up to
\* the improvement ratio below which a find is not reported.
BestOfVisited ==
  /\ BestOf(search, Struck(search))
  /\ disk # NoImage => BestOf(disk, disk.visited)

\* The ranges are shrunk only around a local optimum: every complexity of
\* every level was evaluated around the present centre and none beats e_min.
ShrinkOnlyAtOptimum ==
  [][status = "active" /\ search'.grid = search.grid + 1 =>
       \A x \in Complexity :
         /\ <<search.grid, PlaceOf(search, x)>> \in evaluated
         /\ Value[PlaceOf(search, x)] >= Target[search.e_min]]_vars
=============================================================================
