----------------------------- MODULE GridSearch -----------------------------
(***************************************************************************)
(* The search that a task of the converger performs, as pure operators on  *)
(* a record: what task_processor (netcpu/converger_1/server.h) does to its *)
(* grid accounting when a bootstrapping location arrives, when reported    *)
(* complexities are merged, when a better find recentres the search, when  *)
(* a level of complexities is exhausted and when the ranges are shrunk.    *)
(*                                                                         *)
(* A "complexity" is the index of one combination of coefficients to move; *)
(* demodulating it against the current centre gives a place of the grid.   *)
(* Complexities are numbered through all levels: level l ends where        *)
(* LevelEnd[l] says, as the keys of combos_builder::metadata() do.         *)
(***************************************************************************)
EXTENDS Sequences, Shares

CONSTANTS
  Place,        \* places (index vectors) of a grid
  Origin,       \* the place whose indices are all 0
  LevelEnd,     \* LevelEnd[l]: number of complexities in the levels 1..l
  Coarse,       \* levels whose grid resolutions differ from the first level's
  Coefficient,  \* the coefficients
  EndsAt,       \* EndsAt[c]: number of shrinks after which c's range has ended
  LastGrid,     \* number of shrinks after which every range has ended
  Demod,        \* Demod[g][c][x]: place that complexity x selects, centre c, grid g
  BootPlaces,   \* BootPlaces[g]: places a bootstrapping peer may draw on grid g
  Value,        \* Value[pl]: the negated log likelihood at a place
  Largish,      \* censoc::largish: above every value
  Target        \* Target[v]: e_min_type::target, v scaled by improvement_ratio_min

Level == 1 .. Len(LevelEnd)
NoLevel == Len(LevelEnd) + 1               \* combos_modem.metadata().end()
Complexity == 0 .. (LevelEnd[Len(LevelEnd)] - 1)
NoComplexity == -1                         \* static_cast<size_type>(-1)
Likelihood == {Value[pl] : pl \in Place} \cup {Largish}

\* coefficients_rand_range_ended_wait counts these after g shrinks.
Waiting(g) == {c \in Coefficient : EndsAt[c] > g}
Grid == 0 .. LastGrid

ASSUME SearchAssumption ==
  /\ Origin \in Place
  /\ LevelEnd \in Seq(Nat \ {0}) /\ LevelEnd # <<>>
  /\ \A l, m \in Level : l < m => LevelEnd[l] < LevelEnd[m]
  /\ Coarse \subseteq Level
  /\ IsFiniteSet(Coefficient) /\ Coefficient # {}
  /\ EndsAt \in [Coefficient -> Nat \ {0}]
  /\ LastGrid \in Nat \ {0}
  /\ Waiting(LastGrid) = {} /\ \A g \in 0 .. LastGrid - 1 : Waiting(g) # {}
  /\ Demod \in [Grid -> [Place -> [Complexity -> Place]]]
  /\ BootPlaces \in [Grid -> SUBSET Place]
  /\ Value \in [Place -> Int]
  /\ Largish \in Int /\ \A pl \in Place : Value[pl] < Largish
  /\ Target \in [Likelihood -> Int]
  /\ \A v, w \in Likelihood : Target[v] <= v /\ (v <= w => Target[v] <= Target[w])

\* A complexity stands for indices, not for steps: what it selects does not depend on
\* where the coefficients that it moves have been.
ASSUME DemodulationAssumption ==
  \A g \in Grid, c \in Place, x \in Complexity :
    Demod[g][Demod[g][c][x]][x] = Demod[g][c][x]

LevelRange(l) ==
  (IF l = 1 THEN 0 ELSE LevelEnd[l - 1]) .. (LevelEnd[l] - 1)

-----------------------------------------------------------------------------
(* The accounting of a task.  e_min_complexity # NoComplexity stands for    *)
(* better_find_since_last_recentered_sync: the two are set and reset        *)
(* together.  grid counts the shrinks and stands for value_from, rand_range *)
(* and the grid resolutions of the coefficients.                            *)

Search == [am_bootstrapping : BOOLEAN,
           e_min : Likelihood,
           e_min_complexity : Complexity \cup {NoComplexity},
           grid : Grid,
           centre : Place,
           level : Level \cup {NoLevel},
           remaining : SUBSET Complexity,
           accumulated : SUBSET Complexity,
           visited : SUBSET Place]

FreshSearch ==
  [am_bootstrapping |-> TRUE, e_min |-> Largish, e_min_complexity |-> NoComplexity,
   grid |-> 0, centre |-> Origin, level |-> 1, remaining |-> LevelRange(1),
   accumulated |-> {}, visited |-> {}]

PlaceOf(s, x) == Demod[s.grid][s.centre][x]

\* Places visited, or about to be when the accumulated complexities are merged.
Struck(s) == s.visited \cup {PlaceOf(s, x) : x \in s.accumulated}

\* reduce_remaining_complexities: the complexities of a level not yet visited.
Unvisited(s, l) == {x \in LevelRange(l) : PlaceOf(s, x) \notin s.visited}

\* duplicates_elimination_uniques: of those at one place only the first stays.
FirstOfPlace(s, X) ==
  {x \in X : \A y \in X : y < x => PlaceOf(s, y) # PlaceOf(s, x)}

CullDuplicates(s, l) == l \in Coarse \/ Waiting(s.grid) # Coefficient

Opened(s, l) ==
  IF CullDuplicates(s, l) THEN FirstOfPlace(s, Unvisited(s, l)) ELSE Unvisited(s, l)

\* on_bootstrapping_peer_report: the reported place is the centre.
Bootstrapped(s, pl, value) ==
  LET b == [s EXCEPT !.am_bootstrapping = FALSE, !.e_min = value,
                     !.centre = pl, !.visited = {pl}]
  IN [b EXCEPT !.remaining =
        IF Waiting(b.grid) = Coefficient THEN Unvisited(b, 1)
        ELSE FirstOfPlace(b, Unvisited(b, 1))]

\* Mutant of Reported: the latest find replaces an earlier, better one.
ReportedLatest(s, value, x, done) ==
  LET r == [s EXCEPT !.accumulated = @ \cup done]
  IN IF x # NoComplexity THEN [r EXCEPT !.e_min = value, !.e_min_complexity = x] ELSE r

\* on_peer_report: a smaller value replaces the best find; whatever was done
\* is accumulated until the next sync.
Reported(s, value, x, done) ==
  LET r == [s EXCEPT !.accumulated = @ \cup done]
  IN IF x # NoComplexity /\ value < s.e_min
     THEN [r EXCEPT !.e_min = value, !.e_min_complexity = x] ELSE r

\* Mutant of Merged: recentring comes first, and the complexities are taken to
\* have been done around the new centre.
MergedAroundFind(s) ==
  LET c == IF s.e_min_complexity = NoComplexity THEN s ELSE
             [s EXCEPT !.centre = PlaceOf(s, s.e_min_complexity)]
  IN [s EXCEPT !.visited = @ \cup {PlaceOf(c, x) : x \in s.accumulated},
               !.remaining = @ \ s.accumulated,
               !.accumulated = {}]

\* First part of on_coroutine: accumulated complexities become visited places.
Merged(s) ==
  [s EXCEPT !.visited = @ \cup {PlaceOf(s, x) : x \in s.accumulated},
            !.remaining = @ \ s.accumulated,
            !.accumulated = {}]

\* Mutant of Recentred: the search goes on with what remained around the old centre.
RecentredOnly(s) ==
  LET r == [s EXCEPT !.centre = PlaceOf(s, s.e_min_complexity),
                     !.e_min_complexity = NoComplexity]
  IN [r EXCEPT !.remaining = {x \in @ : PlaceOf(r, x) \notin r.visited}]

\* A better find: its place is the new centre, and level 1 starts over.
Recentred(s) ==
  LET r == [s EXCEPT !.centre = PlaceOf(s, s.e_min_complexity),
                     !.e_min_complexity = NoComplexity, !.level = 1]
  IN [r EXCEPT !.remaining = Unvisited(r, 1)]

\* Mutant of Advanced: levels are passed over whether there is something to do or not.
AdvancedToLast(s) ==
  LET open == {l \in Level : l > s.level /\ Opened(s, l) # {}}
  IN IF s.remaining # {} THEN s
     ELSE IF open = {} THEN [s EXCEPT !.level = NoLevel]
     ELSE LET l == CHOOSE m \in open : \A n \in open : n <= m
          IN [s EXCEPT !.level = l, !.remaining = Opened(s, l)]

\* do_redistribute_remaining_complexities: move to the next level that still
\* has something to do, or past the last one.
Advanced(s) ==
  LET open == {l \in Level : l > s.level /\ Opened(s, l) # {}}
  IN IF s.remaining # {} THEN s
     ELSE IF open = {} THEN [s EXCEPT !.level = NoLevel]
     ELSE LET l == CHOOSE m \in open : \A n \in open : m <= n
          IN [s EXCEPT !.level = l, !.remaining = Opened(s, l)]

\* Mutant of Shrunk: the places of the larger ranges stay visited.
ShrunkKeepingVisited(s) ==
  LET z == [s EXCEPT !.am_bootstrapping = TRUE, !.grid = @ + 1, !.centre = Origin]
  IN IF Waiting(z.grid) = {} THEN z
     ELSE [z EXCEPT !.e_min = Largish, !.level = 1, !.remaining = LevelRange(1)]

\* The do_shrink branch: smaller ranges, every index 0, bootstrap again unless
\* every range has ended.
Shrunk(s) ==
  LET z == [s EXCEPT !.am_bootstrapping = TRUE, !.grid = @ + 1, !.centre = Origin]
  IN IF Waiting(z.grid) = {} THEN z
     ELSE [z EXCEPT !.e_min = Largish, !.level = 1, !.remaining = LevelRange(1),
                    !.visited = {}]

\* The whole of on_coroutine at once, as ~task_processor runs it.
RunThrough(s) ==
  LET merged == IF s.e_min_complexity = NoComplexity THEN Merged(s) ELSE Recentred(Merged(s))
      levelled == Advanced(merged)
  IN IF levelled.level = NoLevel THEN Shrunk(levelled) ELSE levelled

-----------------------------------------------------------------------------
(* convergence_state.bin: what do_save_convergence_state writes of a search *)
(* and the constructor reads back.  A search is saved only when it is       *)
(* synced: nothing accumulated, no better find outstanding.                 *)

Image == [am_bootstrapping : BOOLEAN, e_min : Likelihood, grid : Grid, centre : Place,
          level : Level \cup {NoLevel}, remaining : SUBSET Complexity,
          visited : SUBSET Place]

Synced(s) == s.e_min_complexity = NoComplexity /\ s.accumulated = {}

Saved(s) == [am_bootstrapping |-> s.am_bootstrapping, e_min |-> s.e_min, grid |-> s.grid,
             centre |-> s.centre, level |-> s.level, remaining |-> s.remaining,
             visited |-> s.visited]

Loaded(d) == [am_bootstrapping |-> d.am_bootstrapping, e_min |-> d.e_min,
              e_min_complexity |-> NoComplexity, grid |-> d.grid, centre |-> d.centre,
              level |-> d.level, remaining |-> d.remaining, accumulated |-> {},
              visited |-> d.visited]

-----------------------------------------------------------------------------
(* What a search, or its image, is to be like.                              *)

\* A complexity of a level already opened is still to be done, or leads to a place
\* that is visited or still to be visited.
CoverageOf(s) ==
  ~s.am_bootstrapping => \A l \in Level : l <= s.level => \A x \in LevelRange(l) :
    \/ PlaceOf(s, x) \in s.visited
    \/ \E y \in s.remaining : PlaceOf(s, x) = PlaceOf(s, y)

\* None of the places is better than the best find, up to the improvement ratio
\* below which a find is not reported.
BestOf(s, places) ==
  ~s.am_bootstrapping => \A pl \in places : Value[pl] >= Target[s.e_min]

=============================================================================
