---------------------------- MODULE Complexities ----------------------------
(***************************************************************************)
(* The complexities of a task as task_processor and its processing peers   *)
(* keep them (netcpu/converger_1/server.h): maps of ranges, changed with   *)
(* range_utils.h, over the levels that combos_builder.h has numbered.      *)
(***************************************************************************)
EXTENDS CombosBuilder, RangeUtils

CONSTANTS
  Grids,       \* grids (see CombosBuilder) that a task may have
  MaxPeers,    \* bound: number of processing peers
  MaxSize      \* bound: complexities of a level that is worked on

VARIABLES
  grid,         \* what the task was built from; never changes
  built,        \* combos_modem
  level,        \* current_complexity_level
  remaining,    \* remaining_complexities
  accumulated,  \* accumulated_remaining_complexities_since_last_sync
  shares        \* remaining_complexities of each processing peer

vars == <<grid, built, level, remaining, accumulated, shares>>

LevelStart(l) == IF l = 1 THEN 0 ELSE built.levels[l - 1]
LevelRange(l) == LevelStart(l) .. (built.levels[l] - 1)

\* do_redistribute_remaining_peers_complexities, its loop: range a[i] has
\* `avail' numbers left, the last of the shares dealt so far has room for `room'.
RECURSIVE Dealing(_, _, _, _, _, _)
Dealing(a, n, i, avail, dealt, room) ==
  LET size  == Max({1, Cardinality(Denoted(a)) \div n})
      chunk == Min({room, avail})
      now   == [dealt EXCEPT ![Len(dealt)] = Append(@, <<End(a[i]) - avail, chunk>>)]
      more  == Len(dealt) < n
      next  == IF avail # chunk THEN i ELSE IF i < Len(a) THEN i + 1 ELSE 1
      left  == IF avail # chunk THEN avail - chunk ELSE a[next][2]
  IN IF ~more /\ (room = chunk \/ (avail = chunk /\ i = Len(a))) THEN now
     ELSE IF room = chunk THEN Dealing(a, n, next, left, Append(now, <<>>), size)
     ELSE Dealing(a, n, next, left, now, room - chunk)

Dealt(a, n) ==
  Dealing(a, n, 1, a[1][2], <<<<>>>>, Max({1, Cardinality(Denoted(a)) \div n}))

-----------------------------------------------------------------------------
\* Each action is one use of the ranges; Converger says which of them a handler
\* makes, and when.

\* do_redistribute_remaining_peers_complexities.
Deal(n) ==
  /\ remaining # <<>>
  /\ shares' = Dealt(remaining, n)
  /\ UNCHANGED <<grid, built, level, remaining, accumulated>>

\* on_peer_report, for one of the ranges of the report of peer i.
Report(i, r) ==
  /\ built.levels[level] - LevelStart(level) <= MaxSize
  /\ shares' = [shares EXCEPT ![i] = Subtract(@, <<r>>)]
  /\ accumulated' = Add(accumulated, <<r>>)
  /\ UNCHANGED <<grid, built, level, remaining>>

\* on_coroutine, before it looks for a better find.
Merge ==
  /\ accumulated # <<>> /\ accumulated' = <<>>
  /\ remaining' = Subtract(remaining, accumulated)
  /\ shares' = IF remaining' = <<>> THEN shares
               ELSE [i \in DOMAIN shares |-> Subtract(shares[i], accumulated)]
  /\ UNCHANGED <<grid, built, level>>

\* The complexities of level l without those that lead to visited places, and
\* without those that lead to the place of an earlier one: first each of the
\* visited by itself, then the others, collected, at once.
Culled(l, visited, twice) ==
  LET InOrder(S) == SetToSortSeq(S, <)
      unvisited  == FoldLeft(LAMBDA a, x : Subtract(a, <<<<x, 1>>>>),
                             <<Between(LevelStart(l), built.levels[l])>>, InOrder(visited))
  IN IF twice = {} THEN unvisited
     ELSE Subtract(unvisited,
                   FoldLeft(LAMBDA a, x : Add(a, <<<<x, 1>>>>), <<>>, InOrder(twice)))

\* The remaining complexities become those of level l: the next level, or the
\* first one around another centre.  Nothing is dealt if none is left of them.
Enter(l) ==
  /\ built.levels[l] - LevelStart(l) <= MaxSize
  /\ level' = l
  /\ \E visited \in SUBSET LevelRange(l) : \E twice \in SUBSET (LevelRange(l) \ visited) :
       remaining' = Culled(l, visited, twice)
  /\ IF remaining' = <<>> THEN shares' = shares
     ELSE \E n \in 1 .. MaxPeers : shares' = Dealt(remaining', n)
  /\ UNCHANGED <<grid, built, accumulated>>

\* A task none of whose levels fits is refused by the controller.
Init ==
  /\ grid \in Grids
  /\ built = Build(grid) /\ built.levels # <<>>
  /\ level = 1 /\ remaining = <<Between(0, built.levels[1])>>
  /\ accumulated = <<>> /\ shares = <<>>

\* Reports are only taken while something remains; they are merged before the
\* level is left.
Next ==
  \/ \E n \in 1 .. MaxPeers : Deal(n)
  \/ Merge
  \/ /\ remaining # <<>>
     /\ \E i \in DOMAIN shares : \E x \in LevelRange(level) : \E y \in x .. Max(LevelRange(level)) :
          Report(i, Between(x, y + 1))
  \/ remaining = <<>> /\ accumulated = <<>> /\ level < Len(built.levels) /\ Enter(level + 1)
  \/ accumulated = <<>> /\ Enter(1)

Spec == Init /\ [][Next]_vars

-----------------------------------------------------------------------------
(* Properties.                                                              *)

\* test_container: whatever was added and subtracted, ranges are in order and
\* never touch each other: every function relies on it, none checks it in a build
\* without assertions.  And "assert(find(remaining_complexities, i) == false)" holds of
\* exactly what has been subtracted.
Ordered ==
  /\ TestContainer(remaining) /\ TestContainer(accumulated)
  /\ \A i \in DOMAIN shares : TestContainer(shares[i])
  /\ \A x \in 0 .. built.levels[Len(built.levels)] :
       Find(remaining, x) <=> x \in Denoted(remaining)

\* Adding, subtracting and dealing ranges, with all their ways of touching,
\* containing and splitting each other, is what it says of the sets they stand
\* for: this is what lets Converger speak of sets.
Sets == INSTANCE ComplexitySets
          WITH ends <- built.levels, todo <- Denoted(remaining), done <- Denoted(accumulated),
               owed <- [i \in DOMAIN shares |-> Denoted(shares[i])]

\* Ways to move l coefficients at once.
Moves(l) ==
  UNION {{f \in [S -> 0 .. Max({Resolution(grid, k, l) : k \in S}) - 1] :
            \A k \in S : f[k] < Resolution(grid, k, l)} : S \in kSubset(l, Coefficients(grid))}

\* Every way to move the coefficients of a level has one complexity, and every
\* complexity is one of them: none is evaluated twice or left out around a centre.
NumbersAllMoves(l) ==
  /\ {Demodulate(built, x) : x \in LevelRange(l)} = Moves(l)
  /\ Cardinality(LevelRange(l)) = Cardinality(Moves(l))

\* The levels are those whose moves fit below the complexity size together, no fewer and
\* none cut short, and all moves of each are numbered, although the sizes are counted in
\* numbers that wrap around.
NumbersWhatFits ==
  LET total[l \in 0 .. grid.coeffs_at_once] ==
        IF l = 0 THEN 0 ELSE total[l - 1] + Cardinality(Moves(l))
  IN /\ \A l \in DOMAIN built.levels :
          NumbersAllMoves(l) /\ built.levels[l] = total[l] /\ total[l] <= grid.complexity_size
     /\ Len(built.levels) < grid.coeffs_at_once =>
          total[Len(built.levels) + 1] > grid.complexity_size
=============================================================================
