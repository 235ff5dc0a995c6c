----------------------------- MODULE Coefficients -----------------------------
(***************************************************************************)
(* The coefficients of a task as numbers: where each is, in which range    *)
(* and on which grid of values (value_on_grid.h, coefficient_metadata of   *)
(* netcpu/converger_1).  The server moves them, shrinks their ranges, and  *)
(* saves and restores them; a peer follows by what it is sent.             *)
(***************************************************************************)
EXTENDS Fractions, Sequences, FiniteSets

CONSTANTS
  Tasks,        \* what a controller has submitted (see Options): coefficients,
                \* coeffs_at_once, and further levels of zoom
  MaxRestarts   \* bound

VARIABLES
  task,
  coef,            \* coefficients_metadata: now_value_ (i and f), value_from_, rand_range_, ...
  at_once,         \* intended_coeffs_at_once
  wait,            \* coefficients_rand_range_ended_wait
  am_bootstrapping,
  saved,           \* convergence_state.bin; <<>> if there is none
  shown,           \* coefficients_metadata of a processing peer
  news,            \* what the peer has not read yet: <<>>, or the message and the coefficients moved
  restarts

vars == <<task, coef, at_once, wait, am_bootstrapping, saved, shown, news, restarts>>

Coefs == DOMAIN task.coefficients
Meta(c) == task.coefficients[c]      \* coeffwise_bulk
Initial(c) == Minus(Meta(c).to, Meta(c).from)
State == <<"state", <<>>>>
Indices == UNION {0 .. (coef[c].resolutions[1] - 1) : c \in Coefs}

-----------------------------------------------------------------------------
\* value_on_grid::index: grid value i of m that divide the range into m + 1.
Index(m, i) ==
  [m EXCEPT !.i = i,
            !.f = Plus(m.from, Times(Whole(i + 1), Over(m.range, Whole(m.resolutions[1] + 1))))]

\* value_on_grid::clobber.
Clobber(m, i, f) == [m EXCEPT !.i = i, !.f = f]

\* value_from_grid: value i of the coarser grid of a level, on the first one.
FromGrid(m, i, resolution) ==
  IF m.ended THEN m
  ELSE Index(m, (i * 2 * m.resolutions[1] + m.resolutions[1]) \div (2 * resolution))

\* combos_modem.demodulate, and value_save of all: those moved are on the grid, the
\* others where they were.
Moved(all, moves) ==
  [c \in DOMAIN all |-> IF c \in DOMAIN moves
                         THEN FromGrid(all[c], moves[c], all[c].resolutions[Cardinality(DOMAIN moves)])
                         ELSE all[c]]

\* coefficient_metadata::sync of a peer, from what coefficient_to_server_state_sync_msg wrote.
Synced(m) ==
  LET wire == [i |-> m.i, f |-> m.f, from |-> m.from, range |-> m.range, ended |-> m.ended,
               resolutions |-> m.resolutions]
  IN IF m.ended THEN Clobber(wire, m.i, m.f) ELSE Index(wire, m.i)

\* reset_before_bootstrapping.
Fresh(c) ==
  Index([i |-> 0, f |-> Meta(c).from, from |-> Meta(c).from, range |-> Initial(c), ended |-> FALSE,
         slowdown |-> Meta(c).slowdown, resolutions |-> Meta(c).resolutions], 0)

-----------------------------------------------------------------------------
\* The ranges after a shrink.  All of them have gone the same part of the way to their
\* ends, which is the smallest part that any would go by itself.

Step(m) == Over(m.range, Whole(m.resolutions[1] + 1))
Zoomed(m) == Plus(Step(m), Step(m))                 \* completely_zoomed_range
FromDiff(m) == Minus(Minus(m.f, Step(m)), m.from)
ToDiff(m) == Minus(Plus(m.from, m.range), Plus(m.f, Step(m)))
TotalDiff(m) == Plus(FromDiff(m), ToDiff(m))
Way(c) == Minus(Initial(c), Meta(c).end)            \* total_range_delta

\* shrink_prepare: the part of the way it would go.
Ratio(c) ==
  Over(Minus(Initial(c), Plus(Zoomed(coef[c]), Times(TotalDiff(coef[c]), coef[c].slowdown))), Way(c))

\* on_sync_timeout, over all of shrink_prepare.
MinRatio == Least({Ratio(c) : c \in {d \in Coefs : ~coef[d].ended}})

\* diff_scaler of shrink_execute.
Scaler(c, ratio) ==
  Over(Minus(Minus(Initial(c), Times(ratio, Way(c))), Zoomed(coef[c])), TotalDiff(coef[c]))

\* Mutant of Shrunk: each goes its own part of the way.
ShrunkByItself(c, ratio) ==
  LET m     == coef[c]
      range == Plus(Zoomed(m), Times(TotalDiff(m), m.slowdown))
  IN IF m.ended THEN m
     ELSE [m EXCEPT !.from = Minus(Minus(m.f, Step(m)), Times(m.slowdown, FromDiff(m))),
                    !.range = range, !.ended = AtMost(range, Meta(c).end)]

\* shrink_execute and update_rand_range.
Shrunk(c, ratio) ==
  LET m    == coef[c]
      from == Minus(Minus(m.f, Step(m)), Times(Scaler(c, ratio), FromDiff(m)))
      to   == Plus(Plus(m.f, Step(m)), Times(Scaler(c, ratio), ToDiff(m)))
  IN IF m.ended THEN m
     ELSE [m EXCEPT !.from = from, !.range = Minus(to, from),
                    !.ended = AtMost(Minus(to, from), Meta(c).end)]

\* The further levels of zoom, each taken by the coefficients whose ranges allow it.
Zoom(m, c, levels) ==
  LET taken == {l \in DOMAIN levels : AtMost(m.range, levels[l].coefficients[c].threshold)}
      last  == CHOOSE l \in taken : \A k \in taken : k <= l
  IN IF taken = {} THEN m
     ELSE [m EXCEPT !.slowdown = levels[last].coefficients[c].slowdown,
                    !.resolutions = levels[last].coefficients[c].resolutions]

\* intended_coeffs_at_once is that of the last level which all of them have taken.
ZoomedAtOnce(all, levels) ==
  LET ok   == {l \in DOMAIN levels :
                 \A c \in Coefs : AtMost(all[c].range, levels[l].coefficients[c].threshold)}
  IN IF ok = {} THEN at_once ELSE levels[CHOOSE l \in ok : \A k \in ok : k <= l].at_once

\* post_shrink: resolutions for as many at once, and the position until one is drawn.
PostShrink(m, n) ==
  LET padded == [m EXCEPT !.resolutions =
                   [l \in 1 .. (IF Len(@) < n THEN n ELSE Len(@)) |->
                      @[IF l <= Len(@) THEN l ELSE Len(@)]]]
  IN IF m.ended THEN Clobber(padded, 0, m.f) ELSE Index(padded, 0)

-----------------------------------------------------------------------------
\* on_bootstrapping_peer_report: a peer has drawn a place (value_rand_on_bootstrap).  It
\* draws again as long as it is where it already is, which it does not evaluate.
Bootstrap ==
  /\ am_bootstrapping /\ wait # 0
  /\ \E drawn \in [Coefs -> Indices] :
       /\ \A c \in Coefs : drawn[c] < coef[c].resolutions[1]
       /\ \E c \in Coefs : ~coef[c].ended /\ drawn[c] # coef[c].i
       /\ coef' = [c \in Coefs |-> IF coef[c].ended THEN coef[c] ELSE Index(coef[c], drawn[c])]
  /\ am_bootstrapping' = FALSE
  /\ news' = State
  /\ UNCHANGED <<task, at_once, wait, saved, shown, restarts>>

\* Mutant of Recentre: a message that has not been read is replaced by the next.
RecentreReplaced ==
  /\ ~am_bootstrapping
  /\ \E S \in SUBSET Coefs : \E moves \in [S -> Indices] :
       /\ S # {} /\ Cardinality(S) <= at_once
       /\ \A c \in S : moves[c] < coef[c].resolutions[Cardinality(S)]
       /\ coef' = Moved(coef, moves)
       /\ news' = <<"recentre", moves>>
  /\ UNCHANGED <<task, at_once, wait, am_bootstrapping, saved, shown, restarts>>

\* A better find in on_sync_timeout: the search recentres on the place it was found at.
\* A peer is told how to go there, or everything if it is told something else already.
Recentre ==
  /\ ~am_bootstrapping
  /\ \E S \in SUBSET Coefs : \E moves \in [S -> Indices] :
       /\ S # {} /\ Cardinality(S) <= at_once
       /\ \A c \in S : moves[c] < coef[c].resolutions[Cardinality(S)]
       /\ coef' = Moved(coef, moves)
       /\ news' = IF news = <<>> THEN <<"recentre", moves>> ELSE State
  /\ UNCHANGED <<task, at_once, wait, am_bootstrapping, saved, shown, restarts>>

\* on_sync_timeout, when nothing is left to do around the centre.  With the last range
\* to end the state is saved, and the task completed.
Shrink ==
  /\ ~am_bootstrapping
  /\ LET shrunk == [c \in Coefs |-> Shrunk(c, MinRatio)]
     IN /\ at_once' = ZoomedAtOnce(shrunk, task.zooms)
        /\ wait' = wait - Cardinality({c \in Coefs : shrunk[c].ended /\ ~coef[c].ended})
        /\ coef' = [c \in Coefs |-> PostShrink(Zoom(shrunk[c], c, task.zooms), at_once')]
  /\ am_bootstrapping' = TRUE
  /\ saved' = IF wait' = 0 THEN [coef |-> coef', at_once |-> at_once', wait |-> wait', boot |-> TRUE]
              ELSE saved
  /\ news' = IF wait' = 0 THEN news ELSE State
  /\ UNCHANGED <<task, shown, restarts>>

\* server_state_sync, or server_recentre_only_sync, at a peer.
PeerReads ==
  /\ news # <<>> /\ news' = <<>>
  /\ shown' = IF news = State THEN [c \in Coefs |-> Synced(coef[c])]
              ELSE Moved(shown, news[2])
  /\ UNCHANGED <<task, coef, at_once, wait, am_bootstrapping, saved, restarts>>

\* do_save_convergence_state.
Save ==
  /\ wait # 0
  /\ saved' = [coef |-> coef, at_once |-> at_once, wait |-> wait, boot |-> am_bootstrapping]
  /\ UNCHANGED <<task, coef, at_once, wait, am_bootstrapping, shown, news, restarts>>

\* reset_from_convergence_state, for each coefficient.
Restored(m) == IF m.ended THEN Index(m, m.i) ELSE Clobber(m, m.i, m.f)

\* The server is killed, and task_processor made again; the peer comes back.  (That
\* nothing waits any more is refused, and is the subject of Converger's "resume".)
Restart ==
  /\ restarts < MaxRestarts /\ wait # 0
  /\ restarts' = restarts + 1
  /\ IF saved = <<>>
     THEN /\ coef' = [c \in Coefs |-> Fresh(c)] /\ at_once' = task.at_once
          /\ wait' = Len(task.coefficients) /\ am_bootstrapping' = TRUE
     ELSE /\ coef' = [c \in Coefs |-> Restored(saved.coef[c])] /\ at_once' = saved.at_once
          /\ wait' = saved.wait /\ am_bootstrapping' = saved.boot
  /\ news' = State
  /\ UNCHANGED <<task, saved, shown>>

Init ==
  /\ task \in Tasks
  /\ coef = [c \in Coefs |-> Fresh(c)] /\ at_once = task.at_once
  /\ wait = Len(task.coefficients) /\ am_bootstrapping = TRUE /\ saved = <<>>
  /\ shown = [c \in Coefs |-> Synced(coef[c])] /\ news = <<>>
  /\ restarts = 0

Next == Bootstrap \/ Recentre \/ Shrink \/ PeerReads \/ Save \/ Restart
Spec == Init /\ [][Next]_vars

-----------------------------------------------------------------------------
(* Properties.                                                              *)

\* A peer that has read what it was sent evaluates at the places the server thinks of:
\* positions, ranges and resolutions are the same on both sides, although some of them
\* were sent, some computed again from others, and some moved on by the peer itself.
PeersFollow ==
  news = <<>> /\ wait # 0 =>
    \A c \in Coefs : \A x \in {"i", "f", "from", "range", "ended", "resolutions"} :
      shown[c][x] = coef[c][x]

To(m) == Plus(m.from, m.range)

\* Each shrink zooms in on where the search has arrived: the new range is within the
\* former one, around the former position; and a restart brings back what was saved, to
\* the value of every coefficient, although it computes the position of a coefficient
\* whose range has ended again from an index that it has no more (server.h:422).  The
\* ranges end all at once, which is what makes that harmless.
ZoomsIn ==
  IF restarts' = restarts
  THEN \A c \in Coefs :
         /\ AtMost(coef[c].from, coef'[c].from) /\ AtMost(To(coef'[c]), To(coef[c]))
         /\ AtMost(coef'[c].from, coef[c].f) /\ AtMost(coef[c].f, To(coef'[c]))
  ELSE saved # <<>> => coef' = saved.coef
=============================================================================
