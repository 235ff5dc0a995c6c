------------------------------ MODULE MCSearch ------------------------------
(***************************************************************************)
(* The search of a task, checked part by part: its course over a grid of   *)
(* MCGrids, and what it is made of, its complexities as ranges, its        *)
(* coefficients as numbers, and the keys of its places.  The parts share   *)
(* no state; Init chooses one.                                             *)
(***************************************************************************)
EXTENDS Convergence, MCGrids, CombosBuilder

CONSTANTS Parts,   \* of {"course", "complexities", "coefficients", "keys"}
  Grids, MaxPeers, MaxSize, MaxRestarts, CacheSize, MaxVisited, MaxUniques

VARIABLES part,
  grid, built, level, remaining, accumulated, shares,
  task, coef, at_once, wait, am_bootstrapping, saved, shown, news, restarts,
  sizes, mem

complexitiesVars == <<grid, built, level, remaining, accumulated, shares>>
coefficientsVars == <<task, coef, at_once, wait, am_bootstrapping, saved, shown, news, restarts>>
keysVars == <<sizes, mem>>

-----------------------------------------------------------------------------

Built(r, size) == [resolutions |-> r, complexity_size |-> size, coeffs_at_once |-> Len(r[1])]

\* Two coefficients: both levels fit exactly, all but one complexity of the
\* second does, or there is room to spare.
Two == {Built(<<<<3, 2>>, <<2, 1>>>>, size) : size \in {5, 8, 9, 15}}

\* Three and four: their combinations are only built, dealt and taken apart.
Three == {Built(<<<<4, x, 2>>, <<3, y, 2>>, <<3, z, 1>>>>, size) :
            x \in 2 .. 4, y \in 2 .. 3, z \in 1 .. 3, size \in {30, 40, 50}}
\* 50 complexities fit exactly; of the 112 of the other all numbers of size_type
\* are used up and the sum wraps around.
Four == {Built(<<<<4, 3>>, <<4, 2>>, <<3, 3>>, <<2, 2>>>>, 50),
         Built(<<<<4, 4>>, <<4, 4>>, <<4, 4>>, <<4, 4>>>>, 63)}

SomeGrids == Two \cup Three \cup Four

Ranges == INSTANCE Complexities

-----------------------------------------------------------------------------
\* Options of a controller, for a model of two coefficients.
Options == INSTANCE Options
F == INSTANCE Fractions

Cm(c, from, to, minstep, resolutions) ==
  [coefficient |-> c, from |-> F!Whole(from), to |-> F!Whole(to), minstep |-> F!Whole(minstep),
   slowdown |-> F!Whole(0), resolutions |-> resolutions]
ZoomCm(c, threshold, slowdown, resolutions) ==
  [coefficient |-> c, threshold |-> F!Whole(threshold), slowdown |-> slowdown,
   resolutions |-> resolutions]
Section(n, cms) == [at_once |-> n, cms |-> cms]
Given(sections, size) == [sections |-> sections, complexity_size |-> size]

Wide == Cm(1, 0, 8, 4, <<3, 2>>)
Narrow == Cm(2, -2, 2, 2, <<2>>)
Both == Section(2, <<Cm(2, -2, 2, 3, <<2>>), Cm(1, 0, 8, 6, <<3, 2>>)>>)
BothCoarse == Section(2, <<Narrow, Cm(1, 0, 8, 4, <<2>>)>>)
Closer == Section(1, <<ZoomCm(1, 6, <<1, 4>>, <<2>>), ZoomCm(2, 3, F!Whole(0), <<3>>)>>)
Apart == Section(1, <<Cm(1, 0, 4, 3, <<2>>), Cm(2, 0, 8, 5, <<2>>)>>)
OneForAll(minstep, resolution) == Section(1, <<Cm(1, 0, 4, minstep, <<resolution>>)>>)

\* With and without another level of zoom, one --cm for all, ranges that would not end at
\* the same time if each went its own way, and some that are refused:
\* no room for the second level, no step, no grid, a range for a third coefficient.
SomeOptions ==
  {Given(<<Both>>, 20), Given(<<BothCoarse, Closer>>, 20), Given(<<OneForAll(3, 2)>>, 4),
   Given(<<Apart>>, 4),
   Given(<<Both>>, 8), Given(<<OneForAll(0, 2)>>, 4), Given(<<OneForAll(3, 1)>>, 4),
   Given(<<Section(1, <<Wide, Cm(3, 0, 1, 1, <<2>>)>>)>>, 20)}

Submitted == {Options!Task(o, 2) : o \in {x \in SomeOptions : Options!Accepted(x, 2)}}
Coefficients2 == INSTANCE Coefficients WITH Tasks <- Submitted

\* Two coefficients; a shrink changes the resolution of the first.
Keys == INSTANCE BigUints WITH Sizes <- {<<2, 2>>, <<3, 2>>}

-----------------------------------------------------------------------------
\* A part that is not looked at is left at any one of its initial states.
SomeTask == CHOOSE t \in Submitted : TRUE
SomeGrid == CHOOSE g \in Two : TRUE
MCInit ==
  /\ part \in Parts /\ Init /\ Ranges!Init /\ Coefficients2!Init /\ Keys!Init
  /\ part # "complexities" => grid = SomeGrid
  /\ part # "coefficients" => task = SomeTask
  /\ part # "keys" => sizes = <<2, 2>>

\* A task that is finished and told is left alone.
Completed == wait = 0 /\ news = <<>> /\ UNCHANGED coefficientsVars

MCNext ==
  /\ \/ /\ part = "course" /\ Next
        /\ UNCHANGED <<complexitiesVars, coefficientsVars, keysVars>>
     \/ /\ part = "complexities" /\ Ranges!Next
        /\ UNCHANGED <<vars, coefficientsVars, keysVars>>
     \/ /\ part = "coefficients" /\ (Coefficients2!Next \/ Completed)
        /\ UNCHANGED <<vars, complexitiesVars, keysVars>>
     \/ /\ part = "keys" /\ Keys!Next
        /\ UNCHANGED <<vars, complexitiesVars, coefficientsVars>>
  /\ UNCHANGED part

MCSpec == MCInit /\ [][MCNext]_<<vars, complexitiesVars, coefficientsVars, keysVars, part>>

\* Ranges!Ordered: ranges are in order and do not touch, and hold what they should.
Ordered == part = "complexities" => Ranges!Ordered

\* Ranges!NumbersWhatFits: the complexities are the moves of the levels that fit.
NumbersWhatFits == part = "complexities" => Ranges!NumbersWhatFits

\* Complexities implements ComplexitySets: what is done to ranges is done to the sets they
\* stand for.
RefinesSets ==
  /\ part = "complexities" => Ranges!Sets!Init
  /\ [][part = "complexities" => [Ranges!Sets!Next]_(Ranges!Sets!vars)]_complexitiesVars

\* Coefficients2!PeersFollow: a peer evaluates where the server thinks.
PeersFollow == part = "coefficients" => Coefficients2!PeersFollow

\* Coefficients2!ZoomsIn: shrinking and restarting lose no range and no position.
RangesZoomIn == [][part = "coefficients" => Coefficients2!ZoomsIn]_coefficientsVars

\* Keys!KeysArePlaces: no key of a visited place is changed by making another.
KeysArePlaces == part = "keys" => Keys!KeysArePlaces
=============================================================================
