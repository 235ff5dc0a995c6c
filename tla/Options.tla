------------------------------- MODULE Options -------------------------------
(***************************************************************************)
(* The options a controller is started with, and the task it makes of them *)
(* or refuses (task_loader_detail, netcpu/converger_1/controller.h).  Each *)
(* --coeffs_atonce_size begins a section of --cm options: the first one is *)
(* about the ranges that the search begins with, the others are further    *)
(* levels of zoom.  A section is a record: at_once, and the sequence cms   *)
(* of its --cm, each about one coefficient and those after it.             *)
(***************************************************************************)
EXTENDS CombosBuilder, Fractions

\* grid_resolution[:grid_resolution:etc.]
Resolutions(r, at_once) ==
  /\ r # <<>> /\ Len(r) <= at_once
  /\ \A l \in DOMAIN r : r[l] >= 2 /\ r[l] <= r[1]

Slowdown(x) == AtMost(Whole(0), x) /\ Below(x, Whole(1))

\* No two --cm of a section are about the same coefficient.
Unique(cms) == \A k, m \in DOMAIN cms : cms[k].coefficient = cms[m].coefficient => k = m

FirstSection(s) ==
  /\ s.at_once > 0 /\ Unique(s.cms)
  /\ \A k \in DOMAIN s.cms :
       LET cm == s.cms[k] IN
         /\ Below(cm.from, cm.to) /\ Below(Whole(0), cm.minstep) /\ Slowdown(cm.slowdown)
         /\ Resolutions(cm.resolutions, s.at_once)

ZoomSection(s) ==
  /\ s.at_once > 0 /\ Unique(s.cms)
  /\ \A k \in DOMAIN s.cms :
       Slowdown(s.cms[k].slowdown) /\ Resolutions(s.cms[k].resolutions, s.at_once)

-----------------------------------------------------------------------------
\* The --cm that coefficient i is like: its own, or that of the last one before.
About(s, i) ==
  LET before == {k \in DOMAIN s.cms : s.cms[k].coefficient <= i}
  IN s.cms[CHOOSE k \in before : \A m \in before : s.cms[m].coefficient <= s.cms[k].coefficient]

\* The last resolution given stands for the levels it was not given for.
Padded(r, at_once) == [l \in 1 .. at_once |-> r[IF l <= Len(r) THEN l ELSE Len(r)]]

\* bulk_msg.coeffs and coeffs_x.
Coeffs(s, n) ==
  [i \in 1 .. n |-> LET cm == About(s, i) IN
     [from |-> cm.from, to |-> cm.to, end |-> cm.minstep, slowdown |-> cm.slowdown,
      resolutions |-> Padded(cm.resolutions, s.at_once)]]

CoeffsX(s, n) ==
  [i \in 1 .. n |-> LET cm == About(s, i) IN
     [threshold |-> cm.threshold, slowdown |-> cm.slowdown,
      resolutions |-> Padded(cm.resolutions, s.at_once)]]

\* combos_builder does not have to leave out a level.
FitsIn(coeffs, at_once, size) ==
  Len(Build([resolutions |-> [i \in DOMAIN coeffs |-> coeffs[i].resolutions],
             complexity_size |-> size, coeffs_at_once |-> at_once]).levels) = at_once

\* What is sent, for a model of n coefficients.  The ctor gives up on anything else.  (A
\* level of zoom has to begin with coefficient 1, although nobody checks it: the ctor
\* would take values of no --cm at all.)
Accepted(o, n) ==
  /\ FirstSection(o.sections[1]) /\ o.sections[1].cms # <<>>
  /\ \E k \in DOMAIN o.sections[1].cms : o.sections[1].cms[k].coefficient = 1
  /\ \A k \in DOMAIN o.sections[1].cms : o.sections[1].cms[k].coefficient <= n
  /\ o.complexity_size > 0
  /\ o.sections[1].at_once <= n
  /\ FitsIn(Coeffs(o.sections[1], n), o.sections[1].at_once, o.complexity_size)
  /\ \A z \in 2 .. Len(o.sections) :
       /\ ZoomSection(o.sections[z]) /\ o.sections[z].cms # <<>>
       /\ o.sections[z].at_once <= n
       /\ FitsIn(CoeffsX(o.sections[z], n), o.sections[z].at_once, o.complexity_size)

Task(o, n) ==
  [at_once |-> o.sections[1].at_once, coefficients |-> Coeffs(o.sections[1], n),
   zooms |-> [z \in 1 .. Len(o.sections) - 1 |->
                [at_once |-> o.sections[z + 1].at_once,
                 coefficients |-> CoeffsX(o.sections[z + 1], n)]]]
=============================================================================
