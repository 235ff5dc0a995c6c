-------------------------------- MODULE Layout --------------------------------
(***************************************************************************)
(* The block of memory that the models with draws keep their arrays in     *)
(* (constructors of task_processor in netcpu/{mixed_logit,gmnl_2,gmnl_2a}/ *)
(* processor.h), and the estimate of its size by which on_meta_read of a   *)
(* peer accepts a task.                                                    *)
(*                                                                         *)
(* Arrays of draws are stored in columns that are padded so that each one  *)
(* begins on an aligned address.  The tags of the caches need no alignment *)
(* and begin in the padding of the last column before them.                *)
(***************************************************************************)
EXTENDS Integers, SequencesExt

CONSTANT Metas   \* tasks

\* What the layout depends on: the constructor asserts that there are enough repetitions,
\* a dataset has respondents, attributes and alternatives, and a server knows float and
\* double only.
Meta == [repetitions : Nat \ {0}, draws : Nat \ {0}, x : Nat \ {0}, alternatives : Nat \ {0},
         elements : Nat, float : {4, 8}, extended : {4, 8}]

ModelsWithDraws == {"mixed_logit", "gmnl_2", "gmnl_2a"}
DefaultAlign == 16

\* Elements of `bytes' bytes that a column of one per repetition takes.
Stride(m, bytes) ==
  LET by == DefaultAlign \div bytes
  IN IF m.repetitions % by = 0 THEN m.repetitions ELSE (m.repetitions + by) - (m.repetitions % by)

\* size: by how much the next array is further on; reach: what is used of the array.
Columns(m, n) == [bytes |-> m.float, size |-> n * Stride(m, m.float),
                  reach |-> (n - 1) * Stride(m, m.float) + m.repetitions, aligned |-> TRUE]
Extended(m) == [bytes |-> m.extended, size |-> Stride(m, m.extended),
                reach |-> m.repetitions, aligned |-> TRUE]
Tags(m, n) == [bytes |-> m.float, size |-> n, reach |-> n, aligned |-> FALSE]

\* Mutant of LastColumns: the padding is taken back even if there is none.
LastColumnsAlways(m, n) ==
  LET by == DefaultAlign \div m.float
  IN [Columns(m, n) EXCEPT !.size = @ - (by - (m.repetitions % by))]

\* Columns before tags.
LastColumns(m, n) ==
  LET by == DefaultAlign \div m.float
  IN [Columns(m, n) EXCEPT !.size = @ - IF m.repetitions % by = 0 THEN 0
                                        ELSE by - (m.repetitions % by)]

Times(n, array) == [k \in 1 .. n |-> array]

MixedLogitArrays(m) ==
  LET d == m.draws  dx == m.draws * m.x
  IN Times(2, Extended(m))                 \* respondent_probability_cache, .._rowwise_tmp
     \o Times(2, Columns(m, dx))           \* eta_cache_x, eta_cache
     \o <<Columns(m, m.alternatives), Extended(m)>>   \* ev_cache_tmp.., ev_cache
     \o <<LastColumns(m, dx)>>             \* matrix_haltons_nonsigma
     \o <<Tags(m, d)>> \o Times(2, Tags(m, dx))   \* composite tau, etavars, betavars

Gmnl2Arrays(m) ==
  LET d == m.draws  dx == m.draws * m.x
  IN Times(2, Extended(m))
     \o Times(2, Columns(m, d))            \* sigma_cache_{main, tmp}
     \o Times(2, Columns(m, dx))
     \o <<Columns(m, m.alternatives), Extended(m)>>
     \o <<Columns(m, dx), LastColumns(m, d)>>     \* matrix_haltons_{nonsigma, sigma}
     \o Times(3, Tags(m, d)) \o Times(2, Tags(m, dx))

Gmnl2aArrays(m) ==
  LET d == m.draws  dx == m.draws * m.x
  IN Times(2, Extended(m))
     \o Times(8, Columns(m, d))   \* sigma, phi_covariance, phi_scaled, complete_phi {main, tmp}
     \o Times(2, Columns(m, dx))
     \o <<Columns(m, m.alternatives), Extended(m)>>
     \o <<Columns(m, dx), Columns(m, d), LastColumns(m, d)>>   \* ... and phi_draws
     \o Times(14, Tags(m, d)) \o Times(7, Tags(m, dx))

Arrays(model, m) == CASE model = "mixed_logit" -> MixedLogitArrays(m)
                      [] model = "gmnl_2" -> Gmnl2Arrays(m)
                      [] model = "gmnl_2a" -> Gmnl2aArrays(m)

\* The arrays one after the other: where each begins, how far it is used and where the
\* next one begins, in bytes.
Place(arrays) ==
  LET from[k \in 1 .. Len(arrays) + 1] ==
        IF k = 1 THEN 0 ELSE from[k - 1] + arrays[k - 1].size * arrays[k - 1].bytes
  IN [k \in 1 .. Len(arrays) |->
        [begin |-> from[k], end |-> from[k] + arrays[k].reach * arrays[k].bytes,
         next |-> from[k + 1], aligned |-> arrays[k].aligned]]

-----------------------------------------------------------------------------
(* anticipated_ram_utilization                                             *)

Shared(m) == m.extended * 3 * m.repetitions
             + m.float * (m.repetitions * m.alternatives + m.elements)

MixedLogitAnticipated(m) ==
  LET d == m.draws  dx == m.draws * m.x
  IN Shared(m) + m.float * (3 * m.repetitions * dx + d + 2 * dx + 2 * m.repetitions * d)

Gmnl2Anticipated(m) ==
  LET d == m.draws  dx == m.draws * m.x
  IN Shared(m) + m.float * (3 * m.repetitions * dx + 3 * d + 2 * dx + 3 * m.repetitions * d)

Gmnl2aAnticipated(m) ==
  LET d == m.draws  dx == m.draws * m.x
  IN Shared(m) + m.float * (3 * m.repetitions * dx + 14 * d + 6 * dx + 10 * m.repetitions * d)

Anticipated(model, m) == CASE model = "mixed_logit" -> MixedLogitAnticipated(m)
                           [] model = "gmnl_2" -> Gmnl2Anticipated(m)
                           [] model = "gmnl_2a" -> Gmnl2aAnticipated(m)

\* Mutant of Reckoned: no allowance for anything but the arrays.
ReckonedBare(x) == x + x \div 10

\* What test_anticipated_ram_utilization reckons with for that.
Reckoned(x) == x + x \div 10 + 21000000

-----------------------------------------------------------------------------
VARIABLES meta, held   \* a task that a peer gets, and the arrays it keeps for it

Init == meta \in [model : ModelsWithDraws, m : Metas] /\ held = <<>>
Construct == /\ held = <<>>
             /\ held' = Place(Arrays(meta.model, meta.m))
             /\ UNCHANGED meta
Constructed == held # <<>> /\ UNCHANGED <<meta, held>>
Next == Construct \/ Constructed

-----------------------------------------------------------------------------
\* No array is written into by the one before, whatever the number of repetitions and the
\* sizes of the floats, and the vectorised ones are aligned ("this is ONLY working
\* because of not required for alignment for such variables/caches").
ArraysAreApart ==
  \A n \in DOMAIN held :
    /\ held[n].aligned => held[n].begin % DefaultAlign = 0
    /\ \A k \in n + 1 .. Len(held) : held[n].end <= held[k].begin

\* A peer that accepts a task, with a part of its memory reckoned with, needs no more
\* than that: the padding, and a cache that the estimate forgets, are within the margin.
AcceptedFits ==
  held # <<>> => Last(held).next + meta.m.float * meta.m.elements
                   <= Reckoned(Anticipated(meta.model, meta.m))
=============================================================================
