---------------------------- MODULE CombosBuilder ---------------------------
(***************************************************************************)
(* netcpu/combos_builder.h: numbering the combinations of coefficients     *)
(* that are moved at once.  Level l has the combinations of l of them; one *)
(* of coefficients k1 < ... < kl takes as many numbers as the product of   *)
(* their grid resolutions on that level.  A level is only built if all of  *)
(* it fits below the complexity size.                                      *)
(*                                                                         *)
(* A grid g is a record: resolutions[k][l] of coefficient k on level l,    *)
(* complexity_size, coeffs_at_once.                                        *)
(***************************************************************************)
EXTENDS Integers, SequencesExt

CONSTANT SizeMod    \* number of values of size_type (2^32 or 2^64)

ASSUME CombosAssumption == SizeMod \in Nat /\ SizeMod > 1

Coefficients(g) == 1 .. Len(g.resolutions)
Resolution(g, k, l) == Max({g.resolutions[k][l], 2})

\* The running product of the resolutions of combination v.
Accumulators(g, v) ==
  LET acc[j \in 1 .. Len(v)] ==
        IF j = 1 THEN Resolution(g, v[1], Len(v))
        ELSE (Resolution(g, v[j], Len(v)) * acc[j - 1]) % SizeMod
  IN acc

\* The innermost loop: combination b.v takes the next numbers.  b.ok becomes
\* FALSE when a product or the sum is seen to wrap around, or does not fit.
Placed(g, b) ==
  LET l     == Len(b.v)
      acc   == Accumulators(g, b.v)
      index == (b.index + acc[l]) % SizeMod
  IN [b EXCEPT !.combos = Append(@, [first |-> b.index, coeffs |-> b.v,
                                     offsets |-> SubSeq(acc, 1, l - 1)]),
               !.index = index,
               !.ok = /\ \A j \in 2 .. l : acc[j] >= acc[j - 1]
                      /\ index >= b.index /\ index <= g.complexity_size]

\* build_combo_instance: all combinations that continue b.v[1 .. m - 1], from
\* b.v[m] on.  Afterwards the rest of v follows its former m-th member.
RECURSIVE Instances(_, _, _)
Instances(g, m, b) ==
  LET l     == Len(b.v)
      start == b.v[m]
      Try(s, i) ==
        IF ~s.ok THEN s
        ELSE [(IF m = l THEN Placed(g, s) ELSE Instances(g, m + 1, s)) EXCEPT !.v[m] = i + 1]
      all   == FoldLeft(Try, b, [d \in 1 .. Len(g.resolutions) - (l - m) - start + 1
                                   |-> start + d - 1])
  IN [all EXCEPT !.v = SubSeq(b.v, 1, m - 1) \o [k \in 1 .. l + 1 - m |-> start + k]]

\* build: level by level, until one does not fit; levels holds where each ends.
Build(g) ==
  LET BuildCombo(b, l) ==
        LET s == Instances(g, 1, [b EXCEPT !.v = SubSeq([k \in Coefficients(g) |-> k], 1, l)])
        IN IF ~b.ok THEN b
           ELSE IF s.ok THEN [s EXCEPT !.levels = Append(@, s.index)]
           ELSE [b EXCEPT !.ok = FALSE]
      built == FoldLeft(BuildCombo,
                        [combos |-> <<>>, levels |-> <<>>, index |-> 0, v |-> <<>>, ok |-> TRUE],
                        [l \in 1 .. g.coeffs_at_once |-> l])
  IN [combos |-> built.combos, levels |-> built.levels]

\* Mutant of Demodulate: the offsets of the combination are off by one.
DemodulateShifted(built, x) ==
  LET ci   == built.combos[Max({k \in DOMAIN built.combos : built.combos[k].first <= x})]
      l    == Len(ci.coeffs)
      rest[i \in 1 .. l] == IF i = l THEN x - ci.first ELSE rest[i + 1] % ci.offsets[i]
      at   == [i \in 1 .. l |-> IF i = 1 THEN rest[1] ELSE rest[i] \div ci.offsets[1]]
  IN [k \in ToSet(ci.coeffs) |-> at[CHOOSE i \in 1 .. l : ci.coeffs[i] = k]]

\* demodulate: the grid index of each coefficient of the combination that x
\* belongs to; all other coefficients keep (value_reset) the central value.
Demodulate(built, x) ==
  LET ci   == built.combos[Max({k \in DOMAIN built.combos : built.combos[k].first <= x})]
      l    == Len(ci.coeffs)
      rest[i \in 1 .. l] == IF i = l THEN x - ci.first ELSE rest[i + 1] % ci.offsets[i]
      at   == [i \in 1 .. l |-> IF i = 1 THEN rest[1] ELSE rest[i] \div ci.offsets[i - 1]]
  IN [k \in ToSet(ci.coeffs) |-> at[CHOOSE i \in 1 .. l : ci.coeffs[i] = k]]
=============================================================================
