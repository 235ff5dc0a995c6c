------------------------------- MODULE Shares -------------------------------
(***************************************************************************)
(* How the remaining complexities are dealt to processing peers            *)
(* (netcpu/converger_1/server.h), and which one a peer takes first         *)
(* (netcpu/converger_1/processor.h), said of sets.                         *)
(***************************************************************************)
EXTENDS Integers, FiniteSets

Rank(S, x) == Cardinality({y \in S : y < x})

\* do_redistribute_remaining_peers_complexities gives the i-th of n peers its
\* share of the remaining complexities, in order and in chunks of
\* max(1, total / n); with fewer complexities than peers it starts over.
Share(S, n, i) ==
  LET total == Cardinality(S)
      chunk == total \div n
  IN IF total < n THEN {x \in S : Rank(S, x) = (i - 1) % total}
     ELSE {x \in S : Rank(S, x) \in (i - 1) * chunk .. i * chunk - 1}

\* A peer works from the back of its first range.
LastOfFirstRange(S) ==
  {x \in S : (\A y \in S : \A z \in y .. x : z \in S) /\ x + 1 \notin S}
=============================================================================
