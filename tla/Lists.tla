-------------------------------- MODULE Lists --------------------------------
(***************************************************************************)
(* What becomes of a list (a container of the standard library, linked or  *)
(* indexed) when some of its members are erased.                           *)
(***************************************************************************)
EXTENDS Integers, Sequences

Members(s) == {s[i] : i \in 1 .. Len(s)}

\* The members that are in S, in their order.
Only(s, S) ==
  LET kept[i \in 0 .. Len(s)] ==
        IF i = 0 THEN <<>>
        ELSE IF s[i] \in S THEN Append(kept[i - 1], s[i]) ELSE kept[i - 1]
  IN kept[Len(s)]

Without(s, S) == Only(s, Members(s) \ S)
=============================================================================
