----------------------------- MODULE RangeUtils -----------------------------
(***************************************************************************)
(* netcpu/range_utils.h: a set of numbers kept as a map from the first     *)
(* number of a range to its size, here a sequence of <<first, size>> in    *)
(* the order of the map.  The code has each function twice, for one range  *)
(* and for a container of ranges; the former is the latter with one range. *)
(***************************************************************************)
EXTENDS Integers, SequencesExt

First(r) == r[1]
End(r) == r[1] + r[2]
Between(begin, end) == <<begin, end - begin>>

\* The numbers that a container of ranges stands for.
Denoted(a) == UNION {First(a[k]) .. End(a[k]) - 1 : k \in DOMAIN a}

\* test_container, the precondition of all functions: in order, and with a gap
\* between any two ranges.
TestContainer(a) ==
  /\ \A k \in DOMAIN a : a[k][2] > 0
  /\ \A k \in 1 .. Len(a) - 1 : End(a[k]) < First(a[k + 1])

\* Where the loops begin: the last range that starts at or before x, if any.
StartAt(a, x) ==
  LET before == {k \in DOMAIN a : First(a[k]) <= x}
  IN IF before = {} THEN 1 ELSE Max(before)

\* Mutant of Cut: a range that is split loses its rear part.
RECURSIVE CutRear(_, _)
CutRear(a, b) ==
  IF a = <<>> \/ b = <<>> THEN a
  ELSE LET j == Head(a)
           i == Head(b)
       IN IF End(i) <= First(j) THEN CutRear(a, Tail(b))
          ELSE IF First(i) >= End(j) THEN <<j>> \o CutRear(Tail(a), b)
          ELSE (IF First(i) > First(j) THEN <<Between(First(j), First(i))>> ELSE <<>>)
               \o CutRear(Tail(a), b)

\* The loop of subtract from range Head(a) on: pass over, delete, split, shorten
\* from the right or from the left.
RECURSIVE Cut(_, _)
Cut(a, b) ==
  IF a = <<>> \/ b = <<>> THEN a
  ELSE LET j == Head(a)
           i == Head(b)
           rear == <<Between(End(i), End(j))>> \o Tail(a)
       IN CASE End(i) <= First(j) -> Cut(a, Tail(b))
            [] First(i) >= End(j) -> <<j>> \o Cut(Tail(a), b)
            [] First(i) <= First(j) /\ End(i) >= End(j) -> Cut(Tail(a), b)
            [] First(i) > First(j) /\ End(i) < End(j) ->
                 <<Between(First(j), First(i))>> \o Cut(rear, Tail(b))
            [] First(i) > First(j) /\ First(i) < End(j) /\ End(i) >= End(j) ->
                 <<Between(First(j), First(i))>> \o Cut(Tail(a), b)
            [] First(i) <= First(j) /\ End(i) > First(j) /\ End(i) < End(j) -> Cut(rear, b)

Subtract(a, b) ==
  LET k == StartAt(a, First(Head(b)))
  IN SubSeq(a, 1, k - 1) \o Cut(SubSeq(a, k, Len(a)), b)

\* The range Head(a) grows to the right up to `end', and takes in what it meets.
Extended(a, end) ==
  LET met == {k \in 2 .. Len(a) : First(a[k]) <= end}
  IN <<Between(First(Head(a)), Max({end} \cup {End(a[k]) : k \in met}))>>
     \o SelectSeq(Tail(a), LAMBDA r : First(r) > end)

\* Mutant of Joined: a range that touches the next one is put in front of it.
RECURSIVE JoinedApart(_, _, _)
JoinedApart(done, a, b) ==
  IF b = <<>> THEN done \o a
  ELSE LET i == Head(b)
       IN IF a = <<>> THEN JoinedApart(Append(done, i), a, Tail(b))
          ELSE LET j == Head(a)
               IN CASE End(i) <= First(j) -> JoinedApart(Append(done, i), a, Tail(b))
                    [] First(i) > End(j) -> JoinedApart(Append(done, j), Tail(a), b)
                    [] First(i) <= End(j) /\ End(i) > First(j) ->
                         JoinedApart(done, Extended(<<Between(Min({First(i), First(j)}), End(j))>>
                           \o Tail(a), Max({End(i), End(j)})), Tail(b))

\* The loop of add from range Head(a) on: insert, leave, extend to the right or
\* to the left, or pass over; at the end append what lies behind all ranges.
RECURSIVE Joined(_, _, _)
Joined(done, a, b) ==
  IF b = <<>> THEN done \o a
  ELSE LET i == Head(b)
       IN IF a = <<>>
          THEN Joined(IF End(Last(done)) < First(i) THEN Append(done, i) ELSE done, a, Tail(b))
          ELSE LET j == Head(a)
               IN CASE End(i) < First(j) -> Joined(Append(done, i), a, Tail(b))
                    [] First(i) > End(j) -> Joined(Append(done, j), Tail(a), b)
                    [] First(i) >= First(j) /\ End(i) <= End(j) -> Joined(done, a, Tail(b))
                    [] First(i) <= End(j) /\ End(i) > End(j) -> Joined(done, Extended(a, End(i)), b)
                    [] First(i) < First(j) /\ End(i) >= First(j) /\ End(i) <= End(j) ->
                         Joined(done, <<Between(First(i), End(j))>> \o Tail(a), b)

Add(a, b) ==
  IF a = <<>> THEN b
  ELSE LET k == StartAt(a, First(Head(b)))
       IN Joined(SubSeq(a, 1, k - 1), SubSeq(a, k, Len(a)), b)

Find(a, x) ==
  /\ a # <<>>
  /\ LET r == a[StartAt(a, x)] IN First(r) = x \/ (First(r) < x /\ x < End(r))
=============================================================================
