------------------------------ MODULE MCGrids ------------------------------
(***************************************************************************)
(* Instances of the constants of GridSearch for TLC.                       *)
(*                                                                         *)
(* Line: one coefficient with three indices, one level of complexities.    *)
(* Long: Line with five indices.                                           *)
(* Square: two coefficients with two indices each; level 1 moves one of    *)
(* them, level 2 both, so the places of level 2 are mostly visited ones.   *)
(* Steps: Square with three moves of one coefficient, in three levels.     *)
(* The likelihoods make chains of better finds possible.                   *)
(***************************************************************************)
EXTENDS GridSearch, TLC

LinePlace == 0 .. 2
LineDemod == [g \in 0 .. LastGrid |-> [c \in LinePlace |-> [x \in 0 .. 2 |->
                IF EndsAt[1] > g THEN x ELSE c]]]
LineBoot == [g \in 0 .. LastGrid |-> IF EndsAt[1] > g THEN LinePlace ELSE {0}]
LineBootLast == [g \in 0 .. LastGrid |-> {2}]
LineValue == [pl \in LinePlace |-> <<3, 1, 2>>[pl + 1]]
LineLevels == <<3>>

LongPlace == 0 .. 4
LongDemod == [g \in 0 .. LastGrid |-> [c \in LongPlace |-> [x \in 0 .. 4 |->
                IF EndsAt[1] > g THEN x ELSE c]]]
LongBoot == [g \in 0 .. LastGrid |-> LongPlace]
LongValue == [pl \in LongPlace |-> <<4, 3, 1, 5, 2>>[pl + 1]]
LongLevels == <<5>>

SquarePlace == (0 .. 1) \X (0 .. 1)
\* Complexities 0..3 set one coefficient, 4..7 both; an ended one stays.
SquareMoves == [x \in 0 .. 7 |->
                  IF x < 2 THEN (1 :> x)
                  ELSE IF x < 4 THEN (2 :> x - 2)
                  ELSE (1 :> (x - 4) \div 2) @@ (2 :> (x - 4) % 2)]
SquareDemod ==
  [g \in 0 .. LastGrid |-> [c \in SquarePlace |-> [x \in Complexity |->
     [i \in 1 .. 2 |-> IF i \in DOMAIN SquareMoves[x] /\ EndsAt[i] > g
                       THEN SquareMoves[x][i] ELSE c[i]]]]]
SquareBoot == [g \in 0 .. LastGrid |->
                 {pl \in SquarePlace : \A i \in 1 .. 2 : EndsAt[i] <= g => pl[i] = 0}]
SquareValue == [pl \in SquarePlace |-> <<3, 2, 4, 1>>[1 + 2 * pl[1] + pl[2]]]
SquareLevels == <<4, 8>>
CrossLevels == <<4>>
StepsLevels == <<1, 2, 3>>
StepsValue == [pl \in SquarePlace |-> <<1, 5, 3, 6>>[1 + 2 * pl[1] + pl[2]]]
SquareOrigin == <<0, 0>>

EndsTogether == [c \in Coefficient |-> 1]
EndsInTurn == [c \in Coefficient |-> c]

\* improvement_ratio_min: any better find counts, or only one better by more than 1.
Strict == [v \in Likelihood |-> v]
Ratio == [v \in Likelihood |-> v - 1]
None == {}
=============================================================================
