------------------------------ MODULE ChoiceSets ------------------------------
(***************************************************************************)
(* How log_likelihood of the five models (netcpu/<model>/processor.h)      *)
(* reads the design that the controller packed (module Dataset): all of    *)
(* them walk over the same three arrays with pointers that nothing but the *)
(* order of the walk relates.                                              *)
(*                                                                         *)
(* Arithmetic is symbolic.  A utility is a linear form: how many times     *)
(* each coefficient (in the models with draws: each column of eta_cache)   *)
(* was added.  The probability of a choice depends on the differences      *)
(* between the utilities and that of the chosen alternative only.          *)
(***************************************************************************)
EXTENDS Dataset

CONSTANTS
  EvaluatedBy,  \* models, of {"logit", "multi_logit", "mixed_logit", "gmnl_2", "gmnl_2a"}
  Classes,      \* betas_sets_size of multi_logit
  DrawsSize     \* draws_sets_size of the models with draws

VARIABLES
  by,      \* [model, reduce]: the model, and its reduce_exp_complexity, once it has the design
  inner,   \* the pointers: choice sets and choice column, matrix_composite
  outer,   \* in multi_logit those where the respondent began
  coefficient,  \* in multi_logit current_coefficient_i_outer
  visit,   \* respondent, choice set of the respondent and class under way
  terms    \* the factors of the likelihood so far, by respondent, class and choice set

walkVars == <<by, inner, outer, coefficient, visit, terms>>
vars == <<datasetVars, walkVars>>

NoModel == [model |-> "none", reduce |-> FALSE]
Undefined == <<"undefined">>

-----------------------------------------------------------------------------
\* Sums of coefficients, and control * coefficient, with the short cuts for 0, 1 and 2.
Zero == [c \in {} |-> 0]
Count(form, c) == IF c \in DOMAIN form THEN form[c] ELSE 0
Plus(form, control, c) ==
  IF control = 0 THEN form
  ELSE [k \in DOMAIN form \cup {c} |-> Count(form, k) + IF k = c THEN control ELSE 0]
Minus(f, g) ==
  LET all == DOMAIN f \cup DOMAIN g
  IN [k \in {k \in all : Count(f, k) # Count(g, k)} |-> Count(f, k) - Count(g, k)]

\* The passes over the attributes, as they concern alternative a: the first pass sets
\* its utility, the others add to it; the pointer goes over all alternatives in each.
Utility(from, alternatives, a, Coefficient) ==
  FoldLeft(LAMBDA form, x :
             Plus(form, matrix_composite[from + (x - 1) * alternatives + a + 1], Coefficient[x]),
           Zero, [x \in 1 .. AttributesSize |-> x])

\* exp(chosen) / (exp(0) + ... + exp(n)), which is kept as the differences to chosen; with
\* reduce_exp_complexity these are what the exponents are taken of.
Factor(utilities, chosen) ==
  IF chosen \notin DOMAIN utilities THEN Undefined
  ELSE IF by.reduce
  THEN [a \in DOMAIN utilities |->
          IF a = chosen THEN Zero ELSE Minus(utilities[a], utilities[chosen])]
  ELSE [a \in DOMAIN utilities |-> Minus(utilities[a], utilities[chosen])]

-----------------------------------------------------------------------------
(* One choice set.                                                         *)

AlternativesHere == counts.alternatives[inner.set + 1]

\* Read the choice set with these coefficients for the attributes, 1 .. AttributesSize.
Read(Coefficient) ==
  LET utilities == [a \in 0 .. AlternativesHere - 1 |->
                      Utility(inner.matrix, AlternativesHere, a, Coefficient)]
  IN terms' = Append(terms, [i |-> visit.i, class |-> visit.class, set |-> inner.set,
                             factor |-> Factor(utilities, choice_column[inner.set + 1])])

\* The pointers after the choice set.
Past == [set |-> inner.set + 1, matrix |-> inner.matrix + AlternativesHere * AttributesSize]

More == visit.t + 1 < counts.sets[visit.i + 1]
NextChoiceSet == [visit EXCEPT !.t = @ + 1]
NextRespondent == [i |-> visit.i + 1, t |-> 0, class |-> 0]

\* The design has reached a processor.
OnBulkRead ==
  /\ stage = "loaded" /\ by = NoModel
  /\ by' \in [model : EvaluatedBy, reduce : BOOLEAN]
  /\ UNCHANGED <<datasetVars, inner, outer, coefficient, visit, terms>>

Walking(model) ==
  /\ stage = "loaded" /\ by.model = model
  /\ visit.i < Len(counts.sets)
  /\ UNCHANGED <<datasetVars, by>>

\* Read the choice set that is next, with these coefficients, and go on.
Single(Coefficient) ==
  /\ Read(Coefficient)
  /\ inner' = Past
  /\ visit' = IF More THEN NextChoiceSet ELSE NextRespondent
  /\ UNCHANGED <<outer, coefficient>>

LogitChoiceSet == Walking("logit") /\ Single([x \in 1 .. AttributesSize |-> <<"beta", x - 1>>])

\* Mutant of NextClass: the pointers are not taken back for the next class.
NextClassOnwards == Past

\* The next class reads the choice sets of the respondent once more.
NextClass == outer

\* All classes in turn, each with coefficients of its own, which follow the priors.
MultiLogitChoiceSet ==
  /\ Walking("multi_logit")
  /\ Read([x \in 1 .. AttributesSize |-> <<"beta", coefficient + x - 1>>])
  /\ \/ /\ More
        /\ inner' = Past /\ visit' = NextChoiceSet
        /\ UNCHANGED <<outer, coefficient>>
     \/ /\ ~More /\ visit.class + 1 < Classes
        /\ inner' = NextClass
        /\ coefficient' = coefficient + AttributesSize
        /\ visit' = [visit EXCEPT !.class = @ + 1, !.t = 0]
        /\ UNCHANGED outer
     \/ /\ ~More /\ visit.class + 1 = Classes
        /\ inner' = Past /\ outer' = Past
        /\ coefficient' = Classes
        /\ visit' = NextRespondent

\* The columns of eta_cache that hold the draws of respondent i (see LikelihoodCaches).
EtaCache ==
  [x \in 1 .. AttributesSize |-> <<"eta_cache", (visit.i % DrawsSize) * AttributesSize + x - 1>>]

\* Three copies of the same loops.
MixedLogitChoiceSet == Walking("mixed_logit") /\ Single(EtaCache)
Gmnl2ChoiceSet == Walking("gmnl_2") /\ Single(EtaCache)
Gmnl2aChoiceSet == Walking("gmnl_2a") /\ Single(EtaCache)

-----------------------------------------------------------------------------
Init ==
  /\ DatasetInit
  /\ by = NoModel
  /\ inner = [set |-> 0, matrix |-> 0] /\ outer = inner
  /\ coefficient = Classes
  /\ visit = [i |-> 0, t |-> 0, class |-> 0]
  /\ terms = <<>>

Done ==
  /\ \/ stage \in {"rejected", "undefined"}
     \/ visit.i = Len(counts.sets) /\ visit.i > 0
  /\ UNCHANGED vars

Next ==
  \/ DatasetNext /\ UNCHANGED walkVars
  \/ OnBulkRead
  \/ LogitChoiceSet \/ MultiLogitChoiceSet
  \/ MixedLogitChoiceSet \/ Gmnl2ChoiceSet \/ Gmnl2aChoiceSet
  \/ Done

Spec == Init /\ [][Next]_vars

-----------------------------------------------------------------------------
(* What the sheet says, without counts, pointers and strides.              *)

\* Rows where the ids of the first n columns differ from those of the row before.
Begins(n) == {p \in DOMAIN sorted : p = 1 \/ \E c \in 1 .. n :
                Id(sheet[sorted[p]])[c] # Id(sheet[sorted[p - 1]])[c]}
SetRows(s) == {p \in DOMAIN sorted : Cardinality({q \in Begins(2) : q <= p}) = s + 1}
RespondentOf(s) == Cardinality({q \in Begins(1) : q <= Min(SetRows(s))}) - 1

NameOf(i, class, x) ==
  CASE by.model = "logit" -> <<"beta", x - 1>>
    [] by.model = "multi_logit" -> <<"beta", Classes + class * AttributesSize + x - 1>>
    [] OTHER -> <<"eta_cache", (i % DrawsSize) * AttributesSize + x - 1>>

UtilityOfRow(p, i, class) ==
  LET cell(x) == sheet[sorted[p]][XColumns[x]]
      used    == {x \in 1 .. AttributesSize : cell(x) # 0}
  IN [k \in {NameOf(i, class, x) : x \in used} |->
        cell(CHOOSE x \in used : NameOf(i, class, x) = k)]

FactorOf(s, class) ==
  LET rows   == SetRows(s)
      i      == RespondentOf(s)
      chosen == CHOOSE p \in rows : sheet[sorted[p]][Best] = 1
  IN [a \in 0 .. Cardinality(rows) - 1 |->
        Minus(UtilityOfRow(Min(rows) + a, i, class), UtilityOfRow(chosen, i, class))]

\* The likelihood is that of the sheet: each model takes every choice set of every
\* respondent once (once for each class), with the attributes of its own rows, with the
\* coefficients they belong to, and in relation to the alternative that was chosen.
DesignIsRead ==
  /\ \A n \in DOMAIN terms :
       LET t == terms[n]
       IN (\E p \in SetRows(t.set) : sheet[sorted[p]][Best] = 1) =>
            t.i = RespondentOf(t.set) /\ t.factor = FactorOf(t.set, t.class)
  /\ by # NoModel /\ visit.i = Len(counts.sets) =>
       LET classes == IF by.model = "multi_logit" THEN Classes ELSE 1
       IN /\ {<<terms[n].class, terms[n].set>> : n \in DOMAIN terms}
               = (0 .. classes - 1) \X (0 .. Cardinality(Begins(2)) - 1)
          /\ Len(terms) = classes * Cardinality(Begins(2))
=============================================================================
