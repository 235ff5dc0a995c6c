----------------------------- MODULE MCEvaluation -----------------------------
(***************************************************************************)
(* What a processor evaluates, checked part by part: the caches of         *)
(* log_likelihood, the way of a design from the sheet to the choice sets,  *)
(* and the memory for it all.  The parts share nothing; Init chooses one.  *)
(***************************************************************************)
EXTENDS LikelihoodCaches

CONSTANTS
  Parts,   \* of {"caches", "design", "layout"}
  Tasks    \* of which the layout is made

VARIABLES part,
  sheet, stage, sorted, at, old, counts, max_alternatives, cursor,
  matrix_composite, choice_column, by, inner, outer, coefficient, visit, terms,
  meta, held

designVars == <<sheet, stage, sorted, at, old, counts, max_alternatives, cursor,
                matrix_composite, choice_column, by, inner, outer, coefficient, visit, terms>>

-----------------------------------------------------------------------------
(* Caches: in each model the coefficients of all kinds of stages move, and *)
(* stages of each kind fault.                                              *)

AllModels == {"mixed_logit", "gmnl_2", "gmnl_2a"}
Moving == [mixed_logit |-> {Beta(0), Beta(1), Eta(1)},
           gmnl_2      |-> {Tau, Beta(1), Eta(0)},
           gmnl_2a     |-> {PhiMean, PhiVariance, PhiCovariance}]
MovingValues == [m \in AllModels |->
                   [c \in Coefficient(m) |-> IF m = "gmnl_2" /\ c = Tau THEN {1, 2, 3}
                                           ELSE IF c \in Moving[m] THEN {1, 2} ELSE {1}]]
Limits == [mixed_logit |-> [scalar |-> 0, eta |-> 2, column |-> 3],
           gmnl_2      |-> [scalar |-> 2, eta |-> 1, column |-> 4],
           gmnl_2a     |-> [scalar |-> 4, eta |-> 2, column |-> 6]]
SomeDraws == [mixed_logit |-> 2, gmnl_2 |-> 1, gmnl_2a |-> 1]

-----------------------------------------------------------------------------
(* Sheets of three rows below a header: two respondents, two choice sets,  *)
(* two alternatives, blank ids, a row that is deleted, and any choices.    *)

Ids == {<<1, 1, 1>>, <<1, 1, 2>>, <<1, 2, 1>>, <<2, 1, 1>>, <<2, 1, 2>>, <<0, 1, 1>>, <<1, 0, 1>>}
Header == <<9, 9, 9, 9, 9, 0>>
SheetOf(ids, cell, best) ==
  <<Header>> \o [p \in 1 .. 3 |-> ids[p] \o <<IF p = 2 THEN cell ELSE p - 1, 10 + p, best[p]>>]

AllSheets == {SheetOf(ids, cell, best) :
                ids \in [1 .. 3 -> Ids], cell \in {1, 7}, best \in [1 .. 3 -> {0, 1}]}

Design == INSTANCE ChoiceSets WITH
  Sheets <- AllSheets, RowStart <- 1, RespondentId <- 1, ChoiceSetId <- 2, AlternativeId <- 3,
  Attributes <- {4, 5}, Best <- 6, SortBy <- <<2>>,
  DelBy <- <<[column |-> 0, op |-> "eq", value |-> 7]>>, ByteMax <- 3,
  EvaluatedBy <- {"logit", "multi_logit", "mixed_logit", "gmnl_2", "gmnl_2a"},
  Classes <- 2, DrawsSize <- 2

-----------------------------------------------------------------------------
\* Strides with and without padding, for floats of either size.
SomeTasks ==
  [repetitions : {5, 6, 7, 8, 9, 1001}, draws : {1, 200}, x : {1, 2, 12},
    alternatives : {2, 5}, elements : {8, 1000000}, float : {4, 8}, extended : {8}]
  \cup [repetitions : {5, 6, 7, 8}, draws : {2}, x : {2}, alternatives : {2, 5},
         elements : {8}, float : {4}, extended : {4}]

Memory == INSTANCE Layout WITH Metas <- Tasks

ASSUME LayoutAssumption == Tasks \subseteq Memory!Meta

-----------------------------------------------------------------------------
SomeSheet == CHOOSE s \in AllSheets : TRUE
SomeMeta == CHOOSE t \in Tasks : TRUE
SomePoint == [c \in Coefficient("gmnl_2") |-> 1]

MCInit ==
  /\ part \in Parts
  /\ IF part = "caches" THEN Init
     ELSE /\ model = "gmnl_2" /\ saved = SomePoint /\ value = SomePoint
          /\ pc = Idle /\ chosen = 0 /\ scalars = 0 /\ etas = 0 /\ columns = 0 /\ composite_tau = 0
          /\ struck = {}
  /\ IF part = "design" THEN Design!Init
     ELSE Design!Init /\ sheet = SomeSheet
  /\ IF part = "layout" THEN Memory!Init
     ELSE meta = [model |-> "gmnl_2", m |-> SomeMeta] /\ held = <<>>

MCNext ==
  /\ \/ part = "caches" /\ Next /\ UNCHANGED <<designVars, meta, held>>
     \/ part = "design" /\ Design!Next /\ UNCHANGED <<vars, meta, held>>
     \/ part = "layout" /\ Memory!Next /\ UNCHANGED <<vars, designVars>>
  /\ UNCHANGED part

MCSpec == MCInit /\ [][MCNext]_<<vars, designVars, meta, held, part>>

\* Design!DesignIsRead: the likelihood is that of the sheet, whatever the model.
DesignIsRead == Design!DesignIsRead

\* Memory!ArraysAreApart: no array of a processor reaches into the next one.
ArraysAreApart == Memory!ArraysAreApart

\* Memory!AcceptedFits: the memory a peer reckons with is enough for the task.
AcceptedFits == Memory!AcceptedFits
=============================================================================
