-------------------------- MODULE LikelihoodCaches --------------------------
(***************************************************************************)
(* log_likelihood of the models that keep caches between evaluations:      *)
(* mixed_logit, gmnl_2 and gmnl_2a (netcpu/<model>/processor.h).           *)
(*                                                                         *)
(* For every respondent the coefficients are turned, stage by stage, into  *)
(* the columns that its choice sets are evaluated from.  Each stage keeps  *)
(* what it computed, for each of the sets of draws that the respondents    *)
(* share, with tags that name the values it was computed from.  A stage of *)
(* scalars has one array for saved values of the coefficients (main) and   *)
(* one for values that are being tried (tmp).  An evaluation ends where    *)
(* the floating point unit reports a fault.                                *)
(*                                                                         *)
(* An array is kept as the values it was computed from, which is all that  *)
(* tells a stale array from a fresh one.  Their sum stands for its size,   *)
(* and a stage faults when the size exceeds what it can take.              *)
(***************************************************************************)
EXTENDS Naturals, Sequences, Functions

CONSTANTS
  Models,        \* of {"mixed_logit", "gmnl_2", "gmnl_2a"}
  XSize,         \* x_size: number of attributes
  DrawsSets,     \* [model -> draws_sets_size]
  Respondents,   \* number of respondents
  SleepEvery,    \* should_i_sleep is read at every SleepEvery-th respondent (100)
  Values,        \* [model -> [coefficient -> its values on the grid]]
  Limit,         \* [model -> [kind of stage -> largest size without a fault]]
  Largish        \* the tag of an array with nothing of use in it

Column == 0 .. XSize - 1
DrawsSet(m) == 0 .. DrawsSets[m] - 1

\* Coefficients: betas, etas, and those of the stages of scalars.
Beta(j) == <<"beta", j>>
Eta(j) == <<"eta", j>>
Tau == <<"tau", 0>>
PhiMean == <<"phi_mean", 0>>
PhiVariance == <<"phi_variance", 0>>
PhiCovariance == <<"phi_covariance", 0>>

Scalars == [mixed_logit |-> {}, gmnl_2 |-> {Tau},
            gmnl_2a |-> {Tau, PhiMean, PhiVariance, PhiCovariance}]
Coefficient(m) == {Beta(j) : j \in Column} \cup {Eta(j) : j \in Column} \cup Scalars[m]

\* The stages of scalars, in order: the coefficient each applies, the stage whose
\* array it applies it to, and the coefficients that its tags name.
Stages == [mixed_logit |-> <<>>, gmnl_2 |-> <<"sigma">>,
           gmnl_2a |-> <<"sigma", "covariance", "scaled", "phi">>]
StageName == {"sigma", "covariance", "scaled", "phi"}
Applies == [sigma |-> Tau, covariance |-> PhiCovariance, scaled |-> PhiVariance,
            phi |-> PhiMean]
Upon == [scaled |-> "covariance", phi |-> "scaled"]
Tags == [sigma |-> <<Tau>>, covariance |-> <<PhiCovariance>>,
         scaled |-> <<PhiVariance, PhiCovariance>>,
         phi |-> <<PhiMean, PhiVariance, PhiCovariance>>]

ASSUME CachesAssumption ==
  /\ Models \subseteq {"mixed_logit", "gmnl_2", "gmnl_2a"}
  /\ {XSize, Respondents, SleepEvery} \subseteq Nat \ {0}
  /\ \A m \in Models : DrawsSets[m] \in Nat \ {0}
  /\ \A m \in Models : \A c \in Coefficient(m) : Values[m][c] \subseteq Nat
  /\ Largish \notin Nat \cup Seq(Nat)

VARIABLES
  model,       \* which task_processor this is
  saved,       \* now_value_ of every coefficient
  value,       \* tmp_value_
  pc,          \* where log_likelihood is, for which respondent, at which stage or column
  chosen,      \* sigma_cache and its like: which of its two arrays a stage settled on
  scalars,     \* the arrays of the stages of scalars, and the *_cached_main, *_cached_tmp
  etas,        \* eta_cache_x, and etavars_cache
  columns,     \* eta_cache, and betavars_cache (in gmnl_2a with the stage3 tags)
  composite_tau, \* composite_equation_tau_cached of gmnl_2
  struck         \* history: the sets of draws of gmnl_2 whose columns a fault left half new

caches == <<chosen, scalars, etas, columns, composite_tau, struck>>
vars == <<model, saved, value, pc, caches>>

Point == [m \in Models |->
            {v \in [Coefficient(m) -> UNION {Values[m][c] : c \in Coefficient(m)}] :
               \A c \in Coefficient(m) : v[c] \in Values[m][c]}]
Set == pc.i % DrawsSets[model]                                      \* i_modulo
Modified(stage) == \E n \in 1 .. Len(Tags[stage]) : value[Tags[stage][n]] # saved[Tags[stage][n]]

-----------------------------------------------------------------------------
(* What is computed from what.                                              *)

NoData == <<>>
Nothing == [tag |-> Largish, data |-> NoData]
Size(data) == FoldFunction(LAMBDA x, y : x + y, 0, data)
Fits(kind, data) == Size(data) <= Limit[model][kind]

\* The values a stage of scalars stands for now; NoData for one the model lacks.
Current(stage) ==
  IF Applies[stage] \in Scalars[model]
  THEN [n \in 1 .. Len(Tags[stage]) |-> value[Tags[stage][n]]] ELSE NoData

Held(stage) == IF Applies[stage] \in Scalars[model]
               THEN scalars[stage][Set][chosen[stage]].data ELSE NoData

\* sigma * (eta + beta) + phi, as much of it as the model has.
Composite(sigma, eta, beta, phi) == sigma \o eta \o <<beta>> \o phi
CurrentColumn(j) ==
  Composite(Current("sigma"), <<value[Eta(j)]>>, value[Beta(j)], Current("phi"))

-----------------------------------------------------------------------------
(* Between evaluations.                                                     *)

Idle == [at |-> "idle", i |-> 0, n |-> 0]
At(stage) == [at |-> stage, i |-> pc.i, n |-> 0]
Respondent(i) == [at |-> IF Stages[model] = <<>> THEN "eta" ELSE "sigma", i |-> i, n |-> 0]

\* Some coefficients are moved and the likelihood there is asked for.
Evaluate ==
  /\ pc = Idle
  /\ \E v \in Point[model] : v # saved /\ value' = v
  /\ pc' = Respondent(0)
  /\ UNCHANGED <<model, saved, caches>>

\* value_save, after the server has moved the centre.
Recentre ==
  /\ pc = Idle
  /\ \E v \in Point[model] : v # saved /\ saved' = v /\ value' = v
  /\ UNCHANGED <<model, pc, caches>>

-----------------------------------------------------------------------------
(* log_likelihood.                                                          *)

\* The user wants the machine: the evaluation is incomplete and begun anew later.
Sleep ==
  /\ pc # Idle /\ pc = Respondent(pc.i) /\ pc.i % SleepEvery = 0
  /\ pc' = Respondent(0)
  /\ UNCHANGED <<model, saved, value, caches>>

\* A stage of scalars: take the array with the right tags, or compute it in
\* place of the one for saved, or for tried, values; then go on to `next'.
Settle(stage, next) ==
  /\ pc.at = stage
  /\ LET cell  == scalars[stage][Set]
         hits  == {s \in {"main", "tmp"} : cell[s].tag = Current(stage)}
         slot  == IF hits = {} THEN IF Modified(stage) THEN "tmp" ELSE "main"
                  ELSE IF "main" \in hits THEN "main" ELSE "tmp"
         data  == <<value[Applies[stage]]>>
                  \o (IF stage \in DOMAIN Upon THEN Held(Upon[stage]) ELSE NoData)
         fine  == hits # {} \/ Fits("scalar", data)
     IN /\ chosen' = [chosen EXCEPT ![stage] = slot]
        /\ scalars' = IF hits # {} THEN scalars
                      ELSE [scalars EXCEPT ![stage][Set][slot] =
                              [tag |-> IF fine THEN Current(stage) ELSE Largish, data |-> data]]
        /\ pc' = IF fine THEN At(next) ELSE Idle
  /\ UNCHANGED <<model, saved, value, etas, columns, composite_tau, struck>>

Sigma == Settle("sigma", IF model = "gmnl_2a" THEN "covariance" ELSE "eta")
Covariance == Settle("covariance", "scaled")
Scaled == Settle("scaled", "phi")
Phi == Settle("phi", "eta")

\* Mutant of AfterEta: the column computed from the previous eta is kept.
AfterEtaKeepsColumn(cell) == cell

\* In gmnl_2a the tags of the column name eta; in the others a new eta voids them.
AfterEta(cell) == IF model = "gmnl_2a" THEN cell ELSE [cell EXCEPT !.tag = Largish]

EtaColumn ==
  /\ pc.at = "eta"
  /\ LET j    == pc.n
         data == <<value[Eta(j)]>>
         hit  == etas[Set][j].tag = value[Eta(j)]
         fine == hit \/ Fits("eta", data)
     IN /\ etas' = IF hit THEN etas
                   ELSE [etas EXCEPT ![Set][j] =
                           [tag |-> IF fine THEN value[Eta(j)] ELSE Largish, data |-> data]]
        /\ columns' = IF hit \/ ~fine THEN columns
                      ELSE [columns EXCEPT ![Set][j] = AfterEta(@)]
        /\ pc' = IF ~fine THEN Idle
                 ELSE IF j = XSize - 1 THEN At("column") ELSE [pc EXCEPT !.n = j + 1]
  /\ UNCHANGED <<model, saved, value, chosen, scalars, composite_tau, struck>>

TagAfter(fine, tag) == IF fine THEN tag ELSE Largish

\* Column pc.n: keep it if it is a hit, or else compute it from `data'.
Compose(hit, tag, data) ==
  /\ pc.at = "column"
  /\ LET fine == hit \/ Fits("column", data)
     IN /\ columns' = IF hit THEN columns
                      ELSE [columns EXCEPT ![Set][pc.n] = [tag |-> TagAfter(fine, tag), data |-> data]]
        /\ pc' = IF ~fine THEN Idle
                 ELSE IF pc.n = XSize - 1 THEN At("choices") ELSE [pc EXCEPT !.n = @ + 1]
  /\ UNCHANGED <<model, saved, value, chosen, scalars, etas>>

MixedLogitColumn ==
  /\ model = "mixed_logit"
  /\ LET beta == value[Beta(pc.n)]
     IN Compose(columns[Set][pc.n].tag = <<beta>>, <<beta>>,
                Composite(NoData, etas[Set][pc.n].data, beta, NoData))
  /\ UNCHANGED <<composite_tau, struck>>

\* One tag says for which tau all columns were computed; it is set after the last.
\* After a fault the columns before it are of the new tau and the tag is still the old
\* one, until some evaluation finds another tau and gets through all of them.
Gmnl2Column ==
  /\ model = "gmnl_2"
  /\ LET beta == value[Beta(pc.n)]
     IN Compose(composite_tau[Set] = value[Tau] /\ columns[Set][pc.n].tag = <<beta>>, <<beta>>,
                Composite(Held("sigma"), etas[Set][pc.n].data, beta, NoData))
  /\ composite_tau' = IF pc'.at = "choices" THEN [composite_tau EXCEPT ![Set] = value[Tau]]
                      ELSE composite_tau
  /\ struck' = IF composite_tau[Set] = value[Tau] THEN struck
               ELSE IF pc'.at = "choices" THEN struck \ {Set}
               ELSE IF pc'.at = "idle" /\ pc.n > 0 THEN struck \cup {Set} ELSE struck

\* Every column has tags for all that goes into it.
Gmnl2aColumn ==
  /\ model = "gmnl_2a"
  /\ Compose(columns[Set][pc.n].tag = CurrentColumn(pc.n), CurrentColumn(pc.n),
             Composite(Held("sigma"), etas[Set][pc.n].data, value[Beta(pc.n)], Held("phi")))
  /\ UNCHANGED <<composite_tau, struck>>

\* The choice sets of the respondent are evaluated from the columns; the
\* likelihood so far may be worse than the target, or a fault.
Choices ==
  /\ pc.at = "choices"
  /\ \/ pc.i + 1 < Respondents /\ pc' = Respondent(pc.i + 1)
     \/ pc' = Idle
  /\ UNCHANGED <<model, saved, value, caches>>

-----------------------------------------------------------------------------
\* The constructor: invalidate_caches_1.
Init ==
  /\ model \in Models
  /\ saved \in Point[model] /\ value = saved
  /\ pc = Idle
  /\ chosen = [s \in StageName |-> "main"]
  /\ scalars = [s \in StageName |-> [d \in DrawsSet(model) |-> [t \in {"main", "tmp"} |-> Nothing]]]
  /\ etas = [d \in DrawsSet(model) |-> [j \in Column |-> Nothing]]
  /\ columns = [d \in DrawsSet(model) |-> [j \in Column |-> Nothing]]
  /\ composite_tau = [d \in DrawsSet(model) |-> Largish]
  /\ struck = {}

Next ==
  \/ Evaluate \/ Recentre \/ Sleep
  \/ Sigma \/ Covariance \/ Scaled \/ Phi \/ EtaColumn
  \/ MixedLogitColumn \/ Gmnl2Column \/ Gmnl2aColumn \/ Choices

Spec == Init /\ [][Next]_vars

-----------------------------------------------------------------------------
(* Properties.                                                              *)

\* Caches are not seen from outside: whatever was evaluated before, with
\* whatever outcome, the choice sets are evaluated from columns that are those of
\* the present coefficients, and none of which was left by a fault ("@post shall not
\* return value which evaluates to isfinite(x) == false").  The comments next to each
\* failure of a stage say why nothing else has to be reset; the one in gmnl_2 about
\* the tag of tau is wrong, so that this does not hold of gmnl_2.
Transparent ==
  pc.at = "choices" => \A j \in Column :
    /\ columns[Set][j].data = CurrentColumn(j)
    /\ Fits("column", columns[Set][j].data)

\* What does hold, wherever evaluations are cut short: nothing but the tau of a column is
\* ever seen to be old, and that in gmnl_2 only, for a set of draws whose columns a fault
\* has left half new and which no other tau has been through since.
OnlyTauIsStale ==
  pc.at = "choices" => \A j \in Column :
    LET data == columns[Set][j].data
    IN /\ Fits("column", data)
       /\ \/ data = CurrentColumn(j)
          \/ /\ model = "gmnl_2" /\ Set \in struck
             /\ \E tau \in Values[model][Tau] :
                  data = Composite(<<tau>>, <<value[Eta(j)]>>, value[Beta(j)], NoData)
=============================================================================
