-------------------------- MODULE LikelihoodProofs ---------------------------
(***************************************************************************)
(* Proofs about what is seen from outside of the caches of log_likelihood, *)
(* for any number of attributes, respondents and sets of draws, any values *)
(* of the coefficients and faults of any stage: nothing, but an old tau in *)
(* gmnl_2 after a fault between its columns.  And proofs that the arrays   *)
(* of a processor lie apart in their block, for a task of any size.        *)
(***************************************************************************)
EXTENDS MCEvaluation, ListProofs

Slot == {"main", "tmp"}
Cell == [tag : Nat \cup Seq(Nat) \cup {Largish}, data : Seq(Nat)]

TypeInv ==
  /\ model \in Models /\ saved \in Point[model] /\ value \in Point[model]
  /\ pc \in [at : StageName \cup {"idle", "eta", "column", "choices"}, i : Nat, n : Column]
  /\ pc.at \in StageName => Applies[pc.at] \in Scalars[model]
  /\ chosen \in [StageName -> Slot]
  /\ scalars \in [StageName -> [DrawsSet(model) -> [Slot -> Cell]]]
  /\ etas \in [DrawsSet(model) -> [Column -> Cell]]
  /\ columns \in [DrawsSet(model) -> [Column -> Cell]]
  /\ composite_tau \in [DrawsSet(model) -> Nat \cup {Largish}]

\* The stages of scalars, etas and columns that this respondent is through with.
Later(s) ==
  CASE s = "sigma" -> {"covariance", "scaled", "phi", "eta", "column", "choices"}
    [] s = "covariance" -> {"scaled", "phi", "eta", "column", "choices"}
    [] s = "scaled" -> {"phi", "eta", "column", "choices"}
    [] s = "phi" -> {"eta", "column", "choices"}
Past(s) == pc.at \in Later(s)
PastEta(j) == pc.at \in {"column", "choices"} \/ (pc.at = "eta" /\ j < pc.n)
PastColumn(j) == pc.at = "choices" \/ (pc.at = "column" /\ j < pc.n)

\* The columns of gmnl_2, of any tau.
OfSomeTau(data, eta, beta) ==
  \E tau \in Values[model][Tau] : data = Composite(<<tau>>, eta, beta, NoData)

\* A column is of the present coefficients, or it is of another tau and was taken for one
\* of the tau that the tag names, in a set of draws that a fault has struck.
ColumnIsDue(j) ==
  \/ columns[Set][j].data = CurrentColumn(j)
  \/ /\ model = "gmnl_2" /\ Set \in struck /\ composite_tau[Set] = value[Tau]
     /\ OfSomeTau(columns[Set][j].data, <<value[Eta(j)]>>, value[Beta(j)])

\* What they are through with is what the present coefficients give.
Settled ==
  /\ \A s \in StageName : Past(s) => Held(s) = Current(s)
  /\ \A j \in Column : PastEta(j) => etas[Set][j].tag = value[Eta(j)]
  /\ \A j \in Column : PastColumn(j) =>
       /\ ColumnIsDue(j) /\ Fits("column", columns[Set][j].data)
       /\ model = "gmnl_2" => columns[Set][j].tag = <<value[Beta(j)]>>

\* What a tag says of the data that it was put on, after whatever evaluations.
ScalarsAreTagged ==
  \A s \in StageName : \A d \in DrawsSet(model) : \A slot \in Slot :
    scalars[s][d][slot].tag # Largish => scalars[s][d][slot].data = scalars[s][d][slot].tag

EtasAreTagged ==
  \A d \in DrawsSet(model) : \A j \in Column :
    etas[d][j].tag # Largish => etas[d][j].data = <<etas[d][j].tag>>

ColumnIsTagged(d, j) ==
  LET tag  == columns[d][j].tag
      data == columns[d][j].data
  IN tag # Largish =>
       /\ Fits("column", data)
       /\ model = "gmnl_2a" => data = tag
       /\ model # "gmnl_2a" => tag = <<tag[1]>> /\ tag[1] \in Nat
       /\ model = "mixed_logit" /\ etas[d][j].tag # Largish =>
            data = Composite(NoData, etas[d][j].data, tag[1], NoData)
       /\ model = "gmnl_2" /\ etas[d][j].tag # Largish =>
            OfSomeTau(data, etas[d][j].data, tag[1])
       /\ /\ model = "gmnl_2" /\ etas[d][j].tag # Largish /\ composite_tau[d] # Largish
          /\ d \notin struck /\ ~(d = Set /\ pc.at = "column" /\ j < pc.n)
          => data = Composite(<<composite_tau[d]>>, etas[d][j].data, tag[1], NoData)

ColumnsAreTagged == \A d \in DrawsSet(model) : \A j \in Column : ColumnIsTagged(d, j)

CachesInv == TypeInv /\ Settled /\ ScalarsAreTagged /\ EtasAreTagged /\ ColumnsAreTagged

-----------------------------------------------------------------------------
(* What the stages compute.                                                 *)

\* Coefficients have numbers for values.
LEMMA ValuesAreNumbers ==
  ASSUME NEW m \in Models, NEW v \in Point[m]
  PROVE  \A c \in Coefficient(m) : v[c] \in Nat
BY CachesAssumption DEF Point

LEMMA Remainders ==
  ASSUME NEW a \in Nat, NEW b \in Nat \ {0}
  PROVE  a % b \in 0 .. b - 1
OBVIOUS

\* A respondent has a set of draws.
LEMMA SetIsSet ==
  ASSUME TypeInv
  PROVE  Set \in DrawsSet(model)
BY CachesAssumption, Remainders DEF TypeInv, Set, DrawsSet

\* The coefficients of the stages that a model has.
LEMMA AppliedValues ==
  ASSUME TypeInv
  PROVE  /\ \A j \in Column : value[Beta(j)] \in Nat /\ value[Eta(j)] \in Nat
         /\ \A kind \in StageName :
              Applies[kind] \in Scalars[model] => value[Applies[kind]] \in Nat
<1>1. \A c \in Coefficient(model) : value[c] \in Nat
  BY ValuesAreNumbers DEF TypeInv
<1> QED
  BY <1>1 DEF Coefficient

\* Numbers put together to sequences.
LEMMA SequencesJoined ==
  ASSUME NEW a \in Nat, NEW b \in Nat, NEW c \in Nat
  PROVE  /\ <<a>> \o <<b>> = <<a, b>>
         /\ <<a>> \o <<b, c>> = <<a, b, c>>
<1>1. <<a>> \in Seq(Nat) /\ <<b>> \in Seq(Nat) /\ <<a, b>> \in Seq(Nat) /\ <<b, c>> \in Seq(Nat)
      /\ <<a, b, c>> \in Seq(Nat)
  OBVIOUS
<1>2. Len(<<a>> \o <<b>>) = 2 /\ Len(<<a>> \o <<b, c>>) = 3
  BY <1>1, ConcatProperties
<1>3. <<a>> \o <<b>> \in Seq(Nat) /\ <<a>> \o <<b, c>> \in Seq(Nat)
  BY <1>1, ConcatProperties
<1>4. \A i \in 1 .. 2 : (<<a>> \o <<b>>)[i] = <<a, b>>[i]
  BY <1>1, ConcatProperties
<1>5. \A i \in 1 .. 3 : (<<a>> \o <<b, c>>)[i] = <<a, b, c>>[i]
  BY <1>1, ConcatProperties
<1>6. <<a>> \o <<b>> = <<a, b>>
  BY <1>1, <1>2, <1>3, <1>4, SeqEqual
<1>7. <<a>> \o <<b, c>> = <<a, b, c>>
  BY <1>1, <1>2, <1>3, <1>5, SeqEqual, SMTT(30), ZenonT(40)
<1> QED
  BY <1>6, <1>7

\* What a stage computes from what its predecessors computed is what it should.
LEMMA StageComputes ==
  ASSUME TypeInv, NEW kind \in StageName, Applies[kind] \in Scalars[model]
  PROVE  /\ Current(kind) \in Seq(Nat)
         /\ kind \in DOMAIN Upon => Upon[kind] \in StageName /\ Applies[Upon[kind]] \in Scalars[model]
         /\ Current(kind) =
              <<value[Applies[kind]]>>
              \o (IF kind \in DOMAIN Upon THEN Current(Upon[kind]) ELSE NoData)
<1>1. model = "gmnl_2" \/ model = "gmnl_2a"
  BY CachesAssumption DEF TypeInv, Scalars
<1>2. model = "gmnl_2" => kind = "sigma"
  BY DEF Scalars, StageName, Applies, Tau, PhiMean, PhiVariance, PhiCovariance
<1>3. ASSUME model = "gmnl_2a"
      PROVE  \A s \in StageName : Applies[s] \in Scalars[model]
  BY <1>3 DEF Scalars, StageName, Applies
<1>4. value[Applies[kind]] \in Nat
  BY AppliedValues
<1>a. DOMAIN Upon = {"scaled", "phi"} /\ Upon["scaled"] = "covariance" /\ Upon["phi"] = "scaled"
  BY DEF Upon
<1>b. Applies["sigma"] = Tau /\ Applies["covariance"] = PhiCovariance
      /\ Applies["scaled"] = PhiVariance /\ Applies["phi"] = PhiMean
  BY DEF Applies
<1>5. CASE kind = "sigma"
  <2>1. Current(kind) = [n \in 1 .. 1 |-> value[Tau]]
    BY <1>5 DEF Current, Tags
  <2>2. Current(kind) = <<value[Tau]>>
    BY <2>1
  <2>3. value[Tau] \in Nat
    BY <1>4, <1>5 DEF Applies
  <2>4. <<value[Tau]>> \o <<>> = <<value[Tau]>>
    BY <2>3
  <2>5. kind \notin DOMAIN Upon
    BY <1>5, <1>a
  <2>6. Current(kind) \in Seq(Nat)
    BY <2>2, <2>3
  <2>7. Current(kind) = <<value[Applies[kind]]>> \o NoData
    BY <1>5, <1>b, <2>2, <2>4 DEF NoData
  <2> QED
    BY <2>5, <2>6, <2>7
<1>6. CASE kind = "covariance"
  <2>1. Current(kind) = [n \in 1 .. 1 |-> value[PhiCovariance]]
    BY <1>6 DEF Current, Tags
  <2>2. Current(kind) = <<value[PhiCovariance]>>
    BY <2>1
  <2>3. value[PhiCovariance] \in Nat
    BY <1>4, <1>6 DEF Applies
  <2>4. <<value[PhiCovariance]>> \o <<>> = <<value[PhiCovariance]>>
    BY <2>3
  <2>5. kind \notin DOMAIN Upon
    BY <1>6, <1>a
  <2>6. Current(kind) \in Seq(Nat)
    BY <2>2, <2>3
  <2>7. Current(kind) = <<value[Applies[kind]]>> \o NoData
    BY <1>6, <1>b, <2>2, <2>4 DEF NoData
  <2> QED
    BY <2>5, <2>6, <2>7
<1>7. CASE kind = "scaled"
  <2>0. \A s \in StageName : Applies[s] \in Scalars[model] /\ value[Applies[s]] \in Nat
    BY <1>1, <1>2, <1>3, <1>7, AppliedValues
  <2>1. Current(kind) = [n \in 1 .. 2 |-> value[<<PhiVariance, PhiCovariance>>[n]]]
    BY <1>7 DEF Current, Tags
  <2>2. Current("covariance") = [n \in 1 .. 1 |-> value[<<PhiCovariance>>[n]]]
    BY <2>0 DEF Current, Tags, StageName
  <2>3. value[PhiVariance] \in Nat /\ value[PhiCovariance] \in Nat
    BY <2>0 DEF Applies, StageName
  <2>4. Current(kind) = <<value[PhiVariance], value[PhiCovariance]>>
    BY <2>1
  <2>5. Current("covariance") = <<value[PhiCovariance]>>
    BY <2>2
  <2>6. <<value[PhiVariance]>> \o <<value[PhiCovariance]>> = <<value[PhiVariance], value[PhiCovariance]>>
    BY <2>3, SequencesJoined
  <2>7. Current(kind) \in Seq(Nat)
    BY <2>3, <2>4
  <2>8. Current(kind) = <<value[Applies[kind]]>> \o Current(Upon[kind])
    BY <1>7, <1>a, <1>b, <2>4, <2>5, <2>6
  <2>9. kind \in DOMAIN Upon /\ Upon[kind] \in StageName
    BY <1>7, <1>a DEF StageName
  <2> QED
    BY <2>0, <2>7, <2>8, <2>9
<1>8. CASE kind = "phi"
  <2>0. \A s \in StageName : Applies[s] \in Scalars[model] /\ value[Applies[s]] \in Nat
    BY <1>1, <1>2, <1>3, <1>8, AppliedValues
  <2>1. Current(kind) = [n \in 1 .. 3 |-> value[<<PhiMean, PhiVariance, PhiCovariance>>[n]]]
    BY <1>8 DEF Current, Tags
  <2>2. Current("scaled") = [n \in 1 .. 2 |-> value[<<PhiVariance, PhiCovariance>>[n]]]
    BY <2>0 DEF Current, Tags, StageName
  <2>3. value[PhiMean] \in Nat /\ value[PhiVariance] \in Nat /\ value[PhiCovariance] \in Nat
    BY <2>0 DEF Applies, StageName
  <2>4. Current(kind) = <<value[PhiMean], value[PhiVariance], value[PhiCovariance]>>
    BY <2>1
  <2>5. Current("scaled") = <<value[PhiVariance], value[PhiCovariance]>>
    BY <2>2
  <2>6. <<value[PhiMean]>> \o <<value[PhiVariance], value[PhiCovariance]>>
        = <<value[PhiMean], value[PhiVariance], value[PhiCovariance]>>
    BY <2>3, SequencesJoined
  <2>7. Current(kind) \in Seq(Nat)
    BY <2>3, <2>4
  <2>8. Current(kind) = <<value[Applies[kind]]>> \o Current(Upon[kind])
    BY <1>8, <1>a, <1>b, <2>4, <2>5, <2>6
  <2>9. kind \in DOMAIN Upon /\ Upon[kind] \in StageName
    BY <1>8, <1>a DEF StageName
  <2> QED
    BY <2>0, <2>7, <2>8, <2>9
<1> QED
  BY <1>5, <1>6, <1>7, <1>8 DEF StageName

\* A column is of sequences of numbers.
LEMMA CompositesAreNumbers ==
  ASSUME NEW sigma \in Seq(Nat), NEW eta \in Seq(Nat), NEW beta \in Nat, NEW phi \in Seq(Nat)
  PROVE  Composite(sigma, eta, beta, phi) \in Seq(Nat)
BY DEF Composite

\* What the columns of each model are made of.
LEMMA ColumnComputes ==
  ASSUME TypeInv, NEW j \in Column
  PROVE  /\ CurrentColumn(j) \in Seq(Nat)
         /\ Current("sigma") \in Seq(Nat) /\ Current("phi") \in Seq(Nat)
         /\ model = "mixed_logit" =>
              CurrentColumn(j) = Composite(NoData, <<value[Eta(j)]>>, value[Beta(j)], NoData)
         /\ model = "gmnl_2" => Current("sigma") = <<value[Tau]>> /\ value[Tau] \in Nat
         /\ model = "gmnl_2" =>
              CurrentColumn(j) = Composite(<<value[Tau]>>, <<value[Eta(j)]>>, value[Beta(j)], NoData)
<1>1. Current("sigma") \in Seq(Nat) /\ Current("phi") \in Seq(Nat)
  BY StageComputes DEF Current, StageName, NoData
<1>2. value[Beta(j)] \in Nat /\ value[Eta(j)] \in Nat
  BY AppliedValues
<1>3. CurrentColumn(j) \in Seq(Nat)
  <2>1. <<value[Eta(j)]>> \in Seq(Nat)
    BY <1>2
  <2> QED
    BY <1>1, <1>2, <2>1, CompositesAreNumbers DEF CurrentColumn
<1>4. model \in {"mixed_logit", "gmnl_2"} => Current("phi") = NoData
  BY DEF Current, Applies, Scalars, Tau, PhiMean
<1>5. model = "mixed_logit" => Current("sigma") = NoData
  BY DEF Current, Scalars
<1>6. ASSUME model = "gmnl_2"
      PROVE  Current("sigma") = <<value[Tau]>> /\ value[Tau] \in Nat
  <2>1. Applies["sigma"] \in Scalars[model]
    BY <1>6 DEF Applies, Scalars
  <2>2. Current("sigma") = [n \in 1 .. 1 |-> value[Tau]]
    BY <2>1 DEF Current, Tags
  <2>3. value[Tau] \in Nat
    BY <2>1, AppliedValues DEF Applies, StageName
  <2> QED
    BY <2>2, <2>3
<1> QED
  BY <1>1, <1>3, <1>4, <1>5, <1>6 DEF CurrentColumn

-----------------------------------------------------------------------------
(* The stages of scalars.                                                   *)

LEMMA SettleKeeps ==
  ASSUME CachesInv, NEW kind \in StageName, NEW next \in StageName \cup {"eta"},
         next \in StageName => Applies[next] \in Scalars[model],
         \A s \in StageName : next \in Later(s) =>
           s = kind \/ kind \in Later(s) \/ Applies[s] \notin Scalars[model],
         Settle(kind, next)
  PROVE  CachesInv'
<1> DEFINE cell == scalars[kind][Set]
           hits == {s \in {"main", "tmp"} : cell[s].tag = Current(kind)}
           slot == IF hits = {} THEN IF Modified(kind) THEN "tmp" ELSE "main"
                   ELSE IF "main" \in hits THEN "main" ELSE "tmp"
           data == <<value[Applies[kind]]>>
                   \o (IF kind \in DOMAIN Upon THEN Held(Upon[kind]) ELSE NoData)
           fine == hits # {} \/ Fits("scalar", data)
           new  == [tag |-> IF fine THEN Current(kind) ELSE Largish, data |-> data]
<1>1. /\ pc.at = kind
      /\ chosen' = [chosen EXCEPT ![kind] = slot]
      /\ scalars' = IF hits # {} THEN scalars ELSE [scalars EXCEPT ![kind][Set][slot] = new]
      /\ pc' = IF fine THEN At(next) ELSE Idle
      /\ UNCHANGED <<model, saved, value, etas, columns, composite_tau, struck>>
  BY DEF Settle
<1>2. TypeInv /\ Settled /\ ScalarsAreTagged /\ EtasAreTagged /\ ColumnsAreTagged
  BY DEF CachesInv
<1>3. Set \in DrawsSet(model)
  BY <1>2, SetIsSet
<1>4. Applies[kind] \in Scalars[model]
  BY <1>1, <1>2 DEF TypeInv
<1>5. /\ Current(kind) \in Seq(Nat)
      /\ kind \in DOMAIN Upon => Upon[kind] \in StageName /\ Applies[Upon[kind]] \in Scalars[model]
      /\ Current(kind) = <<value[Applies[kind]]>>
           \o (IF kind \in DOMAIN Upon THEN Current(Upon[kind]) ELSE NoData)
  BY <1>2, <1>4, StageComputes
<1>6. kind \in DOMAIN Upon => Held(Upon[kind]) = Current(Upon[kind])
  <2>1. kind \in DOMAIN Upon => kind \in Later(Upon[kind])
    BY DEF Upon, Later
  <2> QED
    BY <1>1, <1>2, <1>5, <2>1 DEF Settled, Past
<1>7. data = Current(kind)
  BY <1>5, <1>6
<1>8. slot \in Slot /\ (hits # {} => cell[slot].tag = Current(kind))
  BY DEF Slot
<1>9. Current(kind) # Largish
  BY <1>5, CachesAssumption
<1> HIDE DEF slot, data, fine, hits
<1>10. new \in Cell
  BY <1>5, <1>7 DEF Cell
<1>11. pc' \in [at : StageName \cup {"idle", "eta", "column", "choices"}, i : Nat, n : Column]
       /\ pc'.i = (IF fine THEN pc.i ELSE 0) /\ pc'.n = 0 /\ pc'.at = (IF fine THEN next ELSE "idle")
  <2>1. 0 \in Column
    BY CachesAssumption DEF Column
  <2> QED
    BY <1>1, <1>2, <2>1 DEF TypeInv, At, Idle
<1>12. fine => Set' = Set
  BY <1>1, <1>11 DEF Set
<1>13. TypeInv'
  <2>1. scalars' \in [StageName -> [DrawsSet(model) -> [Slot -> Cell]]]
    BY <1>1, <1>2, <1>3, <1>8, <1>10 DEF TypeInv
  <2>2. chosen' \in [StageName -> Slot]
    BY <1>1, <1>2, <1>8 DEF TypeInv
  <2>3. pc'.at \in StageName => Applies[pc'.at] \in Scalars[model]
    BY <1>11 DEF StageName
  <2> QED
    BY <1>1, <1>2, <1>11, <2>1, <2>2, <2>3 DEF TypeInv
<1>14. ScalarsAreTagged'
  <2> SUFFICES ASSUME NEW s \in StageName, NEW d \in DrawsSet(model), NEW t \in Slot,
                      scalars'[s][d][t].tag # Largish
               PROVE  scalars'[s][d][t].data = scalars'[s][d][t].tag
    BY <1>1 DEF ScalarsAreTagged
  <2>1. CASE scalars'[s][d][t] = scalars[s][d][t]
    BY <1>2, <2>1 DEF ScalarsAreTagged
  <2>2. CASE scalars'[s][d][t] = new
    BY <1>7, <2>2
  <2>3. scalars'[s][d][t] \in {scalars[s][d][t], new}
    BY <1>1, <1>2, <1>3, <1>8 DEF TypeInv
  <2> QED
    BY <2>1, <2>2, <2>3
<1>15. EtasAreTagged' /\ ColumnsAreTagged'
  <2>1. pc.at # "column"
    BY <1>1 DEF StageName
  <2>2. \A d \in DrawsSet(model), j \in Column : ColumnIsTagged(d, j) => ColumnIsTagged(d, j)'
    BY <1>1, <2>1 DEF ColumnIsTagged, OfSomeTau, Fits
  <2> QED
    BY <1>1, <1>2, <2>2 DEF EtasAreTagged, ColumnsAreTagged
<1>16. Settled'
  <2>1. \A j \in Column : ~PastEta(j)' /\ ~PastColumn(j)'
    BY <1>11 DEF PastEta, PastColumn, StageName, Column
  <2>2. ASSUME NEW s \in StageName, Past(s)'
        PROVE  Held(s)' = Current(s)'
    <3>1. fine /\ pc'.at = next
      BY <1>11, <2>2 DEF Past, Later, StageName
    <3>2. Current(s)' = Current(s)
      BY <1>1 DEF Current
    <3>3. CASE Applies[s] \notin Scalars[model]
      BY <1>1, <3>3 DEF Held, Current
    <3>4. CASE s = kind
      <4>1. Held(s)' = scalars'[kind][Set][slot].data
        BY <1>1, <1>2, <1>4, <1>12, <3>1, <3>4 DEF Held, TypeInv
      <4>2. CASE hits # {}
        <5>1. scalars[kind][Set][slot].tag = Current(kind)
          BY <1>8, <4>2
        <5> QED
          BY <1>1, <1>2, <1>3, <1>8, <1>9, <3>2, <3>4, <4>1, <4>2, <5>1 DEF ScalarsAreTagged
      <4>3. CASE hits = {}
        <5>1. scalars'[kind][Set][slot] = new
          BY <1>1, <1>2, <1>3, <1>8, <4>3 DEF TypeInv
        <5> QED
          BY <1>7, <3>2, <3>4, <4>1, <5>1
      <4> QED
        BY <4>2, <4>3
    <3>5. CASE s # kind /\ Applies[s] \in Scalars[model]
      <4>1. Held(s) = Current(s)
        BY <1>1, <1>2, <2>2, <3>1, <3>5 DEF Past, Settled
      <4>2. scalars'[s] = scalars[s] /\ chosen'[s] = chosen[s]
        BY <1>1, <1>2, <3>5 DEF TypeInv
      <4>3. Held(s)' = Held(s)
        BY <1>1, <1>12, <3>1, <4>2 DEF Held
      <4> QED
        BY <3>2, <4>1, <4>3
    <3> QED
      BY <3>3, <3>4, <3>5
  <2> QED
    BY <2>1, <2>2 DEF Settled
<1> QED
  BY <1>13, <1>14, <1>15, <1>16 DEF CachesInv

LEMMA StagesKeep ==
  ASSUME CachesInv, Sigma \/ Covariance \/ Scaled \/ Phi
  PROVE  CachesInv'
<1>1. TypeInv
  BY DEF CachesInv
<1>2. model \in {"mixed_logit", "gmnl_2", "gmnl_2a"}
  BY <1>1, CachesAssumption DEF TypeInv
<1>3. model = "gmnl_2a" => \A s \in StageName : Applies[s] \in Scalars[model]
  BY DEF Scalars, StageName, Applies
<1>4. model # "gmnl_2a" =>
        \A s \in {"covariance", "scaled", "phi"} : Applies[s] \notin Scalars[model]
  BY <1>2 DEF Scalars, Applies, Tau, PhiMean, PhiVariance, PhiCovariance
<1>5. CASE Sigma
  <2> DEFINE next == IF model = "gmnl_2a" THEN "covariance" ELSE "eta"
  <2>1. Settle("sigma", next)
    BY <1>5 DEF Sigma
  <2>2. next \in StageName \cup {"eta"} /\ (next \in StageName => Applies[next] \in Scalars[model])
    BY <1>3 DEF StageName
  <2>3. \A s \in StageName : next \in Later(s) =>
          s = "sigma" \/ "sigma" \in Later(s) \/ Applies[s] \notin Scalars[model]
    BY <1>4 DEF StageName, Later
  <2>4. "sigma" \in StageName
    BY DEF StageName
  <2> HIDE DEF next
  <2> QED
    BY <2>1, <2>2, <2>3, <2>4, SettleKeeps
<1>6. ASSUME Covariance \/ Scaled \/ Phi
      PROVE  model = "gmnl_2a"
  BY <1>1, <1>4, <1>6 DEF Covariance, Scaled, Phi, Settle, TypeInv, StageName
<1>7. CASE Covariance
  <2>1. Settle("covariance", "scaled")
    BY <1>7 DEF Covariance
  <2>2. \A s \in StageName : "scaled" \in Later(s) => s = "covariance" \/ "covariance" \in Later(s)
    BY DEF StageName, Later
  <2>3. "covariance" \in StageName /\ "scaled" \in StageName /\ Applies["scaled"] \in Scalars[model]
    BY <1>3, <1>6, <1>7 DEF StageName
  <2> QED
    BY <2>1, <2>2, <2>3, SettleKeeps
<1>8. CASE Scaled
  <2>1. Settle("scaled", "phi")
    BY <1>8 DEF Scaled
  <2>2. \A s \in StageName : "phi" \in Later(s) => s = "scaled" \/ "scaled" \in Later(s)
    BY DEF StageName, Later
  <2>3. "scaled" \in StageName /\ "phi" \in StageName /\ Applies["phi"] \in Scalars[model]
    BY <1>3, <1>6, <1>8 DEF StageName
  <2> QED
    BY <2>1, <2>2, <2>3, SettleKeeps
<1>9. CASE Phi
  <2>1. Settle("phi", "eta")
    BY <1>9 DEF Phi
  <2>2. \A s \in StageName : "eta" \in Later(s) => s = "phi" \/ "phi" \in Later(s)
    BY DEF StageName, Later
  <2>3. "phi" \in StageName /\ "eta" \notin StageName
    BY DEF StageName
  <2> QED
    BY <2>1, <2>2, <2>3, SettleKeeps
<1> QED
  BY <1>5, <1>7, <1>8, <1>9

-----------------------------------------------------------------------------
(* Between stages and between evaluations.                                  *)

\* Where an evaluation begins, or is between two, nothing is settled.
LEMMA BeginningsKeep ==
  ASSUME CachesInv, pc.at # "column", UNCHANGED <<model, caches>>,
         saved' \in Point[model], value' \in Point[model],
         pc' = Idle \/ \E i \in Nat : pc' = Respondent(i)
  PROVE  CachesInv'
<1>1. TypeInv /\ ScalarsAreTagged /\ EtasAreTagged /\ ColumnsAreTagged
  BY DEF CachesInv
<1>2. model \in {"mixed_logit", "gmnl_2", "gmnl_2a"}
  BY <1>1, CachesAssumption DEF TypeInv
<1>3. UNCHANGED <<model, chosen, scalars, etas, columns, composite_tau, struck>>
  BY DEF caches
<1>4. /\ pc' \in [at : StageName \cup {"idle", "eta", "column", "choices"}, i : Nat, n : Column]
      /\ pc'.n = 0 /\ pc'.at \in {"idle", "eta", "sigma"}
      /\ pc'.at = "sigma" => model # "mixed_logit"
  <2>1. 0 \in Column
    BY CachesAssumption DEF Column
  <2>2. model = "mixed_logit" => Stages[model] = <<>>
    BY DEF Stages
  <2> QED
    BY <2>1, <2>2 DEF Respondent, Idle, StageName
<1>5. TypeInv'
  <2>1. model # "mixed_logit" => Applies["sigma"] \in Scalars[model]
    BY <1>2 DEF Applies, Scalars
  <2>2. pc'.at \in StageName => Applies[pc'.at] \in Scalars[model]
    BY <1>4, <2>1 DEF StageName
  <2> QED
    BY <1>1, <1>3, <1>4, <2>2 DEF TypeInv
<1>6. Settled'
  <2>1. \A j \in Column : ~PastEta(j)' /\ ~PastColumn(j)'
    BY <1>4 DEF PastEta, PastColumn, Column
  <2>2. ASSUME NEW s \in StageName, Past(s)'
        PROVE  Held(s)' = Current(s)'
    <3>1. pc'.at = "eta"
      BY <1>4, <2>2 DEF Past, Later, StageName
    <3>2. model = "mixed_logit"
      BY <3>1, <1>2, <1>4, SMTT(30), ZenonT(40) DEF Respondent, Idle, Stages
    <3>3. Applies[s] \notin Scalars[model]
      BY <3>2 DEF Scalars
    <3> QED
      BY <1>3, <3>3 DEF Held, Current
  <2> QED
    BY <2>1, <2>2 DEF Settled
<1>7. ColumnsAreTagged'
  <2>1. \A d \in DrawsSet(model), j \in Column : ColumnIsTagged(d, j) => ColumnIsTagged(d, j)'
    BY <1>3 DEF ColumnIsTagged, OfSomeTau, Fits
  <2> QED
    BY <1>1, <1>3, <2>1 DEF ColumnsAreTagged
<1>8. ScalarsAreTagged' /\ EtasAreTagged'
  BY <1>1, <1>3 DEF ScalarsAreTagged, EtasAreTagged
<1> QED
  BY <1>5, <1>6, <1>7, <1>8 DEF CachesInv

LEMMA EvaluationsKeep ==
  ASSUME CachesInv, Evaluate \/ Recentre \/ Sleep \/ Choices
  PROVE  CachesInv'
<1>1. TypeInv
  BY DEF CachesInv
<1>2. pc.i \in Nat /\ pc.i + 1 \in Nat /\ 0 \in Nat /\ saved \in Point[model] /\ value \in Point[model]
  BY <1>1 DEF TypeInv
<1>3. CASE Evaluate
  BY <1>2, <1>3, BeginningsKeep DEF Evaluate, Idle
<1>4. CASE Recentre
  BY <1>2, <1>4, BeginningsKeep DEF Recentre, Idle
<1>5. CASE Sleep
  <2>1. pc.at # "column"
    BY <1>5 DEF Sleep, Respondent
  <2> QED
    BY <1>2, <1>5, <2>1, BeginningsKeep DEF Sleep
<1>6. CASE Choices
  BY <1>2, <1>6, BeginningsKeep DEF Choices
<1> QED
  BY <1>3, <1>4, <1>5, <1>6

-----------------------------------------------------------------------------
(* Etas.                                                                    *)

LEMMA EtaColumnKeeps ==
  ASSUME CachesInv, EtaColumn
  PROVE  CachesInv'
<1> DEFINE j    == pc.n
           data == <<value[Eta(j)]>>
           hit  == etas[Set][j].tag = value[Eta(j)]
           fine == hit \/ Fits("eta", data)
           new  == [tag |-> IF fine THEN value[Eta(j)] ELSE Largish, data |-> data]
           former  == columns[Set][j]
<1>1. /\ pc.at = "eta"
      /\ etas' = IF hit THEN etas ELSE [etas EXCEPT ![Set][j] = new]
      /\ columns' = IF hit \/ ~fine THEN columns
                    ELSE [columns EXCEPT ![Set][j] = AfterEta(former)]
      /\ pc' = IF ~fine THEN Idle
               ELSE IF j = XSize - 1 THEN At("column") ELSE [pc EXCEPT !.n = j + 1]
      /\ UNCHANGED <<model, saved, value, chosen, scalars, composite_tau, struck>>
  BY DEF EtaColumn
<1>2. TypeInv /\ Settled /\ ScalarsAreTagged /\ EtasAreTagged /\ ColumnsAreTagged
  BY DEF CachesInv
<1>3. Set \in DrawsSet(model) /\ j \in Column /\ XSize \in Nat \ {0}
  BY <1>2, SetIsSet, CachesAssumption DEF TypeInv
<1>4. value[Eta(j)] \in Nat /\ value[Eta(j)] # Largish /\ data \in Seq(Nat)
  BY <1>2, <1>3, AppliedValues, CachesAssumption
<1>5. new \in Cell
  BY <1>4 DEF Cell
<1>6. former \in Cell /\ AfterEta(former) \in Cell
      /\ AfterEta(former).data = former.data
      /\ AfterEta(former).tag = IF model = "gmnl_2a" THEN former.tag ELSE Largish
  <2>1. former \in Cell
    BY <1>2, <1>3 DEF TypeInv
  <2>2. former = [tag |-> former.tag, data |-> former.data]
    BY <2>1 DEF Cell
  <2>3. model # "gmnl_2a" => AfterEta(former) = [tag |-> Largish, data |-> former.data]
    BY <2>2 DEF AfterEta
  <2> QED
    BY <2>1, <2>3 DEF Cell, AfterEta
<1> HIDE DEF data, hit, fine, former, new
<1>7. /\ pc' \in [at : StageName \cup {"idle", "eta", "column", "choices"}, i : Nat, n : Column]
      /\ pc'.at \in {"idle", "eta", "column"}
      /\ pc'.at = "eta" => fine /\ pc'.n = j + 1 /\ pc'.i = pc.i
      /\ pc'.at = "column" => fine /\ j = XSize - 1 /\ pc'.n = 0 /\ pc'.i = pc.i
  BY <1>1, <1>2, <1>3 DEF TypeInv, At, Idle, Column
<1>8. TypeInv'
  <2>1. etas' \in [DrawsSet(model) -> [Column -> Cell]]
    BY <1>1, <1>2, <1>3, <1>5 DEF TypeInv
  <2>2. columns' \in [DrawsSet(model) -> [Column -> Cell]]
    BY <1>1, <1>2, <1>3, <1>6 DEF TypeInv
  <2>3. pc'.at \notin StageName
    BY <1>7 DEF StageName
  <2> QED
    BY <1>1, <1>2, <1>7, <2>1, <2>2, <2>3 DEF TypeInv
<1>9. \A d \in DrawsSet(model), k \in Column :
        IF d = Set /\ k = j /\ ~hit
        THEN /\ etas'[d][k] = new
             /\ columns'[d][k] = (IF fine THEN AfterEta(former) ELSE former)
        ELSE etas'[d][k] = etas[d][k] /\ columns'[d][k] = columns[d][k]
  BY <1>1, <1>2, <1>3 DEF TypeInv, former
<1>10. EtasAreTagged'
  <2>1. new.tag # Largish => new.data = <<new.tag>>
    BY DEF new, data
  <2> SUFFICES ASSUME NEW d \in DrawsSet(model), NEW k \in Column
               PROVE  etas'[d][k].tag # Largish => etas'[d][k].data = <<etas'[d][k].tag>>
    BY <1>1 DEF EtasAreTagged
  <2> QED
    BY <1>2, <1>9, <2>1 DEF EtasAreTagged
<1>11. ColumnsAreTagged'
  <2> SUFFICES ASSUME NEW d \in DrawsSet(model), NEW k \in Column
               PROVE  ColumnIsTagged(d, k)'
    BY <1>1 DEF ColumnsAreTagged
  <2>1. ColumnIsTagged(d, k)
    BY <1>2 DEF ColumnsAreTagged
  <2>2. CASE ~(d = Set /\ k = j /\ ~hit)
    <3>1. etas'[d][k] = etas[d][k] /\ columns'[d][k] = columns[d][k]
      BY <1>9, <2>2
    <3> QED
      BY <1>1, <2>1, <3>1 DEF ColumnIsTagged, OfSomeTau, Fits
  <2>3. CASE d = Set /\ k = j /\ ~hit /\ ~fine
    <3>1. etas'[d][k].tag = Largish
      BY <1>9, <2>3 DEF new
    <3>2. columns'[d][k] = columns[d][k]
      BY <1>9, <2>3 DEF former
    <3> QED
      BY <1>1, <2>1, <3>1, <3>2 DEF ColumnIsTagged, OfSomeTau, Fits
  <2>4. CASE d = Set /\ k = j /\ ~hit /\ fine
    <3>1. columns'[d][k] = AfterEta(former)
      BY <1>9, <2>4
    <3>2. CASE model = "gmnl_2a"
      <4>1. columns'[d][k].tag = columns[d][k].tag /\ columns'[d][k].data = columns[d][k].data
        BY <1>6, <2>4, <3>1, <3>2 DEF former
      <4> QED
        BY <1>1, <2>1, <3>2, <4>1 DEF ColumnIsTagged, Fits
    <3>3. CASE model # "gmnl_2a"
      <4>1. columns'[d][k].tag = Largish
        BY <1>6, <3>1, <3>3
      <4> QED
        BY <4>1 DEF ColumnIsTagged
    <3> QED
      BY <3>2, <3>3
  <2> QED
    BY <2>2, <2>3, <2>4
<1>12. Settled'
  <2>1. ASSUME NEW s \in StageName, Past(s)'
        PROVE  Held(s)' = Current(s)'
    <3>1. fine /\ pc'.i = pc.i
      BY <1>7, <2>1 DEF Past, Later, StageName
    <3>2. Past(s)
      BY <1>1 DEF Past, Later, StageName
    <3>3. Held(s) = Current(s)
      BY <1>2, <3>2 DEF Settled
    <3> QED
      BY <1>1, <3>1, <3>3 DEF Held, Current, Set
  <2>2. ASSUME NEW k \in Column, PastEta(k)'
        PROVE  etas'[Set'][k].tag = value'[Eta(k)]
    <3>1. fine /\ pc'.i = pc.i /\ (k < j \/ k = j)
      BY <1>3, <1>7, <2>2 DEF PastEta, Column
    <3>2. Set' = Set
      BY <1>1, <3>1 DEF Set
    <3>3. k < j => etas[Set][k].tag = value[Eta(k)]
      BY <1>1, <1>2 DEF Settled, PastEta
    <3>4. k < j => k # j
      BY <1>3 DEF Column
    <3> QED
      BY <1>1, <1>3, <1>9, <3>1, <3>2, <3>3, <3>4 DEF new, hit
  <2>3. \A k \in Column : ~PastColumn(k)'
    BY <1>7 DEF PastColumn, Column
  <2> QED
    BY <2>1, <2>2, <2>3 DEF Settled
<1>13. ScalarsAreTagged'
  BY <1>1, <1>2 DEF ScalarsAreTagged
<1> QED
  BY <1>8, <1>10, <1>11, <1>12, <1>13 DEF CachesInv

-----------------------------------------------------------------------------
(* Columns.                                                                 *)

\* At a column the stages before it are settled.
LEMMA BeforeColumns ==
  ASSUME CachesInv, pc.at = "column"
  PROVE  /\ Held("sigma") = Current("sigma") /\ Held("phi") = Current("phi")
         /\ \A j \in Column : /\ etas[Set][j].tag = value[Eta(j)]
                              /\ etas[Set][j].tag # Largish
                              /\ etas[Set][j].data = <<value[Eta(j)]>>
<1>1. TypeInv /\ Settled /\ EtasAreTagged
  BY DEF CachesInv
<1>2. Past("sigma") /\ Past("phi")
  BY DEF Past, Later
<1>3. Held("sigma") = Current("sigma") /\ Held("phi") = Current("phi")
  BY <1>1, <1>2 DEF Settled, StageName
<1>4. ASSUME NEW j \in Column
      PROVE  /\ etas[Set][j].tag = value[Eta(j)]
             /\ etas[Set][j].tag # Largish
             /\ etas[Set][j].data = <<value[Eta(j)]>>
  <2>1. etas[Set][j].tag = value[Eta(j)]
    BY <1>1 DEF Settled, PastEta
  <2>2. value[Eta(j)] # Largish
    BY <1>1, AppliedValues, CachesAssumption
  <2> QED
    BY <1>1, <2>1, <2>2, SetIsSet DEF EtasAreTagged
<1> QED
  BY <1>3, <1>4

\* What a column is computed from is what it should be, and it is kept only if it is that,
\* or is of another tau where that is due to a fault.
LEMMA ComposeKeeps ==
  ASSUME CachesInv, NEW hit \in BOOLEAN, NEW tag \in Seq(Nat), NEW data,
         Compose(hit, tag, data),
         data = CurrentColumn(pc.n),
         hit => /\ columns[Set][pc.n].tag = tag /\ ColumnIsDue(pc.n)
                /\ Fits("column", columns[Set][pc.n].data),
         IF model = "gmnl_2a" THEN tag = data ELSE tag = <<value[Beta(pc.n)]>>,
         composite_tau' = IF model = "gmnl_2" /\ pc'.at = "choices"
                          THEN [composite_tau EXCEPT ![Set] = value[Tau]] ELSE composite_tau,
         struck' = IF model # "gmnl_2" \/ composite_tau[Set] = value[Tau] THEN struck
                   ELSE IF pc'.at = "choices" THEN struck \ {Set}
                   ELSE IF pc'.at = "idle" /\ pc.n > 0 THEN struck \cup {Set} ELSE struck
  PROVE  CachesInv'
<1> DEFINE fine == hit \/ Fits("column", data)
           new  == [tag |-> TagAfter(fine, tag), data |-> data]
<1>1. /\ pc.at = "column"
      /\ columns' = IF hit THEN columns ELSE [columns EXCEPT ![Set][pc.n] = new]
      /\ pc' = IF ~fine THEN Idle
               ELSE IF pc.n = XSize - 1 THEN At("choices") ELSE [pc EXCEPT !.n = @ + 1]
      /\ UNCHANGED <<model, saved, value, chosen, scalars, etas>>
  BY DEF Compose
<1>2. TypeInv /\ Settled /\ ScalarsAreTagged /\ EtasAreTagged /\ ColumnsAreTagged
  BY DEF CachesInv
<1>3. Set \in DrawsSet(model) /\ pc.n \in Column /\ XSize \in Nat \ {0}
  BY <1>2, SetIsSet, CachesAssumption DEF TypeInv
<1>4. data \in Seq(Nat) /\ tag # Largish
  BY <1>2, <1>3, ColumnComputes, CachesAssumption
<1>5. new \in Cell
  BY <1>4 DEF Cell, TagAfter
<1> HIDE DEF fine, new
<1>6. ASSUME model = "gmnl_2"
      PROVE  value[Tau] \in Values[model][Tau]
  <2>1. value \in Point["gmnl_2"] /\ "gmnl_2" \in Models
    BY <1>2, <1>6 DEF TypeInv
  <2>2. Tau \in Coefficient("gmnl_2")
    BY DEF Coefficient, Scalars
  <2> QED
    BY <1>6, <2>1, <2>2 DEF Point
<1>7. /\ pc' \in [at : StageName \cup {"idle", "eta", "column", "choices"}, i : Nat, n : Column]
      /\ pc'.at \in {"idle", "column", "choices"}
      /\ pc'.at = "column" => fine /\ pc'.n = pc.n + 1 /\ pc'.i = pc.i
      /\ pc'.at = "choices" => fine /\ pc.n = XSize - 1 /\ pc'.i = pc.i
      /\ pc'.at = "idle" => ~fine
  <2>1. CASE ~fine
    <3>1. pc' = [at |-> "idle", i |-> 0, n |-> 0] /\ 0 \in Column
      BY <1>1, <1>3, <2>1 DEF Idle, Column
    <3> QED
      BY <2>1, <3>1
  <2>2. CASE fine /\ pc.n = XSize - 1
    <3>1. pc' = [at |-> "choices", i |-> pc.i, n |-> 0] /\ 0 \in Column /\ pc.i \in Nat
      BY <1>1, <1>2, <1>3, <2>2 DEF At, Column, TypeInv
    <3> QED
      BY <2>2, <3>1
  <2>3. CASE fine /\ pc.n # XSize - 1
    <3>1. pc' = [pc EXCEPT !.n = pc.n + 1] /\ pc.n + 1 \in Column
      BY <1>1, <1>3, <2>3 DEF Column
    <3> QED
      BY <1>1, <1>2, <2>3, <3>1 DEF TypeInv
  <2> QED
    BY <2>1, <2>2, <2>3
<1>8. fine => Set' = Set
  BY <1>1, <1>7 DEF Set
<1>9. \A d \in DrawsSet(model), k \in Column :
        columns'[d][k] = (IF d = Set /\ k = pc.n /\ ~hit THEN new ELSE columns[d][k])
  BY <1>1, <1>2, <1>3 DEF TypeInv
<1>10. /\ ~hit => /\ columns'[Set][pc.n].data = data
                  /\ columns'[Set][pc.n].tag = IF fine THEN tag ELSE Largish
       /\ hit => columns'[Set][pc.n] = columns[Set][pc.n] /\ fine
  BY <1>3, <1>9 DEF new, fine, TagAfter
<1>11. fine => hit \/ Fits("column", data)
  BY DEF fine
<1>12. value[Tau] \in Nat \/ model # "gmnl_2"
  BY <1>2, <1>3, ColumnComputes
<1>13. TypeInv'
  <2>1. columns' \in [DrawsSet(model) -> [Column -> Cell]]
    BY <1>1, <1>2, <1>3, <1>5 DEF TypeInv
  <2>2. pc'.at \notin StageName
    BY <1>7 DEF StageName
  <2>3. composite_tau' \in [DrawsSet(model) -> Nat \cup {Largish}]
    BY <1>2, <1>3, <1>12 DEF TypeInv
  <2> QED
    BY <1>1, <1>2, <1>7, <2>1, <2>2, <2>3 DEF TypeInv
<1>14. ScalarsAreTagged' /\ EtasAreTagged'
  BY <1>1, <1>2 DEF ScalarsAreTagged, EtasAreTagged
<1>15. /\ UNCHANGED <<Current("sigma"), Current("phi")>>
       /\ \A k \in Column : CurrentColumn(k)' = CurrentColumn(k)
  BY <1>1 DEF Current, CurrentColumn
<1>18. ASSUME fine, NEW k \in Column, columns'[Set][k] = columns[Set][k], ColumnIsDue(k)
       PROVE  ColumnIsDue(k)'
  <2>1. CASE columns[Set][k].data = CurrentColumn(k)
    BY <1>8, <1>15, <1>18, <2>1 DEF ColumnIsDue
  <2>2. CASE /\ model = "gmnl_2" /\ Set \in struck /\ composite_tau[Set] = value[Tau]
             /\ OfSomeTau(columns[Set][k].data, <<value[Eta(k)]>>, value[Beta(k)])
    <3>1. struck' = struck /\ composite_tau'[Set] = value[Tau]
      BY <1>2, <1>3, <2>2 DEF TypeInv
    <3> QED
      BY <1>1, <1>8, <1>18, <2>2, <3>1 DEF ColumnIsDue, OfSomeTau
  <2> QED
    BY <1>18, <2>1, <2>2 DEF ColumnIsDue
<1>16. Settled'
  <2>1. ASSUME NEW s \in StageName, Past(s)'
        PROVE  Held(s)' = Current(s)'
    <3>1. fine
      BY <1>7, <2>1 DEF Past, Later, StageName
    <3>2. Past(s)
      BY <1>1 DEF Past, Later, StageName
    <3> QED
      BY <1>1, <1>2, <1>8, <3>1, <3>2 DEF Settled, Held, Current
  <2>2. ASSUME NEW k \in Column, PastEta(k)'
        PROVE  etas'[Set'][k].tag = value'[Eta(k)]
    <3>1. fine
      BY <1>7, <2>2 DEF PastEta
    <3>2. PastEta(k)
      BY <1>1 DEF PastEta
    <3> QED
      BY <1>1, <1>2, <1>8, <3>1, <3>2 DEF Settled
  <2>3. ASSUME NEW k \in Column, PastColumn(k)'
        PROVE  /\ ColumnIsDue(k)'
               /\ Fits("column", columns[Set][k].data)'
               /\ model' = "gmnl_2" => columns'[Set'][k].tag = <<value'[Beta(k)]>>
    <3>1. fine /\ (k < pc.n \/ k = pc.n)
      BY <1>3, <1>7, <2>3 DEF PastColumn, Column
    <3>2. Fits("column", columns[Set][k].data)' <=> Fits("column", columns'[Set'][k].data)
      BY <1>1 DEF Fits
    <3>3. CASE k = pc.n /\ ~hit
      <4>1. columns'[Set'][k].data = CurrentColumn(k)' /\ columns'[Set'][k].tag = tag
        BY <1>8, <1>10, <1>15, <3>1, <3>3
      <4>2. columns[Set][k].data' = CurrentColumn(k)'
        BY <4>1
      <4>3. ColumnIsDue(k)'
        BY <4>2 DEF ColumnIsDue
      <4> QED
        BY <1>1, <1>8, <1>10, <1>11, <1>15, <3>1, <3>2, <3>3, <4>1, <4>3
    <3>5. CASE k = pc.n /\ hit
      <4>1. columns'[Set'][k] = columns[Set][k] /\ ColumnIsDue(k)'
        BY <1>8, <1>10, <1>18, <3>1, <3>5
      <4> QED
        BY <1>1, <3>2, <3>5, <4>1
    <3>4. CASE k < pc.n
      <4>1. PastColumn(k) /\ k # pc.n
        BY <1>1, <1>3, <3>4 DEF PastColumn, Column
      <4>2. /\ ColumnIsDue(k) /\ Fits("column", columns[Set][k].data)
            /\ model = "gmnl_2" => columns[Set][k].tag = <<value[Beta(k)]>>
        BY <1>2, <4>1 DEF Settled
      <4>3. columns'[Set'][k] = columns[Set][k]
        BY <1>3, <1>8, <1>9, <3>1, <4>1
      <4> QED
        BY <1>1, <1>8, <1>18, <3>1, <3>2, <4>2, <4>3
    <3> QED
      BY <3>1, <3>3, <3>4, <3>5
  <2> QED
    BY <2>1, <2>2, <2>3 DEF Settled
<1>17. ColumnsAreTagged'
  <2> SUFFICES ASSUME NEW d \in DrawsSet(model), NEW k \in Column, columns'[d][k].tag # Largish
               PROVE  ColumnIsTagged(d, k)'
    BY <1>1 DEF ColumnsAreTagged, ColumnIsTagged
  <2>1. ColumnIsTagged(d, k)
    BY <1>2 DEF ColumnsAreTagged
  <2>2. /\ etas[Set][pc.n].tag # Largish /\ etas[Set][pc.n].data = <<value[Eta(pc.n)]>>
        /\ \A m \in Column : etas[Set][m].data = <<value[Eta(m)]>>
    BY <1>1, <1>3, BeforeColumns
  <2>3. /\ CurrentColumn(k) \in Seq(Nat) /\ value[Beta(k)] \in Nat
        /\ model = "mixed_logit" =>
             CurrentColumn(k) = Composite(NoData, <<value[Eta(k)]>>, value[Beta(k)], NoData)
        /\ model = "gmnl_2" =>
             CurrentColumn(k) = Composite(<<value[Tau]>>, <<value[Eta(k)]>>, value[Beta(k)], NoData)
    BY <1>2, ColumnComputes, AppliedValues
  <2>4. Fits("column", columns[d][k].data)' <=> Fits("column", columns'[d][k].data)
    BY <1>1 DEF Fits
  <2>5. /\ columns'[d][k].tag = columns[d][k].tag /\ columns'[d][k].data = columns[d][k].data
        \/ /\ d = Set /\ k = pc.n /\ fine /\ ~hit
           /\ columns'[d][k].tag = tag /\ columns'[d][k].data = data
    BY <1>9, <1>10
  <2>6. Fits("column", columns'[d][k].data)
    BY <1>11, <2>1, <2>5 DEF ColumnIsTagged
  <2>7. model = "gmnl_2a" => columns'[d][k].data = columns'[d][k].tag
    BY <2>1, <2>5 DEF ColumnIsTagged
  <2>8. model # "gmnl_2a" => /\ columns'[d][k].tag = <<columns'[d][k].tag[1]>>
                            /\ columns'[d][k].tag[1] \in Nat
    BY <2>1, <2>3, <2>5 DEF ColumnIsTagged
  <2>9. ASSUME model = "mixed_logit", etas[d][k].tag # Largish
        PROVE  columns'[d][k].data = Composite(NoData, etas[d][k].data, columns'[d][k].tag[1], NoData)
    <3>1. CASE columns'[d][k].tag = columns[d][k].tag /\ columns'[d][k].data = columns[d][k].data
      BY <2>1, <2>9, <3>1 DEF ColumnIsTagged
    <3>2. CASE d = Set /\ k = pc.n /\ columns'[d][k].tag = tag /\ columns'[d][k].data = data
      <4>1. columns'[d][k].tag[1] = value[Beta(k)]
        BY <2>3, <2>9, <3>2
      <4> QED
        BY <2>2, <2>3, <2>9, <3>2, <4>1
    <3> QED
      BY <2>5, <3>1, <3>2
  <2>10. ASSUME model = "gmnl_2", etas[d][k].tag # Largish
         PROVE  OfSomeTau(columns'[d][k].data, etas[d][k].data, columns'[d][k].tag[1])
    <3>1. CASE columns'[d][k].tag = columns[d][k].tag /\ columns'[d][k].data = columns[d][k].data
      BY <2>1, <2>10, <3>1 DEF ColumnIsTagged
    <3>2. CASE d = Set /\ k = pc.n /\ columns'[d][k].tag = tag /\ columns'[d][k].data = data
      <4>1. columns'[d][k].tag[1] = value[Beta(k)]
        BY <2>3, <2>10, <3>2
      <4> QED
        BY <1>6, <2>2, <2>3, <2>10, <3>2, <4>1 DEF OfSomeTau
    <3> QED
      BY <2>5, <3>1, <3>2
  <2>11. ASSUME model = "gmnl_2", etas[d][k].tag # Largish, composite_tau'[d] # Largish,
                d \notin struck', ~(d = Set' /\ pc'.at = "column" /\ k < pc'.n)
         PROVE  columns'[d][k].data
                = Composite(<<composite_tau'[d]>>, etas[d][k].data, columns'[d][k].tag[1], NoData)
    <3> DEFINE Kept == /\ composite_tau'[d] = composite_tau[d] /\ d \notin struck
                       /\ columns'[d][k] = columns[d][k]
    <3>1. CASE Kept /\ ~(d = Set /\ pc.at = "column" /\ k < pc.n)
      BY <2>1, <2>11, <3>1 DEF ColumnIsTagged
    <3>2. CASE d # Set
      <4>1. Kept
        BY <1>2, <1>3, <1>9, <2>11, <3>2 DEF TypeInv
      <4> QED
        BY <3>1, <3>2, <4>1
    <3>3. CASE d = Set /\ pc'.at = "choices"
      <4>1. PastColumn(k)' /\ Set' = Set /\ model' = model
        BY <1>1, <1>7, <1>8, <3>3 DEF PastColumn
      <4>2. ColumnIsDue(k)' /\ columns'[d][k].tag = <<value[Beta(k)]>>
        BY <1>1, <1>16, <2>11, <3>3, <4>1 DEF Settled
      <4>3. columns'[d][k].data = CurrentColumn(k)
        BY <1>15, <2>11, <3>3, <4>1, <4>2 DEF ColumnIsDue
      <4>4. composite_tau'[d] = value[Tau]
        BY <1>2, <1>3, <2>11, <3>3 DEF TypeInv
      <4> QED
        BY <2>2, <2>3, <2>11, <3>3, <4>2, <4>3, <4>4
    <3>4. CASE d = Set /\ pc'.at = "column"
      <4>1. fine /\ Set' = Set /\ pc'.n = pc.n + 1
        BY <1>7, <1>8, <3>4
      <4>2. ~(k < pc.n) /\ k # pc.n
        BY <1>3, <2>11, <3>4, <4>1 DEF Column
      <4>3. Kept
        BY <1>9, <2>11, <3>4, <4>2
      <4> QED
        BY <3>1, <4>2, <4>3
    <3>5. CASE d = Set /\ pc'.at = "idle"
      <4>1. ~fine /\ ~hit
        BY <1>7, <1>10, <3>5
      <4>2. k # pc.n
        BY <1>10, <3>5, <4>1
      <4>3. d \notin struck /\ (composite_tau[Set] = value[Tau] \/ ~(pc.n > 0))
        BY <2>11, <3>5
      <4>4. Kept
        BY <1>9, <2>11, <3>5, <4>2, <4>3
      <4>5. CASE ~(k < pc.n)
        BY <3>1, <4>4, <4>5
      <4>6. CASE k < pc.n
        <5>1. composite_tau[Set] = value[Tau]
          BY <1>3, <4>3, <4>6 DEF Column
        <5>2. PastColumn(k)
          BY <1>1, <4>6 DEF PastColumn
        <5>3. ColumnIsDue(k) /\ columns[Set][k].tag = <<value[Beta(k)]>>
          BY <1>2, <2>11, <5>2 DEF Settled
        <5>4. columns[Set][k].data = CurrentColumn(k)
          BY <3>5, <4>3, <5>3 DEF ColumnIsDue
        <5>5. /\ columns'[d][k].tag[1] = value[Beta(k)]
              /\ columns'[d][k].data = CurrentColumn(k)
              /\ composite_tau'[d] = value[Tau]
          BY <3>5, <4>4, <5>1, <5>3, <5>4
        <5> QED
          BY <2>2, <2>3, <2>11, <3>5, <5>5
      <4> QED
        BY <4>5, <4>6
    <3> QED
      BY <1>7, <3>2, <3>3, <3>4, <3>5
  <2>12. /\ OfSomeTau(columns[d][k].data, etas[d][k].data, columns[d][k].tag[1])'
             <=> OfSomeTau(columns'[d][k].data, etas[d][k].data, columns'[d][k].tag[1])
    BY <1>1 DEF OfSomeTau
  <2> QED
    BY <1>1, <2>4, <2>6, <2>7, <2>8, <2>9, <2>10, <2>11, <2>12 DEF ColumnIsTagged
<1> QED
  BY <1>13, <1>14, <1>16, <1>17 DEF CachesInv

\* In the columns of the three models.
LEMMA ColumnsKeep ==
  ASSUME CachesInv, MixedLogitColumn \/ Gmnl2Column \/ Gmnl2aColumn
  PROVE  CachesInv'
<1>1. TypeInv /\ ColumnsAreTagged
  BY DEF CachesInv
<1>2. pc.at = "column"
  BY DEF MixedLogitColumn, Gmnl2Column, Gmnl2aColumn, Compose
<1>3. Set \in DrawsSet(model) /\ pc.n \in Column
  BY <1>1, SetIsSet DEF TypeInv
<1>4. ColumnIsTagged(Set, pc.n)
  BY <1>1, <1>3 DEF ColumnsAreTagged
<1>5. /\ Held("sigma") = Current("sigma") /\ Held("phi") = Current("phi")
      /\ etas[Set][pc.n].tag # Largish
      /\ etas[Set][pc.n].data = <<value[Eta(pc.n)]>>
  BY <1>2, <1>3, BeforeColumns
<1>6. value[Beta(pc.n)] \in Nat
  BY <1>1, <1>3, AppliedValues
<1> DEFINE cell == columns[Set][pc.n]
           tag  == <<value[Beta(pc.n)]>>
<1>7. tag \in Seq(Nat) /\ tag # Largish /\ tag[1] = value[Beta(pc.n)]
  <2>1. tag \in Seq(Nat)
    BY <1>6
  <2> QED
    BY <2>1, CachesAssumption
<1>8. CASE MixedLogitColumn
  <2> DEFINE hit  == cell.tag = tag
             data == Composite(NoData, etas[Set][pc.n].data, value[Beta(pc.n)], NoData)
  <2>1. model = "mixed_logit" /\ Compose(hit, tag, data)
        /\ UNCHANGED <<composite_tau, struck>>
    BY <1>8 DEF MixedLogitColumn
  <2>2. data = CurrentColumn(pc.n)
    BY <1>1, <1>3, <1>5, <2>1, ColumnComputes
  <2>3. hit => ColumnIsDue(pc.n) /\ Fits("column", cell.data)
    BY <1>4, <1>5, <1>7, <2>1, <2>2 DEF ColumnIsTagged, ColumnIsDue
  <2>4. hit \in BOOLEAN
    OBVIOUS
  <2> HIDE DEF data
  <2>5. hit => cell.tag = tag
    OBVIOUS
  <2> HIDE DEF hit, tag
  <2> QED
    BY <1>7, <2>1, <2>2, <2>3, <2>4, <2>5, ComposeKeeps DEF tag
<1>9. CASE Gmnl2Column
  <2> DEFINE hit  == composite_tau[Set] = value[Tau] /\ cell.tag = tag
             data == Composite(Held("sigma"), etas[Set][pc.n].data, value[Beta(pc.n)], NoData)
  <2>1. /\ model = "gmnl_2" /\ Compose(hit, tag, data)
        /\ composite_tau' = IF pc'.at = "choices" THEN [composite_tau EXCEPT ![Set] = value[Tau]]
                            ELSE composite_tau
        /\ struck' = IF composite_tau[Set] = value[Tau] THEN struck
                     ELSE IF pc'.at = "choices" THEN struck \ {Set}
                     ELSE IF pc'.at = "idle" /\ pc.n > 0 THEN struck \cup {Set} ELSE struck
    BY <1>9 DEF Gmnl2Column
  <2>2. /\ Held("sigma") = <<value[Tau]>> /\ value[Tau] # Largish
        /\ data = CurrentColumn(pc.n)
        /\ data = Composite(<<value[Tau]>>, <<value[Eta(pc.n)]>>, value[Beta(pc.n)], NoData)
    BY <1>1, <1>3, <1>5, <2>1, ColumnComputes, CachesAssumption
  <2>3. ASSUME hit
        PROVE  ColumnIsDue(pc.n) /\ Fits("column", cell.data)
    <3>1. ~(Set = Set /\ pc.at = "column" /\ pc.n < pc.n)
      BY <1>3 DEF Column
    <3>2. /\ Fits("column", cell.data)
          /\ OfSomeTau(cell.data, <<value[Eta(pc.n)]>>, value[Beta(pc.n)])
          /\ Set \notin struck => cell.data = data
      BY <1>4, <1>5, <1>7, <2>1, <2>2, <2>3, <3>1 DEF ColumnIsTagged
    <3> QED
      BY <2>1, <2>2, <2>3, <3>2 DEF ColumnIsDue
  <2>5. hit \in BOOLEAN /\ (hit => cell.tag = tag)
    OBVIOUS
  <2> HIDE DEF data, hit, tag
  <2> QED
    BY <1>7, <2>1, <2>2, <2>3, <2>5, ComposeKeeps DEF tag
<1>10. CASE Gmnl2aColumn
  <2> DEFINE hit  == cell.tag = CurrentColumn(pc.n)
             data == Composite(Held("sigma"), etas[Set][pc.n].data, value[Beta(pc.n)], Held("phi"))
  <2>1. model = "gmnl_2a" /\ Compose(hit, CurrentColumn(pc.n), data)
        /\ UNCHANGED <<composite_tau, struck>>
    BY <1>10 DEF Gmnl2aColumn
  <2>2. data = CurrentColumn(pc.n)
    BY <1>5 DEF CurrentColumn
  <2>3. CurrentColumn(pc.n) \in Seq(Nat) /\ CurrentColumn(pc.n) # Largish
    BY <1>1, <1>3, ColumnComputes, CachesAssumption
  <2>4. hit => ColumnIsDue(pc.n) /\ Fits("column", cell.data)
    BY <1>4, <2>1, <2>3 DEF ColumnIsTagged, ColumnIsDue
  <2>5. hit \in BOOLEAN /\ (hit => cell.tag = CurrentColumn(pc.n))
    OBVIOUS
  <2> HIDE DEF data, hit
  <2> QED
    BY <2>1, <2>2, <2>3, <2>4, <2>5, ComposeKeeps
<1> QED
  BY <1>8, <1>9, <1>10

-----------------------------------------------------------------------------
(* The theorem.                                                             *)

LEMMA CachesBegin ==
  ASSUME Init
  PROVE  CachesInv
<1>1. pc = Idle /\ 0 \in Column /\ Nothing \in Cell
  BY CachesAssumption DEF Init, Column, Nothing, Cell, NoData
<1>2. pc.at = "idle" /\ pc.n = 0
  BY <1>1 DEF Idle
<1>3. TypeInv
  BY <1>1 DEF Init, TypeInv, Idle, StageName, Slot
<1>4. Settled
  BY <1>2 DEF Settled, Past, Later, PastEta, PastColumn, StageName
<1>5. ScalarsAreTagged /\ EtasAreTagged /\ ColumnsAreTagged
  BY DEF Init, ScalarsAreTagged, EtasAreTagged, ColumnsAreTagged, ColumnIsTagged, Nothing, Slot
<1> QED
  BY <1>3, <1>4, <1>5 DEF CachesInv

LEMMA CachesStep ==
  ASSUME CachesInv, [Next]_vars
  PROVE  CachesInv'
<1>1. CASE Next
  BY <1>1, EvaluationsKeep, StagesKeep, EtaColumnKeeps, ColumnsKeep DEF Next
<1>2. CASE UNCHANGED vars
  <2>1. /\ UNCHANGED <<model, saved, value, pc, chosen, scalars, etas, columns, composite_tau, struck>>
        /\ TypeInv /\ Settled /\ ScalarsAreTagged /\ EtasAreTagged /\ ColumnsAreTagged
    BY <1>2 DEF vars, caches, CachesInv
  <2>2. TypeInv'
    BY <2>1 DEF TypeInv
  <2>3. Settled'
    BY <2>1, SMTT(30), ZenonT(40) DEF Settled, Past, PastEta, PastColumn, Held, Current,
       CurrentColumn, ColumnIsDue, OfSomeTau, Fits, Set
  <2>4. ScalarsAreTagged' /\ EtasAreTagged'
    BY <2>1 DEF ScalarsAreTagged, EtasAreTagged
  <2>5. \A d \in DrawsSet(model), j \in Column : ColumnIsTagged(d, j) => ColumnIsTagged(d, j)'
    BY <2>1 DEF ColumnIsTagged, OfSomeTau, Fits, Set
  <2>6. ColumnsAreTagged'
    BY <2>1, <2>5 DEF ColumnsAreTagged
  <2> QED
    BY <2>2, <2>3, <2>4, <2>6 DEF CachesInv
<1> QED
  BY <1>1, <1>2

\* Whatever was evaluated before, and wherever faults and pauses cut it short, the choice
\* sets are evaluated from columns without a fault and of the present coefficients; only
\* a tau may be an old one, in gmnl_2, where a fault came between columns of different
\* tau (log_likelihood of mixed_logit, gmnl_2 and gmnl_2a).
THEOREM CachesAreTransparent == Spec => []OnlyTauIsStale
<1>1. CachesInv => OnlyTauIsStale
  BY DEF CachesInv, Settled, PastColumn, ColumnIsDue, OfSomeTau, OnlyTauIsStale
<1> QED
  BY <1>1, CachesBegin, CachesStep, PTL DEF Spec

-----------------------------------------------------------------------------
(* The layout of the memory.                                               *)

Array == [bytes : Nat, size : Nat, reach : Nat, aligned : BOOLEAN]

Width(a) == a.size * a.bytes

\* An array is used no further than to where the next one is to begin.
Bounded(a) == a \in Array /\ a.reach <= a.size

\* Arrays each of which takes a multiple of the alignment.
Padded(s) == s \in Seq(Array) /\ \A i \in 1 .. Len(s) : Bounded(s[i]) /\ Width(s[i]) % 16 = 0

\* Arrays that need no alignment.
Unaligned(s) == s \in Seq(Array) /\ \A i \in 1 .. Len(s) : Bounded(s[i]) /\ ~s[i].aligned

\* What an array that needs alignment comes after takes multiples of it.
Orderly(s) ==
  /\ s \in Seq(Array)
  /\ \A i \in 1 .. Len(s) :
       Bounded(s[i]) /\ (s[i].aligned => \A j \in 1 .. i - 1 : Width(s[j]) % 16 = 0)

LEMMA Products ==
  ASSUME NEW a \in Nat, NEW b \in Nat, NEW c \in Nat, a <= b
  PROVE  a * c \in Nat /\ b * c \in Nat /\ a * c <= b * c
OBVIOUS

LEMMA Multiples ==
  ASSUME NEW n \in Nat, NEW q \in Nat
  PROVE  (n * (16 * q)) % 16 = 0
<1>1. n * (16 * q) = 16 * (n * q) /\ n * q \in Nat
  OBVIOUS
<1>2. \A p \in Nat : (16 * p) % 16 = 0
  OBVIOUS
<1> QED BY <1>1, <1>2

LEMMA WidthFacts ==
  ASSUME NEW a, Bounded(a)
  PROVE  Width(a) \in Nat /\ a.reach * a.bytes \in Nat /\ a.reach * a.bytes <= Width(a)
BY Products DEF Bounded, Array, Width

\* Lists of arrays, put together.
LEMMA JoinedFacts ==
  ASSUME NEW s \in Seq(Array), NEW t \in Seq(Array)
  PROVE  /\ s \o t \in Seq(Array) /\ Len(s \o t) = Len(s) + Len(t) /\ Len(s) \in Nat /\ Len(t) \in Nat
         /\ \A i \in 1 .. Len(s) : (s \o t)[i] = s[i]
         /\ \A i \in 1 .. Len(s \o t) : i \notin 1 .. Len(s) =>
              i - Len(s) \in 1 .. Len(t) /\ (s \o t)[i] = t[i - Len(s)]
<1>1. /\ s \o t \in Seq(Array) /\ Len(s \o t) = Len(s) + Len(t) /\ Len(s) \in Nat /\ Len(t) \in Nat
      /\ \A i \in 1 .. Len(s) + Len(t) : (s \o t)[i] = IF i <= Len(s) THEN s[i] ELSE t[i - Len(s)]
  BY ConcatProperties, LenProperties
<1> QED BY <1>1

LEMMA PaddedJoined ==
  ASSUME NEW s, NEW t, Padded(s), Padded(t)
  PROVE  Padded(s \o t)
<1> DEFINE r == s \o t
<1>1. /\ r \in Seq(Array)
      /\ \A i \in 1 .. Len(s) : r[i] = s[i]
      /\ \A i \in 1 .. Len(r) : i \notin 1 .. Len(s) =>
           i - Len(s) \in 1 .. Len(t) /\ r[i] = t[i - Len(s)]
  BY JoinedFacts DEF Padded
<1> HIDE DEF r
<1>2. Padded(r)
  BY <1>1 DEF Padded
<1> QED BY <1>2 DEF r

LEMMA LastJoined ==
  ASSUME NEW s, NEW a, Padded(s), Bounded(a)
  PROVE  Orderly(s \o <<a>>)
<1> DEFINE t == <<a>>
           r == s \o t
<1>1. t \in Seq(Array) /\ Len(t) = 1 /\ t[1] = a
  BY DEF Bounded
<1> HIDE DEF t
<1>2. /\ r \in Seq(Array) /\ Len(s) \in Nat /\ Len(r) = Len(s) + 1
      /\ \A i \in 1 .. Len(s) : r[i] = s[i]
      /\ \A i \in 1 .. Len(r) : i \notin 1 .. Len(s) =>
           i - Len(s) \in 1 .. Len(t) /\ r[i] = t[i - Len(s)]
  <2>1. s \in Seq(Array)
    BY DEF Padded
  <2>2. /\ s \o t \in Seq(Array) /\ Len(s \o t) = Len(s) + Len(t) /\ Len(s) \in Nat
        /\ \A i \in 1 .. Len(s) : (s \o t)[i] = s[i]
        /\ \A i \in 1 .. Len(s \o t) : i \notin 1 .. Len(s) =>
             i - Len(s) \in 1 .. Len(t) /\ (s \o t)[i] = t[i - Len(s)]
    BY <1>1, <2>1, JoinedFacts
  <2> QED BY <1>1, <2>2
<1> HIDE DEF r
<1>3. \A i \in 1 .. Len(r) : Bounded(r[i])
  BY <1>1, <1>2 DEF Padded
<1>4. \A i \in 1 .. Len(r) : \A j \in 1 .. i - 1 : Width(r[j]) % 16 = 0
  BY <1>2 DEF Padded
<1>5. Orderly(r)
  BY <1>2, <1>3, <1>4 DEF Orderly
<1> QED BY <1>5 DEF r, t

LEMMA UnalignedJoined ==
  ASSUME NEW s, NEW t, Orderly(s), Unaligned(t)
  PROVE  Orderly(s \o t)
<1> DEFINE r == s \o t
<1>1. /\ r \in Seq(Array) /\ Len(s) \in Nat /\ Len(r) = Len(s) + Len(t) /\ Len(t) \in Nat
      /\ \A i \in 1 .. Len(s) : r[i] = s[i]
      /\ \A i \in 1 .. Len(r) : i \notin 1 .. Len(s) =>
           i - Len(s) \in 1 .. Len(t) /\ r[i] = t[i - Len(s)]
  BY JoinedFacts DEF Orderly, Unaligned
<1> HIDE DEF r
<1>2. \A i \in 1 .. Len(r) : Bounded(r[i])
  BY <1>1 DEF Orderly, Unaligned
<1>3. ASSUME NEW i \in 1 .. Len(r), r[i].aligned, NEW j \in 1 .. i - 1
      PROVE  Width(r[j]) % 16 = 0
  <2>1. i \in 1 .. Len(s)
    BY <1>1, <1>3 DEF Unaligned
  <2>2. j \in 1 .. Len(s) /\ r[j] = s[j] /\ r[i] = s[i]
    BY <1>1, <2>1
  <2> QED BY <1>3, <2>1, <2>2 DEF Orderly
<1>4. Orderly(r)
  BY <1>1, <1>2, <1>3 DEF Orderly
<1> QED BY <1>4 DEF r

\* Place goes through the arrays from the front.
LEMMA PlaceUnfolds ==
  ASSUME NEW s, Orderly(s)
  PROVE  \E from : /\ from[1] = 0
                   /\ \A k \in 1 .. Len(s) : from[k] \in Nat /\ from[k + 1] = from[k] + Width(s[k])
                   /\ Memory!Place(s) =
                        [k \in 1 .. Len(s) |->
                           [begin |-> from[k], end |-> from[k] + s[k].reach * s[k].bytes,
                            next |-> from[k + 1], aligned |-> s[k].aligned]]
<1> DEFINE n == Len(s)
           Body(f) == [k \in 1 .. n + 1 |-> IF k = 1 THEN 0 ELSE f[k - 1] + s[k - 1].size * s[k - 1].bytes]
           from == CHOOSE f : f = Body(f)
           Part(m, f) == /\ f \in [1 .. m + 1 -> Nat] /\ f[1] = 0
                         /\ \A k \in 1 .. m : f[k + 1] = f[k] + Width(s[k])
           Reached == {m \in 0 .. n : \E f : Part(m, f)}
<1>1. n \in Nat /\ \A k \in 1 .. n : Width(s[k]) \in Nat
  BY WidthFacts, LenProperties DEF Orderly
<1>2. Memory!Place(s) = [k \in 1 .. n |->
                           [begin |-> from[k], end |-> from[k] + s[k].reach * s[k].bytes,
                            next |-> from[k + 1], aligned |-> s[k].aligned]]
  BY DEF Memory!Place
<1> HIDE DEF n
<1>3. 0 \in Reached
  <2>1. Part(0, [k \in 1 .. 1 |-> 0])
    OBVIOUS
  <2> HIDE DEF Part
  <2> QED BY <2>1, <1>1
<1>4. ASSUME NEW m \in 1 .. n, m - 1 \in Reached PROVE m \in Reached
  <2>1. PICK f : Part(m - 1, f)
    BY <1>4
  <2> DEFINE g == [k \in 1 .. m + 1 |-> IF k = m + 1 THEN f[m] + Width(s[m]) ELSE f[k]]
  <2>2. /\ f \in [1 .. m -> Nat] /\ f[1] = 0 /\ m \in Nat /\ m \in 1 .. m
        /\ \A k \in 1 .. m - 1 : f[k + 1] = f[k] + Width(s[k])
    BY <2>1, <1>1
  <2>3. f[m] + Width(s[m]) \in Nat
    BY <1>1, <2>2
  <2>4. g \in [1 .. m + 1 -> Nat] /\ g[1] = 0
    BY <2>2, <2>3
  <2>5. ASSUME NEW k \in 1 .. m PROVE g[k + 1] = g[k] + Width(s[k])
    BY <2>2
  <2>6. Part(m, g)
    BY <2>4, <2>5
  <2> HIDE DEF Part, g
  <2> QED BY <2>6, <1>1
<1>5. PICK f : Part(n, f)
  <2> HIDE DEF Reached
  <2>1. 0 .. n \subseteq Reached
    BY <1>1, <1>3, <1>4, UpTo
  <2>2. n \in Reached
    BY <2>1, <1>1
  <2> QED BY <2>2 DEF Reached
<1>6. f = Body(f)
  <2>1. f = [k \in 1 .. n + 1 |-> f[k]]
    BY <1>5
  <2>2. \A k \in 1 .. n + 1 : f[k] = IF k = 1 THEN 0 ELSE f[k - 1] + s[k - 1].size * s[k - 1].bytes
    <3>1. SUFFICES ASSUME NEW k \in 1 .. n + 1, k # 1
                   PROVE  f[k] = f[k - 1] + s[k - 1].size * s[k - 1].bytes
      BY <1>5
    <3>2. k - 1 \in 1 .. n /\ (k - 1) + 1 = k
      BY <1>1, <3>1
    <3>3. f[(k - 1) + 1] = f[k - 1] + Width(s[k - 1])
      BY <1>5, <3>2
    <3> QED BY <3>2, <3>3 DEF Width
  <2> QED BY <2>1, <2>2
<1>7. from = Body(from)
  BY <1>6
<1> HIDE DEF from
<1>8. from[1] = 0 /\ \A k \in 1 .. n : from[k + 1] = from[k] + Width(s[k])
  <2>1. \A k \in 1 .. n + 1 :
          from[k] = IF k = 1 THEN 0 ELSE from[k - 1] + s[k - 1].size * s[k - 1].bytes
    BY <1>7
  <2>2. 1 \in 1 .. n + 1
    BY <1>1
  <2>3. ASSUME NEW k \in 1 .. n PROVE from[k + 1] = from[k] + Width(s[k])
    <3>1. k + 1 \in 1 .. n + 1 /\ k + 1 # 1 /\ (k + 1) - 1 = k
      BY <1>1
    <3>2. from[k + 1] = from[(k + 1) - 1] + s[(k + 1) - 1].size * s[(k + 1) - 1].bytes
      BY <2>1, <3>1
    <3> QED BY <3>1, <3>2 DEF Width
  <2> QED BY <2>1, <2>2, <2>3
<1>9. \A k \in 1 .. n + 1 : from[k] \in Nat
  <2> DEFINE Natural == {i \in 0 .. n : from[i + 1] \in Nat}
  <2>1. 0 \in Natural
    BY <1>1, <1>8
  <2>2. ASSUME NEW i \in 1 .. n, i - 1 \in Natural PROVE i \in Natural
    <3>1. from[(i - 1) + 1] \in Nat /\ (i - 1) + 1 = i
      BY <2>2
    <3> QED BY <1>1, <1>8, <3>1
  <2> HIDE DEF Natural
  <2>3. 0 .. n \subseteq Natural
    BY <1>1, <2>1, <2>2, UpTo
  <2>4. ASSUME NEW k \in 1 .. n + 1 PROVE from[k] \in Nat
    <3>1. k - 1 \in 0 .. n /\ (k - 1) + 1 = k
      BY <1>1
    <3> QED BY <2>3, <3>1 DEF Natural
  <2> QED BY <2>4
<1>10. \A k \in 1 .. n : from[k] \in Nat /\ from[k + 1] = from[k] + Width(s[k])
  BY <1>1, <1>8, <1>9
<1> QED BY <1>2, <1>8, <1>10 DEF n

\* Arrays in order lie apart, and those that need it begin at a multiple of 16.
LEMMA OrderlyLieApart ==
  ASSUME NEW s, Orderly(s)
  PROVE  LET p == Memory!Place(s)
         IN \A n \in DOMAIN p :
              /\ p[n].aligned => p[n].begin % 16 = 0
              /\ \A k \in n + 1 .. Len(p) : p[n].end <= p[k].begin
<1> DEFINE z == Len(s)
           p == Memory!Place(s)
<1>1. PICK from : /\ from[1] = 0
                  /\ \A k \in 1 .. z : from[k] \in Nat /\ from[k + 1] = from[k] + Width(s[k])
                  /\ p = [k \in 1 .. z |->
                            [begin |-> from[k], end |-> from[k] + s[k].reach * s[k].bytes,
                             next |-> from[k + 1], aligned |-> s[k].aligned]]
  BY PlaceUnfolds
<1>2. z \in Nat /\ \A k \in 1 .. z : Bounded(s[k]) /\ Width(s[k]) \in Nat
  BY WidthFacts, LenProperties DEF Orderly
<1>3. \A k \in 1 .. z : s[k].aligned => \A j \in 1 .. k - 1 : Width(s[j]) % 16 = 0
  BY DEF Orderly
<1> HIDE DEF z, p
<1>4. DOMAIN p = 1 .. z /\ Len(p) = z
  BY <1>1, <1>2
<1>5. ASSUME NEW n \in 1 .. z, s[n].aligned PROVE from[n] % 16 = 0
  <2> DEFINE Even == {i \in 0 .. n - 1 : from[i + 1] \in Nat /\ from[i + 1] % 16 = 0}
  <2>1. 0 \in Even
    BY <1>1, <1>2
  <2>2. ASSUME NEW i \in 1 .. n - 1, i - 1 \in Even PROVE i \in Even
    <3>1. from[i] \in Nat /\ from[i] % 16 = 0
      <4>1. (i - 1) + 1 = i
        OBVIOUS
      <4> QED BY <2>2, <4>1
    <3>2. Width(s[i]) \in Nat /\ Width(s[i]) % 16 = 0 /\ from[i + 1] = from[i] + Width(s[i])
      <4>1. i \in 1 .. z /\ i \in 1 .. n - 1
        BY <1>2
      <4>2. Width(s[i]) % 16 = 0
        BY <1>3, <1>5, <4>1
      <4> QED BY <1>1, <1>2, <4>1, <4>2
    <3>3. \A a, b \in Nat : a % 16 = 0 /\ b % 16 = 0 => (a + b) % 16 = 0 /\ a + b \in Nat
      OBVIOUS
    <3>4. from[i + 1] \in Nat /\ from[i + 1] % 16 = 0
      BY <3>1, <3>2, <3>3
    <3> QED BY <3>4
  <2>3. n - 1 \in Nat /\ n - 1 \in 0 .. n - 1 /\ (n - 1) + 1 = n
    BY <1>2
  <2> HIDE DEF Even
  <2>4. 0 .. n - 1 \subseteq Even
    BY <2>1, <2>2, <2>3, UpTo
  <2>5. n - 1 \in Even
    BY <2>3, <2>4
  <2> QED BY <2>3, <2>5 DEF Even
<1>6. ASSUME NEW n \in 1 .. z, NEW k \in n + 1 .. z
      PROVE  from[n] + s[n].reach * s[n].bytes <= from[k]
  <2> DEFINE Beyond == {i \in 0 .. z - n : i # 0 => n + i \in 1 .. z + 1 /\ from[n + i] \in Int /\ from[n + 1] <= from[n + i]}
  <2>1. /\ s[n].reach * s[n].bytes \in Nat /\ s[n].reach * s[n].bytes <= Width(s[n])
        /\ from[n] \in Nat /\ from[n + 1] = from[n] + Width(s[n]) /\ Width(s[n]) \in Nat
    BY <1>1, <1>2, WidthFacts
  <2>2. 0 \in Beyond
    BY <1>2
  <2>3. ASSUME NEW i \in 1 .. z - n, i - 1 \in Beyond PROVE i \in Beyond
    <3>1. n + i \in 1 .. z /\ n + (i - 1) = (n + i) - 1 /\ i \in 0 .. z - n
      BY <1>2
    <3>2. CASE i = 1
      <4>1. n + i \in 1 .. z + 1 /\ n + i = n + 1
        BY <1>2, <3>1, <3>2
      <4>2. from[n + i] \in Int /\ from[n + 1] <= from[n + i]
        BY <2>1, <4>1
      <4> QED BY <3>1, <4>1, <4>2
    <3>3. CASE i # 1
      <4>1. (n + i) - 1 \in 1 .. z /\ ((n + i) - 1) + 1 = n + i
        BY <1>2, <3>1, <3>3
      <4>2. from[n + i] = from[(n + i) - 1] + Width(s[(n + i) - 1]) /\ Width(s[(n + i) - 1]) \in Nat
        BY <1>1, <1>2, <4>1
      <4>3. from[n + 1] <= from[n + (i - 1)] /\ from[n + (i - 1)] \in Int
        BY <2>3, <3>3
      <4>4. from[n + i] \in Nat /\ from[(n + i) - 1] \in Nat
        BY <1>1, <3>1, <4>1
      <4>5. from[n + 1] <= from[n + i]
        BY <2>1, <3>1, <4>2, <4>3, <4>4
      <4>6. n + i \in 1 .. z + 1 /\ from[n + i] \in Int
        BY <1>2, <3>1, <4>4
      <4> QED BY <3>1, <4>5, <4>6
    <3> QED BY <3>2, <3>3
  <2> HIDE DEF Beyond
  <2>4. k - n \in 0 .. z - n /\ z - n \in Nat /\ k - n # 0 /\ n + (k - n) = k
    BY <1>2
  <2>5. 0 .. z - n \subseteq Beyond
    BY <2>2, <2>3, <2>4, UpTo
  <2>6. from[n + 1] <= from[k] /\ from[k] \in Int
    <3>1. k - n \in Beyond
      BY <2>4, <2>5
    <3> QED BY <2>4, <3>1 DEF Beyond
  <2> QED BY <2>1, <2>6
<1>7. \A n \in 1 .. z : /\ p[n].begin = from[n] /\ p[n].aligned = s[n].aligned
                        /\ p[n].end = from[n] + s[n].reach * s[n].bytes
  BY <1>1
<1>8. ASSUME NEW n \in 1 .. z, NEW k \in n + 1 .. z PROVE p[n].end <= p[k].begin
  <2>1. k \in 1 .. z
    BY <1>2
  <2> QED BY <1>6, <1>7, <2>1
<1> QED BY <1>4, <1>5, <1>7, <1>8 DEF p

\* A column is whole lines of 16 bytes, enough for all repetitions.
LEMMA StrideFacts ==
  ASSUME NEW m \in Memory!Meta, NEW bytes \in {4, 8}
  PROVE  LET d == Memory!Stride(m, bytes)
             line == Memory!DefaultAlign \div bytes
         IN /\ d \in Nat /\ m.repetitions \in Nat \ {0} /\ m.repetitions <= d
            /\ \E q \in Nat : d * bytes = 16 * q
            /\ line \in {2, 4} /\ m.repetitions % line \in Nat
            /\ d - m.repetitions = IF m.repetitions % line = 0 THEN 0 ELSE line - (m.repetitions % line)
<1> DEFINE r == m.repetitions
           d == Memory!Stride(m, bytes)
<1>1. r \in Nat \ {0}
  BY DEF Memory!Meta
<1>2. CASE bytes = 4
  <2>1. 16 \div 4 = 4
    OBVIOUS
  <2>2. d = IF r % 4 = 0 THEN r ELSE (r + 4) - (r % 4)
    BY <1>2, <2>1 DEF Memory!Stride, Memory!DefaultAlign
  <2>3. d \in Nat /\ r <= d /\ d % 4 = 0 /\ d - r = IF r % 4 = 0 THEN 0 ELSE 4 - (r % 4)
    BY <1>1, <2>2
  <2>4. d \div 4 \in Nat /\ d = 4 * (d \div 4)
    BY <2>3
  <2>5. d * 4 = 16 * (d \div 4)
    BY <2>3, <2>4
  <2>6. r % 4 \in Nat
    BY <1>1
  <2> HIDE DEF d, r
  <2>7. 16 \div bytes = 4 /\ \E q \in Nat : d * bytes = 16 * q
    BY <1>2, <2>1, <2>4, <2>5
  <2> QED BY <1>1, <2>3, <2>6, <2>7 DEF d, r, Memory!DefaultAlign
<1>3. CASE bytes = 8
  <2>1. 16 \div 8 = 2
    OBVIOUS
  <2>2. d = IF r % 2 = 0 THEN r ELSE (r + 2) - (r % 2)
    BY <1>3, <2>1 DEF Memory!Stride, Memory!DefaultAlign
  <2>3. d \in Nat /\ r <= d /\ d % 2 = 0 /\ d - r = IF r % 2 = 0 THEN 0 ELSE 2 - (r % 2)
    BY <1>1, <2>2
  <2>4. d \div 2 \in Nat /\ d = 2 * (d \div 2)
    BY <2>3
  <2>5. d * 8 = 16 * (d \div 2)
    BY <2>3, <2>4
  <2>6. r % 2 \in Nat
    BY <1>1
  <2> HIDE DEF d, r
  <2>7. 16 \div bytes = 2 /\ \E q \in Nat : d * bytes = 16 * q
    BY <1>3, <2>1, <2>4, <2>5
  <2> QED BY <1>1, <2>3, <2>6, <2>7 DEF d, r, Memory!DefaultAlign
<1> QED BY <1>2, <1>3

LEMMA Shortened ==
  ASSUME NEW a \in Array, NEW size \in Nat, a.reach <= size
  PROVE  Bounded([a EXCEPT !.size = size])
BY DEF Array, Bounded

\* A column of n alternatives, draws or attributes takes n strides, of which all but the
\* padding of the last is used.
LEMMA ColumnsFacts ==
  ASSUME NEW m \in Memory!Meta, NEW n \in Nat \ {0}
  PROVE  /\ Bounded(Memory!Columns(m, n)) /\ Width(Memory!Columns(m, n)) % 16 = 0
         /\ Bounded(Memory!LastColumns(m, n))
<1> DEFINE r == m.repetitions
           f == m.float
           d == Memory!Stride(m, f)
           line == Memory!DefaultAlign \div f
           pad == IF r % line = 0 THEN 0 ELSE line - (r % line)
<1>1. f \in {4, 8} /\ f \in Nat
  BY DEF Memory!Meta
<1>2. /\ d \in Nat /\ r \in Nat /\ r <= d /\ d - r = pad
      /\ \E q \in Nat : d * f = 16 * q
  BY <1>1, StrideFacts
<1>3. /\ Memory!Columns(m, n) = [bytes |-> f, size |-> n * d, reach |-> (n - 1) * d + r, aligned |-> TRUE]
      /\ Memory!LastColumns(m, n) = [Memory!Columns(m, n) EXCEPT !.size = @ - pad]
  BY DEF Memory!Columns, Memory!LastColumns
<1> HIDE DEF f, d, r, pad
<1>4. n * d = (n - 1) * d + d /\ (n - 1) * d \in Nat /\ n * d \in Nat
  <2>1. n - 1 \in Nat
    OBVIOUS
  <2> QED BY <1>2, <2>1
<1>5. (n - 1) * d + r \in Nat /\ (n - 1) * d + r <= n * d /\ (n - 1) * d + r = n * d - pad
  <2> DEFINE a == (n - 1) * d
  <2>1. a \in Nat /\ n * d = a + d
    BY <1>4
  <2> HIDE DEF a
  <2>2. a + r \in Nat /\ a + r <= a + d /\ a + r = (a + d) - pad
    BY <1>2, <2>1
  <2> QED BY <2>1, <2>2 DEF a
<1>6. Bounded(Memory!Columns(m, n)) /\ Bounded(Memory!LastColumns(m, n))
  <2> DEFINE size == n * d
             reach == (n - 1) * d + r
             a == Memory!Columns(m, n)
  <2>1. size \in Nat /\ reach \in Nat /\ reach <= size /\ size - pad = reach
    BY <1>4, <1>5
  <2>2. a = [bytes |-> f, size |-> size, reach |-> reach, aligned |-> TRUE]
    BY <1>3
  <2> HIDE DEF size, reach, a
  <2>3. Bounded(a) /\ a.size = size /\ a.reach = reach
    BY <1>1, <2>1, <2>2 DEF Bounded, Array
  <2>4. a.size - pad \in Nat /\ a.reach <= a.size - pad
    BY <2>1, <2>3
  <2>5. Bounded([a EXCEPT !.size = a.size - pad])
    <3> DEFINE v == a.size - pad
    <3> HIDE DEF v
    <3>1. v \in Nat /\ a.reach <= v /\ a \in Array
      BY <2>3, <2>4 DEF v, Bounded
    <3>2. Bounded([a EXCEPT !.size = v])
      BY <3>1, Shortened
    <3> QED BY <3>2 DEF v
  <2> QED BY <1>3, <2>3, <2>5 DEF a
<1>7. Width(Memory!Columns(m, n)) % 16 = 0
  <2>1. PICK q \in Nat : d * f = 16 * q
    BY <1>2
  <2>2. Width(Memory!Columns(m, n)) = (n * d) * f
    BY <1>3 DEF Width
  <2>3. (n * d) * f = n * (d * f)
    BY <1>1, <1>2
  <2>4. Width(Memory!Columns(m, n)) = n * (16 * q)
    BY <2>1, <2>2, <2>3
  <2> QED BY <2>1, <2>4, Multiples
<1> QED BY <1>6, <1>7

LEMMA ExtendedFacts ==
  ASSUME NEW m \in Memory!Meta
  PROVE  Bounded(Memory!Extended(m)) /\ Width(Memory!Extended(m)) % 16 = 0
<1> DEFINE f == m.extended
           d == Memory!Stride(m, f)
<1>1. f \in {4, 8} /\ f \in Nat
  BY DEF Memory!Meta
<1>2. /\ d \in Nat /\ m.repetitions \in Nat /\ m.repetitions <= d
      /\ \E q \in Nat : d * f = 16 * q
  BY <1>1, StrideFacts
<1>3. Memory!Extended(m) = [bytes |-> f, size |-> d, reach |-> m.repetitions, aligned |-> TRUE]
  BY DEF Memory!Extended
<1> HIDE DEF d, f
<1>4. Bounded(Memory!Extended(m))
  BY <1>1, <1>2, <1>3 DEF Bounded, Array
<1>5. Width(Memory!Extended(m)) = d * f
  BY <1>3 DEF Width
<1>6. \A q \in Nat : (16 * q) % 16 = 0
  OBVIOUS
<1> QED BY <1>2, <1>4, <1>5, <1>6

\* Several arrays of one kind.
LEMMA TimesFacts ==
  ASSUME NEW n \in Nat, NEW a, Bounded(a)
  PROVE  /\ Width(a) % 16 = 0 => Padded(Memory!Times(n, a))
         /\ ~a.aligned => Unaligned(Memory!Times(n, a))
<1>1. /\ Memory!Times(n, a) \in Seq(Array) /\ Len(Memory!Times(n, a)) = n
      /\ \A k \in 1 .. n : Memory!Times(n, a)[k] = a
  BY DEF Memory!Times, Bounded
<1> QED BY <1>1 DEF Padded, Unaligned

LEMMA TagsFacts ==
  ASSUME NEW m \in Memory!Meta, NEW n \in Nat
  PROVE  Bounded(Memory!Tags(m, n)) /\ ~Memory!Tags(m, n).aligned
<1>1. m.float \in Nat
  BY DEF Memory!Meta
<1> QED BY <1>1 DEF Memory!Tags, Bounded, Array

LEMMA Associative ==
  \A T : \A s, t, u \in Seq(T) : (s \o t) \o u = s \o (t \o u)
<1>1. SUFFICES ASSUME NEW T, NEW s \in Seq(T), NEW t \in Seq(T), NEW u \in Seq(T)
               PROVE  (s \o t) \o u = s \o (t \o u)
  OBVIOUS
<1> QED BY ConcatAssociative

\* The last elements of what is appended are appended one by one.
LEMMA PutOneByOne ==
  ASSUME NEW s \in Seq(Array), NEW a \in Array, NEW b \in Array, NEW c \in Array
  PROVE  /\ (s \o <<a>>) \o <<b>> = s \o <<a, b>>
         /\ (s \o <<a, b>>) \o <<c>> = s \o <<a, b, c>>
<1> DEFINE x == <<a>>
           y == <<b>>
           xy == <<a, b>>
           z == <<c>>
<1>1. x \in Seq(Array) /\ y \in Seq(Array) /\ xy \in Seq(Array) /\ z \in Seq(Array)
  OBVIOUS
<1>2. x \o y = xy
  <2>1. x \o y \in Seq(Array) /\ Len(x \o y) = 2 /\ (x \o y)[1] = a /\ (x \o y)[2] = b
    BY <1>1, ConcatProperties
  <2>2. Len(xy) = 2 /\ xy[1] = a /\ xy[2] = b
    OBVIOUS
  <2> HIDE DEF x, y, xy, z
  <2>3. \A i \in 1 .. 2 : (x \o y)[i] = xy[i]
    <3>1. \A i \in 1 .. 2 : i = 1 \/ i = 2
      OBVIOUS
    <3> QED BY <2>1, <2>2, <3>1
  <2> QED BY <1>1, <2>1, <2>2, <2>3, SeqEqual
<1>3. xy \o z = <<a, b, c>>
  <2> DEFINE w == <<a, b, c>>
  <2>1. xy \o z \in Seq(Array) /\ Len(xy \o z) = 3 /\ (xy \o z)[1] = a /\ (xy \o z)[2] = b /\ (xy \o z)[3] = c
    BY <1>1, ConcatProperties
  <2>2. w \in Seq(Array) /\ Len(w) = 3 /\ w[1] = a /\ w[2] = b /\ w[3] = c
    OBVIOUS
  <2> HIDE DEF xy, z, w
  <2>3. \A i \in 1 .. 3 : (xy \o z)[i] = w[i]
    <3>1. \A i \in 1 .. 3 : i = 1 \/ i = 2 \/ i = 3
      OBVIOUS
    <3> QED BY <2>1, <2>2, <3>1
  <2>4. xy \o z = w
    BY <2>1, <2>2, <2>3, SeqEqual
  <2> QED BY <2>4 DEF w
<1> HIDE DEF x, y, xy, z
<1>4. (s \o x) \o y = s \o xy /\ (s \o xy) \o z = s \o (xy \o z)
  <2>1. \A t, u \in Seq(Array) : (s \o t) \o u = s \o (t \o u)
    BY Associative
  <2>2. (s \o x) \o y = s \o (x \o y)
    BY <1>1, <2>1
  <2>3. (s \o xy) \o z = s \o (xy \o z)
    BY <1>1, <2>1
  <2> QED BY <1>2, <2>2, <2>3
<1> QED BY <1>3, <1>4 DEF x, y, xy, z

\* The arrays of the three models are in order.
LEMMA ArraysAreOrderly ==
  ASSUME NEW kind \in Memory!ModelsWithDraws, NEW m \in Memory!Meta
  PROVE  Orderly(Memory!Arrays(kind, m))
<1> DEFINE d == m.draws
           dx == m.draws * m.x
           E == Memory!Extended(m)
           C(n) == Memory!Columns(m, n)
           L(n) == Memory!LastColumns(m, n)
           T(n) == Memory!Tags(m, n)
           X(n, a) == Memory!Times(n, a)
<1>1. d \in Nat \ {0} /\ dx \in Nat \ {0} /\ m.alternatives \in Nat \ {0}
  BY DEF Memory!Meta
<1> HIDE DEF d, dx
<1>2. /\ Bounded(E) /\ Width(E) % 16 = 0
      /\ \A n \in Nat \ {0} : Bounded(C(n)) /\ Width(C(n)) % 16 = 0 /\ Bounded(L(n))
      /\ \A n \in Nat : Bounded(T(n)) /\ ~T(n).aligned
  BY ExtendedFacts, ColumnsFacts, TagsFacts
<1> HIDE DEF E, C, L, T
<1>3. \A n \in Nat : Padded(X(n, E)) /\ \A k \in {d, dx} : Padded(X(n, C(k)))
  BY <1>1, <1>2, TimesFacts
<1>4. \A n \in Nat : \A k \in {d, dx} : Unaligned(X(n, T(k)))
  BY <1>1, <1>2, TimesFacts
<1>5. \A a, b : Bounded(a) /\ Bounded(b) /\ Width(a) % 16 = 0 /\ Width(b) % 16 = 0 =>
        Padded(<<a>>) /\ Padded(<<a, b>>)
  BY DEF Padded, Bounded
<1>6. \A a : Bounded(a) /\ ~a.aligned => Unaligned(<<a>>)
  BY DEF Unaligned, Bounded
<1> HIDE DEF X
<1>7. CASE kind = "mixed_logit"
  <2> DEFINE a == X(2, E) \o X(2, C(dx)) \o <<C(m.alternatives), E>>
             b == a \o <<L(dx)>>
  <2>1. Padded(a)
    BY <1>1, <1>2, <1>3, <1>5, PaddedJoined
  <2>2. Orderly(b)
    BY <1>1, <1>2, <2>1, LastJoined
  <2>3. Unaligned(<<T(d)>>) /\ Unaligned(X(2, T(dx)))
    BY <1>1, <1>2, <1>4, <1>6
  <2> HIDE DEF b
  <2>4. Orderly(b \o <<T(d)>> \o X(2, T(dx)))
    BY <2>2, <2>3, UnalignedJoined
  <2> QED BY <1>7, <2>4 DEF Memory!Arrays, Memory!MixedLogitArrays, b, X, E, C, L, T, d, dx
<1>8. CASE kind = "gmnl_2"
  <2> DEFINE a == X(2, E) \o X(2, C(d)) \o X(2, C(dx)) \o <<C(m.alternatives), E>>
             b == a \o <<C(dx), L(d)>>
  <2>1. Padded(a) /\ Padded(<<C(dx)>>)
    BY <1>1, <1>2, <1>3, <1>5, PaddedJoined
  <2>2. Orderly((a \o <<C(dx)>>) \o <<L(d)>>)
    BY <1>1, <1>2, <2>1, PaddedJoined, LastJoined
  <2>3. (a \o <<C(dx)>>) \o <<L(d)>> = b
    <3>1. a \in Seq(Array)
      BY <2>1 DEF Padded
    <3>2. C(dx) \in Array /\ C(d) \in Array /\ L(d) \in Array
      BY <1>1, <1>2 DEF Bounded
    <3> HIDE DEF a
    <3> QED BY <3>1, <3>2, PutOneByOne
  <2>4. Unaligned(X(3, T(d))) /\ Unaligned(X(2, T(dx)))
    BY <1>4
  <2> HIDE DEF b
  <2>5. Orderly(b \o X(3, T(d)) \o X(2, T(dx)))
    BY <2>2, <2>3, <2>4, UnalignedJoined
  <2> QED BY <1>8, <2>5 DEF Memory!Arrays, Memory!Gmnl2Arrays, b, X, E, C, L, T, d, dx
<1>9. CASE kind = "gmnl_2a"
  <2> DEFINE a == X(2, E) \o X(8, C(d)) \o X(2, C(dx)) \o <<C(m.alternatives), E>>
             b == a \o <<C(dx), C(d), L(d)>>
  <2>1. Padded(a) /\ Padded(<<C(dx), C(d)>>)
    BY <1>1, <1>2, <1>3, <1>5, PaddedJoined
  <2>2. Orderly((a \o <<C(dx), C(d)>>) \o <<L(d)>>)
    BY <1>1, <1>2, <2>1, PaddedJoined, LastJoined
  <2>3. (a \o <<C(dx), C(d)>>) \o <<L(d)>> = b
    <3>1. a \in Seq(Array)
      BY <2>1 DEF Padded
    <3>2. C(dx) \in Array /\ C(d) \in Array /\ L(d) \in Array
      BY <1>1, <1>2 DEF Bounded
    <3> HIDE DEF a
    <3> QED BY <3>1, <3>2, PutOneByOne
  <2>4. Unaligned(X(14, T(d))) /\ Unaligned(X(7, T(dx)))
    BY <1>4
  <2> HIDE DEF b
  <2>5. Orderly(b \o X(14, T(d)) \o X(7, T(dx)))
    BY <2>2, <2>3, <2>4, UnalignedJoined
  <2> QED BY <1>9, <2>5 DEF Memory!Arrays, Memory!Gmnl2aArrays, b, X, E, C, L, T, d, dx
<1> QED BY <1>7, <1>8, <1>9 DEF Memory!ModelsWithDraws

\* A processor has no arrays, or those of its task, in their places.
LayoutInv ==
  /\ part = "layout" => meta.model \in Memory!ModelsWithDraws /\ meta.m \in Memory!Meta
  /\ held # <<>> => part = "layout" /\ held = Memory!Place(Memory!Arrays(meta.model, meta.m))

LEMMA LayoutInvariant == MCSpec => []LayoutInv
<1>1. MCInit => LayoutInv
  BY LayoutAssumption DEF MCInit, LayoutInv, Memory!Init
<1>2. LayoutInv /\ [MCNext]_<<vars, designVars, meta, held, part>> => LayoutInv'
  <2>1. SUFFICES ASSUME LayoutInv, MCNext \/ UNCHANGED <<meta, held, part>> PROVE LayoutInv'
    OBVIOUS
  <2>2. CASE UNCHANGED <<meta, held>> /\ UNCHANGED part
    BY <2>1, <2>2 DEF LayoutInv
  <2>3. CASE part = "layout" /\ Memory!Next /\ UNCHANGED part
    BY <2>1, <2>3 DEF LayoutInv, Memory!Next, Memory!Construct, Memory!Constructed
  <2> QED BY <2>1, <2>2, <2>3 DEF MCNext
<1> QED BY <1>1, <1>2, PTL DEF MCSpec

\* No array of a processor reaches into the next one, and those that the vector
\* instructions work on are aligned, for any number of repetitions, draws, attributes
\* and alternatives and floats of either size.
THEOREM ArraysLieApart == MCSpec => []ArraysAreApart
<1>1. LayoutInv => ArraysAreApart
  <2>1. SUFFICES ASSUME LayoutInv PROVE ArraysAreApart
    OBVIOUS
  <2>2. CASE held = <<>>
    BY <2>2 DEF ArraysAreApart, Memory!ArraysAreApart
  <2>3. CASE held # <<>>
    <3>1. Orderly(Memory!Arrays(meta.model, meta.m))
      BY <2>1, <2>3, ArraysAreOrderly DEF LayoutInv
    <3>2. held = Memory!Place(Memory!Arrays(meta.model, meta.m))
      BY <2>1, <2>3 DEF LayoutInv
    <3> QED BY <3>1, <3>2, OrderlyLieApart DEF ArraysAreApart, Memory!ArraysAreApart, Memory!DefaultAlign
  <2> QED BY <2>2, <2>3
<1> QED BY <1>1, LayoutInvariant, PTL

=============================================================================
