-------------------------------- MODULE Dataset --------------------------------
(***************************************************************************)
(* composite_matrix_loader (netcpu/dataset_1/controller.h): the controller *)
(* reads a sheet of a choice experiment and packs it into the messages     *)
(* that all processors get.                                                *)
(*                                                                         *)
(* A row of the sheet is one alternative of one choice set of one          *)
(* respondent.  Rows are culled and sorted, counted in a first pass, and   *)
(* packed in a second one that relies on the counts of the first.  The     *)
(* attributes of a choice set are transposed: all alternatives of the      *)
(* first attribute, then all of the second.                                *)
(*                                                                         *)
(* Cells are numbers, 0 a blank one.  Parsing of the text, and which       *)
(* column an option of the command line names, are left out.               *)
(***************************************************************************)
EXTENDS Integers, FiniteSetsExt, SequencesExt

CONSTANTS
  Sheets,        \* the sheets a controller may be given: sequences of rows of cells
  RowStart,      \* row_start_i: number of rows above the data
  RespondentId, ChoiceSetId, AlternativeId, Best,  \* columns: respondent_i, choice_set_i, ...
  Attributes,    \* x_unique: columns of the attributes
  SortBy,        \* sortby: columns to sort by, the first one first
  DelBy,         \* delby: [column, op, value]; column 0 means any of the attributes
  ByteMax        \* the largest uint8_t

VARIABLES
  sheet,      \* grid_obj
  stage,      \* the part of verify_args_sub that comes next, or how it ended
  sorted,     \* sorted: the rows that are used, in order
  at,         \* how many of them the pass under way has done
  old,        \* old_respondent, old_choice_set, old_alternative
  counts,     \* respondents_choice_sets and choice_sets_alternatives
  max_alternatives,
  cursor,     \* the second pass: choice set, alternative, composite_matrix_data_i
  matrix_composite, choice_column   \* of bulk_msg

packed == <<matrix_composite, choice_column>>
datasetVars == <<sheet, stage, sorted, at, old, counts, max_alternatives, cursor, packed>>

AttributesSize == Cardinality(Attributes)
XColumns == SetToSortSeq(Attributes, <)
NoChoice == ByteMax                      \* static_cast<uint8_t>(-1)
Row == sheet[sorted[at + 1]]
Columns == <<RespondentId, ChoiceSetId, AlternativeId>>
Id(row) == [c \in 1 .. 3 |-> row[Columns[c]]]

-----------------------------------------------------------------------------
\* is_excluded
Excludes(op, value, cell) ==
  CASE op = "lt" -> cell < value  [] op = "le" -> cell <= value
    [] op = "eq" -> cell = value  [] op = "ne" -> cell # value
    [] op = "ge" -> cell >= value [] op = "gt" -> cell > value

Excluded(row) ==
  \E d \in Range(DelBy) :
    \E c \in IF d.column = 0 THEN Attributes ELSE {d.column} : Excludes(d.op, d.value, row[c])

\* grid_sorter, and the order of the rows among those it holds equal (list::sort is stable).
Before(i, j) ==
  LET differ == {n \in DOMAIN SortBy : sheet[i][SortBy[n]] # sheet[j][SortBy[n]]}
  IN IF differ = {} THEN i < j
     ELSE sheet[i][SortBy[Min(differ)]] < sheet[j][SortBy[Min(differ)]]

\* Load the sorting index whilst culling rows.
Cull ==
  /\ stage = "cull"
  /\ LET kept == {i \in RowStart + 1 .. Len(sheet) : ~Excluded(sheet[i])}
     IN /\ sorted' = SetToSortSeq(kept, Before)
        /\ stage' = IF kept = {} THEN "rejected" ELSE "count"
  /\ UNCHANGED <<sheet, at, old, counts, max_alternatives, cursor, packed>>

-----------------------------------------------------------------------------
(* First pass: a new respondent starts a choice set, and that an alternative. *)

Increment(s) == [s EXCEPT ![Len(s)] = @ + 1]

\* The leftmost column of the three that differs from the row before; 4 if none does.
Stage(row) == Min({c \in 1 .. 3 : Id(row)[c] # old[c]} \cup {4})

CountRow ==
  /\ stage = "count" /\ at < Len(sorted)
  /\ LET s    == Stage(Row)
         sets == IF s = 1 THEN Append(counts.sets, 1)
                 ELSE IF s = 2 THEN Increment(counts.sets) ELSE counts.sets
         alternatives == IF s < 3 THEN Append(counts.alternatives, 1)
                         ELSE Increment(counts.alternatives)
         many == Last(alternatives)
     IN \/ /\ s = 4                                      \* "design has duplicate rows"
           /\ stage' = "rejected"
           /\ UNCHANGED <<at, old, counts, max_alternatives>>
        \/ \* A blank id in the first row is no different from none: back() of an empty list.
           /\ s \in {2, 3} /\ at = 0
           /\ stage' = "undefined"
           /\ UNCHANGED <<at, old, counts, max_alternatives>>
        \/ /\ s < 4 /\ (s = 1 \/ at > 0)
           /\ old' = [c \in 1 .. 3 |-> IF c >= s THEN Id(Row)[c] ELSE old[c]]
           /\ counts' = [sets |-> sets, alternatives |-> alternatives]
           /\ max_alternatives' = Max({max_alternatives, many})
           /\ at' = at + 1
           /\ stage' = IF many > max_alternatives /\ many = ByteMax THEN "rejected" ELSE stage
  /\ UNCHANGED <<sheet, sorted, cursor, packed>>

\* The messages are given their sizes.
Resize ==
  /\ stage = "count" /\ at = Len(sorted)
  /\ matrix_composite' = [n \in 1 .. Len(sorted) * AttributesSize |-> 0]
  /\ choice_column' = [n \in 1 .. Len(counts.alternatives) |-> NoChoice]
  /\ stage' = "pack" /\ at' = 0
  /\ UNCHANGED <<sheet, sorted, old, counts, max_alternatives, cursor>>

-----------------------------------------------------------------------------
(* Second pass: transposition of alternatives into columns.                *)

\* Where attribute number x of the alternative goes.
CellOf(x) == cursor.base + cursor.alternative + (x - 1) * counts.alternatives[cursor.set]

PackRow ==
  /\ stage = "pack" /\ at < Len(sorted)
  /\ matrix_composite' = [n \in DOMAIN matrix_composite |->
                            IF \E x \in 1 .. AttributesSize : n = CellOf(x) + 1
                            THEN Row[XColumns[CHOOSE x \in 1 .. AttributesSize : n = CellOf(x) + 1]]
                            ELSE matrix_composite[n]]
  /\ LET size == counts.alternatives[cursor.set]
         \* A cell that is no 0 or 1, or a second choice.
         bad  == \/ Row[Best] \notin {0, 1}
                 \/ Row[Best] = 1 /\ choice_column[cursor.set] # NoChoice
     IN /\ choice_column' = IF Row[Best] = 1 /\ ~bad
                            THEN [choice_column EXCEPT ![cursor.set] = cursor.alternative]
                            ELSE choice_column
        /\ stage' = IF bad THEN "rejected" ELSE stage
        \* After the last alternative the choice column is compared with -1, which the
        \* uint8_t never equals: that there was no choice goes unnoticed.
        /\ cursor' = IF cursor.alternative + 1 < size
                     THEN [cursor EXCEPT !.alternative = @ + 1]
                     ELSE [set |-> cursor.set + 1, alternative |-> 0,
                           base |-> cursor.base + AttributesSize * size]
  /\ at' = at + 1
  /\ UNCHANGED <<sheet, sorted, old, counts, max_alternatives>>

Loaded ==
  /\ stage = "pack" /\ at = Len(sorted)
  /\ stage' = "loaded"
  /\ UNCHANGED <<sheet, sorted, at, old, counts, max_alternatives, cursor, packed>>

-----------------------------------------------------------------------------
DatasetInit ==
  /\ sheet \in Sheets
  /\ stage = "cull" /\ sorted = <<>> /\ at = 0
  /\ old = <<0, 0, 0>>
  /\ counts = [sets |-> <<>>, alternatives |-> <<>>]
  /\ max_alternatives = 0
  /\ cursor = [set |-> 1, alternative |-> 0, base |-> 0]
  /\ matrix_composite = <<>> /\ choice_column = <<>>

DatasetNext == Cull \/ CountRow \/ Resize \/ PackRow \/ Loaded
=============================================================================
