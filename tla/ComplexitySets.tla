--------------------------- MODULE ComplexitySets ---------------------------
(***************************************************************************)
(* The complexities of a task as sets of numbers: what remains of the      *)
(* present level, what was reported since the last sync, and each peer's   *)
(* share.  Converger is written in these terms; Complexities, which keeps  *)
(* ranges as the code does, implements this specification.                 *)
(***************************************************************************)
EXTENDS Sequences, Shares

CONSTANT MaxPeers   \* bound: number of processing peers

VARIABLES
  ends,      \* ends[l]: number of complexities in levels 1 .. l; never changes
  level,
  todo,      \* remaining complexities
  done,      \* accumulated complexities
  owed       \* owed[i]: share of the i-th processing peer; <<>> before any is dealt

vars == <<ends, level, todo, done, owed>>

OfLevel(l) == (IF l = 1 THEN 0 ELSE ends[l - 1]) .. (ends[l] - 1)

Deal ==
  /\ todo # {}
  /\ UNCHANGED <<ends, level, todo, done>>
  /\ \E n \in 1 .. MaxPeers : owed' = [i \in 1 .. n |-> Share(todo, n, i)]

Report ==
  /\ todo # {}
  /\ UNCHANGED <<ends, level, todo>>
  /\ \E i \in DOMAIN owed : \E x \in OfLevel(level) : \E y \in OfLevel(level) :
       /\ x <= y
       /\ done' = done \cup (x .. y)
       /\ owed' = [owed EXCEPT ![i] = @ \ (x .. y)]

\* A sync: nobody needs to do what was reported, unless shares are dealt anew.
Merge ==
  /\ done # {} /\ done' = {}
  /\ todo' = todo \ done
  /\ owed' = IF todo' = {} THEN owed ELSE [i \in DOMAIN owed |-> owed[i] \ done]
  /\ UNCHANGED <<ends, level>>

\* Any complexities of the level may turn out not to be needed.
Enter(l) ==
  /\ done = {} /\ UNCHANGED <<ends, done>>
  /\ level' = l /\ todo' \in SUBSET OfLevel(l)
  /\ IF todo' = {} THEN owed' = owed
     ELSE \E n \in 1 .. MaxPeers : owed' = [i \in 1 .. n |-> Share(todo', n, i)]

Init ==
  /\ ends # <<>>
  /\ level = 1 /\ todo = OfLevel(1) /\ done = {} /\ owed = <<>>

Next ==
  \/ Deal \/ Merge \/ Report
  \/ todo = {} /\ level < Len(ends) /\ Enter(level + 1)
  \/ Enter(1)

Spec == Init /\ [][Next]_vars
=============================================================================
