------------------------------- MODULE BigUints -------------------------------
(***************************************************************************)
(* The keys by which task_processor remembers the places it has visited:   *)
(* big_uint, a number of any size, of which copies share one mpz_t until   *)
(* one of them is written (netcpu/big_int.h, big_int_context.h).  Numbers  *)
(* that nobody holds any more are kept to be used again, with what they    *)
(* hold.                                                                   *)
(***************************************************************************)
EXTENDS Integers, Sequences, FiniteSets, SequencesExt, FiniteSetsExt

CONSTANTS
  Sizes,      \* grid_resolutions[0] of each coefficient; a shrink may change them
  CacheSize,  \* numbers that are there from the start
  MaxVisited, MaxUniques   \* bounds: places in each of the sets

VARIABLES
  sizes,   \* the present ones
  mem      \* of: the mpz_t of each big_uint; at: what is in each; cached_bns;
           \* visited, uniques: what visited_places and duplicates_elimination_uniques
           \* hold, [num, place], where place is what it was made from

vars == <<sizes, mem>>

\* The big_uints: offset, where keys are made; offset_ of coefficient i, called i; bn.
Offset == 0
Bn == -1

\* What a number was left with: anything, told apart from all keys.
Stale == -1000

Stored == mem.visited \cup mem.uniques

\* shared_ptr::unique, of the number of big_uint x.
Unique(m, x) ==
  /\ \A y \in DOMAIN m.of \ {x} : m.of[y] # m.of[x]
  /\ \A e \in m.visited \cup m.uniques : e.num # m.of[x]

InUse(m) == {m.of[x] : x \in DOMAIN m.of} \cup {e.num : e \in m.visited \cup m.uniques}
            \cup m.cached_bns

\* get_bn: x gets a number that is kept, as it was left, or a new one.  (Of those that
\* are kept the last one is taken; which it is makes no difference.)
GetBn(m, x) ==
  LET new == Min(1 .. (Cardinality(InUse(m)) + 1) \ InUse(m))
      of(num) == [y \in DOMAIN m.of \cup {x} |-> IF y = x THEN num ELSE m.of[y]]
  IN IF m.cached_bns = {}
     THEN [m EXCEPT !.of = of(new),
                    !.at = [n \in DOMAIN @ \cup {new} |-> IF n = new THEN 0 ELSE @[n]]]
     ELSE [m EXCEPT !.of = of(Min(m.cached_bns)), !.cached_bns = @ \ {Min(@)}]

\* Mutant of IsolateOnWrite: whoever shares the number is written to as well.
WriteAlong(m, x) == m

\* isolate_on_write, and copy_on_write.
IsolateOnWrite(m, x) == IF Unique(m, x) THEN m ELSE GetBn(m, x)
CopyOnWrite(m, x) ==
  IF Unique(m, x) THEN m
  ELSE LET got == GetBn(m, x) IN [got EXCEPT !.at[got.of[x]] = m.at[m.of[x]]]

\* operator = (a number); operator *=; addmul; operator = (another big_uint).
Set(m, x, v) == LET w == IsolateOnWrite(m, x) IN [w EXCEPT !.at[w.of[x]] = v]
Multiply(m, x, v) == LET w == CopyOnWrite(m, x) IN [w EXCEPT !.at[w.of[x]] = @ * v]
AddMul(m, x, y, v) == LET w == CopyOnWrite(m, x) IN [w EXCEPT !.at[w.of[x]] = @ + w.at[w.of[y]] * v]
Share(m, x, y) ==
  LET w == [m EXCEPT !.of[x] = m.of[y]] IN [w EXCEPT !.at = [n \in InUse(w) |-> @[n]]]

\* return_bn: what only these held is kept.
Returned(m, nums) ==
  [m EXCEPT !.at = [n \in DOMAIN @ |-> IF n \in nums \ InUse(m) THEN Stale ELSE @[n]],
            !.cached_bns = @ \cup (nums \ InUse(m))]
Destroyed(m, x) ==
  Returned([m EXCEPT !.of = [y \in DOMAIN @ \ {x} |-> @[y]]], {m.of[x]})

-----------------------------------------------------------------------------
\* rebuild_index_offset, of each coefficient in turn.
Rebuilt(m, s) ==
  FoldLeft(LAMBDA w, i : Multiply(Share(w, i, Offset), Offset, s[i]),
           Set(m, Offset, 1), [i \in DOMAIN s |-> i])

\* demodulate, from offset = 0: value_from_grid and value_reset of each coefficient.
Located(m, place) ==
  FoldLeft(LAMBDA w, i : AddMul(w, Offset, i, place[i]),
           Set(m, Offset, 0), Reverse([i \in DOMAIN place |-> i]))

Holds(m, set, x) == \E e \in set : m.at[e.num] = m.at[m.of[x]]
Places == {p \in [DOMAIN sizes -> 0 .. Max(ToSet(sizes)) - 1] : \A i \in DOMAIN p : p[i] < sizes[i]}

\* visited_places.insert: of a report, or of the bootstrapping place.
Visit(place) ==
  /\ Cardinality(mem.visited) < MaxVisited
  /\ LET m == Located(mem, place)
     IN mem' = IF Holds(m, m.visited, Offset) THEN m
               ELSE [m EXCEPT !.visited = @ \cup {[num |-> m.of[Offset], place |-> place]}]
  /\ UNCHANGED sizes

\* Is it a duplicate, and if not, has it been visited?
Cull(place) ==
  /\ Cardinality(mem.uniques) < MaxUniques
  /\ LET m == Located(mem, place)
     IN mem' = IF Holds(m, m.uniques, Offset) THEN m
               ELSE [m EXCEPT !.uniques = @ \cup {[num |-> m.of[Offset], place |-> place]}]
  /\ UNCHANGED sizes

\* duplicates_elimination_uniques.clear.
Culled ==
  /\ mem.uniques # {}
  /\ mem' = Returned([mem EXCEPT !.uniques = {}], {e.num : e \in mem.uniques})
  /\ UNCHANGED sizes

\* A shrink: the offsets are made again, and then visited_places cleared.
Shrink ==
  /\ mem.uniques = {}
  /\ \E s \in Sizes :
       /\ sizes' = s
       /\ mem' = Returned([Rebuilt(mem, s) EXCEPT !.visited = {}], {e.num : e \in mem.visited})

\* do_save_convergence_state: size and store of each.
Saved == {[key |-> mem.at[e.num], place |-> e.place] : e \in mem.visited}

\* A visited place is read back: a number that was left by someone is written over.
Loaded(m, e) ==
  LET w == Set(GetBn(m, Bn), Bn, e.key)
  IN Destroyed([w EXCEPT !.visited = @ \cup {[num |-> w.of[Bn], place |-> e.place]}], Bn)

\* A new process: the members of task_processor and of each coefficient are made.
Started(s) ==
  LET new == [of |-> <<>>, at |-> [n \in 1 .. CacheSize |-> Stale],
              cached_bns |-> 1 .. CacheSize, visited |-> {}, uniques |-> {}]
  IN Rebuilt(FoldLeft(GetBn, GetBn(new, Offset),
                      [i \in DOMAIN s |-> i]), s)

\* The state is saved, and the process started again.  (It makes no difference whether
\* anything happens in between: it is lost.)
Restart ==
  /\ mem' = FoldLeft(Loaded, Started(sizes), SetToSeq(Saved))
  /\ UNCHANGED sizes

Init == sizes \in Sizes /\ mem = Started(sizes)

Next ==
  \/ \E place \in Places : Visit(place) \/ Cull(place)
  \/ Culled \/ Shrink \/ Restart
Spec == Init /\ [][Next]_vars

-----------------------------------------------------------------------------
(* Properties.                                                              *)

\* The number before which i numbers of sizes s are told apart.
Before(s, i) == FoldLeft(LAMBDA x, y : x * y, 1, SubSeq(s, 1, i - 1))
Key(s, p) == FoldLeft(LAMBDA x, i : x + Before(s, i) * p[i], 0, [i \in DOMAIN s |-> i])

\* What a set holds is the key of the place it was made from and stays so, whatever is
\* written to the numbers it has shared with others; a number that is kept to be used
\* again has no holder; and no other place has the same key.
KeysArePlaces ==
  /\ \A e \in Stored : mem.at[e.num] = Key(sizes, e.place)
  /\ \A e, f \in mem.visited : e.place # f.place => mem.at[e.num] # mem.at[f.num]
  /\ mem.cached_bns \cap ({mem.of[x] : x \in DOMAIN mem.of} \cup {e.num : e \in Stored}) = {}
=============================================================================
