----------------------------- MODULE TaskQueue ------------------------------
(***************************************************************************)
(* What the server promises about the tasks it was given, whether it is    *)
(* running, down or between the two: they wait in one queue, the front one *)
(* is worked on and eventually done, and only a request or old age removes *)
(* a task.  TaskManager implements this specification.                     *)
(***************************************************************************)
EXTENDS SequencesExt, Lists

CONSTANT Task

VARIABLES
  queue,    \* the tasks that wait, in order; the front one is worked on
  done,     \* the tasks that converged
  removed   \* the tasks that were deleted or purged

vars == <<queue, done, removed>>

\* A controller hands over a task, maybe under a name that was used before.
Submit ==
  /\ \E t \in Task \ (ToSet(queue) \cup done) :
       queue' = Append(queue, t) /\ removed' = removed \ {t}
  /\ UNCHANGED done

\* The front task converges.
Complete ==
  /\ queue # <<>>
  /\ done' = done \cup {Head(queue)} /\ queue' = Tail(queue)
  /\ UNCHANGED removed

\* Tasks are deleted on request or because they are old.
Withdraw ==
  \E S \in SUBSET (ToSet(queue) \cup done) :
    /\ queue' = Without(queue, S)
    /\ done' = done \ S /\ removed' = removed \cup S

\* One task takes another place; the others keep their order.
Move ==
  /\ ToSet(queue') = ToSet(queue) /\ Len(queue') = Len(queue)
  /\ \E t \in ToSet(queue) : Without(queue', {t}) = Without(queue, {t})
  /\ UNCHANGED <<done, removed>>

Init == queue = <<>> /\ done = {} /\ removed = {}

Next == Submit \/ Complete \/ Withdraw \/ Move

Spec == Init /\ [][Next]_vars
=============================================================================
