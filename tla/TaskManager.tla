---------------------------- MODULE TaskManager -----------------------------
(***************************************************************************)
(* The task list of the server (netcpu/server.cc): the pending tasks, of   *)
(* which only the front one is active, the completed ones, the ids and     *)
(* directories of tasks, the two index files, and the peers that wait for  *)
(* a task to become active.  The server is single-threaded, so a handler   *)
(* is one step; but it changes several files one after the other, and may  *)
(* die between any two of them.                                            *)
(***************************************************************************)
EXTENDS Integers, SequencesExt, Lists

CONSTANTS
  Model,        \* what generate_taskdir appends to the id in a task's name
  Peer,
  IdSpace,      \* ids are 0 .. IdSpace - 1 (100000)
  Margin,       \* free ids kept in front of taskid_begin (300)
  Steps,        \* bound: the steps_to_move_by that controllers send
  CrashPoints,  \* bound: the handlers that may be cut short by a crash
  MaxCrashes    \* bound: number of crashes

ASSUME TasksAssumption ==
  /\ IdSpace \in Nat \ {0} /\ Margin \in 1 .. IdSpace
  /\ Steps \subseteq Int \ {0}
  /\ MaxCrashes \in Nat

Id == 0 .. IdSpace - 1
Task == [id : Id, model : Model]

VARIABLES
  up,       \* the server is running
  server,   \* its memory
  disk,     \* its files, under --root
  removed,  \* history: names of tasks that were deleted on request or purged
  crashes

vars == <<up, server, disk, removed, crashes>>

\* aged_tasks (and named_tasks, tasks_ids) hold every task in memory, oldest
\* first.  A peer is "idle" with a peer_connection, "ready" when in
\* ready_to_process_peers, "working" for the active task, "ending" while it has
\* not echoed end_process.
Server == [aged : Seq(Task), pending : Seq(Task), completed : SUBSET Task,
           active : SUBSET Task, taskid_begin : Id, taskid_end : Id,
           peer : [Peer -> {"away", "idle", "ready", "working", "ending"}]]

NoServer == [aged |-> <<>>, pending |-> <<>>, completed |-> {}, active |-> {},
             taskid_begin |-> 0, taskid_end |-> 0, peer |-> [p \in Peer |-> "away"]]

\* Task directories (oldest first), pending.txt, completed.txt, taskid_begin and
\* taskid_end.
Disk == [dirs : Seq(Task), pending : Seq(Task), completed : SUBSET Task,
         taskid_begin : Id, taskid_end : Id]

NoFiles == [dirs |-> <<>>, pending |-> <<>>, completed |-> {},
            taskid_begin |-> 0, taskid_end |-> 0]

Known(s) == ToSet(s.aged)
Listed(s) == ToSet(s.pending) \cup s.completed

\* Tasks that are owned by a task_loader_detail.
Loading(s) == Known(s) \ Listed(s)

-----------------------------------------------------------------------------
(* Parts of handlers.                                                       *)

\* task::deactivate: the peers of an active task are told to end.
Deactivated(s, t) ==
  IF t \notin s.active THEN s
  ELSE [s EXCEPT !.active = @ \ {t},
                 !.peer = [p \in Peer |-> IF @[p] = "working" THEN "ending" ELSE @[p]]]

\* activate_front_pending_task: whoever waits starts to work.
Activated(s) ==
  IF s.pending = <<>> \/ Head(s.pending) \in s.active THEN s
  ELSE [s EXCEPT !.active = @ \cup {Head(s.pending)},
                 !.peer = [p \in Peer |-> IF @[p] = "ready" THEN "working" ELSE @[p]]]

\* Mutant of Released: the ids of all other tasks are taken for free.
ReleasedAll(s, t) == IF t.id = s.taskid_begin THEN s.taskid_end ELSE s.taskid_begin

\* ~tasks_ids_scoped_membership_iterator: taskid_begin moves on to the next id.
Released(s, t) ==
  LET above == {u.id : u \in {v \in Known(s) : v.id > t.id}}
  IN IF t.id # s.taskid_begin THEN s.taskid_begin
     ELSE IF above = {} THEN s.taskid_end ELSE Min(above)

\* ~task, once its directory has gone.
Forgotten(s, t) ==
  [Deactivated(s, t) EXCEPT !.aged = Without(@, {t}), !.pending = Without(@, {t}),
                            !.completed = @ \ {t}, !.taskid_begin = Released(s, t)]

\* Mutant of Recovered: the tasks stay in the order of their directories.
RecoveredUnordered(d) ==
  [aged |-> Only(d.dirs, d.completed \cup ToSet(d.pending)),
   pending |-> Only(d.dirs, ToSet(d.pending)),
   completed |-> d.completed \cap ToSet(d.dirs), active |-> {},
   taskid_begin |-> d.taskid_begin, taskid_end |-> d.taskid_end,
   peer |-> [p \in Peer |-> "away"]]

\* run: what the server makes of its files.  A directory in neither index is
\* passed over.
Recovered(d) ==
  [aged |-> Only(d.dirs, d.completed \cup ToSet(d.pending)),
   pending |-> Only(d.pending, ToSet(d.dirs)),
   completed |-> d.completed \cap ToSet(d.dirs), active |-> {},
   taskid_begin |-> d.taskid_begin, taskid_end |-> d.taskid_end,
   peer |-> [p \in Peer |-> "away"]]

\* A handler turns the memory into s and the files into d.  A crash leaves the
\* files as one of `partial', which ends with d.  Of the tasks in `gone' those
\* whose directory has been removed are removed.
Handled(kind, s, partial, d, gone) ==
  /\ \/ up' = TRUE /\ server' = s /\ disk' = d /\ UNCHANGED crashes
     \/ /\ kind \in CrashPoints /\ crashes < MaxCrashes /\ crashes' = crashes + 1
        /\ up' = FALSE /\ server' = NoServer /\ disk' \in partial
  /\ removed' = (removed \cup (gone \ ToSet(disk'.dirs))) \ ToSet(Recovered(disk').pending)

\* An exception that nothing handles ends the server.
Died(d) == up' = FALSE /\ server' = NoServer /\ disk' = d /\ UNCHANGED <<removed, crashes>>

-----------------------------------------------------------------------------
(* Tasks that are being loaded.                                             *)

\* generate_taskdir and the constructor of task_loader_detail.
NewTask(m) ==
  /\ up
  /\ LET t    == [id |-> server.taskid_end, model |-> m]
         end  == (server.taskid_end + 1) % IdSpace
         made == [disk EXCEPT !.dirs = Append(@, t)]
         kept == [made EXCEPT !.taskid_end = end]
     IN \/ t \in ToSet(disk.dirs) /\ Died(disk)
        \/ /\ t \notin ToSet(disk.dirs)
           /\ server.taskid_begin - end \in 0 .. Margin - 1
           /\ Died(made)
        \/ /\ t \notin ToSet(disk.dirs)
           /\ server.taskid_begin - end \notin 0 .. Margin - 1
           /\ Handled("new", [server EXCEPT !.aged = Append(@, t), !.taskid_end = end],
                      {made, kept}, kept, {})

\* on_error of task_loader_detail, which takes its task with it.
LoaderFails(t) ==
  /\ up /\ t \in Loading(server)
  /\ LET s   == Forgotten(server, t)
         rm  == [disk EXCEPT !.dirs = Without(@, {t})]
         d   == [rm EXCEPT !.taskid_begin = s.taskid_begin]
     IN Handled("delete", s, {rm, d}, d, {})

\* on_new_taskname_write: markpending.
MarkPending(t) ==
  /\ up /\ t \in Loading(server)
  /\ LET s == [server EXCEPT !.pending = Append(@, t)]
         d == [disk EXCEPT !.pending = s.pending]
     IN Handled("pending", Activated(s), {d}, d, {})

-----------------------------------------------------------------------------
(* Controllers, the purging timer, and the active task.                     *)

\* on_delete_task, for a task that a controller was shown.
Delete(t) ==
  /\ up /\ t \in Listed(server)
  /\ LET s  == Forgotten(server, t)
         rm == [disk EXCEPT !.dirs = Without(@, {t})]
         id == [rm EXCEPT !.taskid_begin = s.taskid_begin]
         d  == IF t \in server.completed THEN [id EXCEPT !.completed = s.completed]
               ELSE [id EXCEPT !.pending = s.pending]
     IN Handled("delete", IF t \in server.completed THEN s ELSE Activated(s),
                {rm, id, d}, d, {t})

\* The server when i of the n oldest tasks have been forgotten, one after the other.
Purged(s, n) ==
  LET after[i \in 0 .. n] ==
        IF i = 0 THEN s ELSE Forgotten(after[i - 1], s.aged[i])
  IN after

\* purge_old_tasks: the n oldest tasks are too old.  None of them is loading
\* still: an age is counted in days.
Purge(n) ==
  /\ up /\ \A i \in 1 .. n : server.aged[i] \in Listed(server)
  /\ LET after == Purged(server, n)
         Oldest(i) == {server.aged[k] : k \in 1 .. i}
         Files(i, j) == [disk EXCEPT !.dirs = Without(@, Oldest(i)),
                                     !.taskid_begin = after[j].taskid_begin]
         s    == after[n]
         wait == Len(s.pending) # Len(server.pending)
         pend == IF wait THEN [Files(n, n) EXCEPT !.pending = s.pending] ELSE Files(n, n)
         d    == [pend EXCEPT !.completed = IF s.completed # server.completed
                                            THEN s.completed ELSE @]
     IN Handled("purge", IF wait THEN Activated(s) ELSE s,
                {Files(i, i - 1) : i \in 1 .. n} \cup {Files(i, i) : i \in 1 .. n} \cup {pend, d},
                d, Oldest(n))

\* The element of the list before which move_in_list_of_pending_tasks inserts.
MoveTo(n, i, steps) ==
  IF steps > 0 THEN IF i + steps < n THEN i + steps + 1 ELSE n + 1
  ELSE IF i + steps > 1 THEN i + steps ELSE 1

\* Mutant of Moved: a task that takes the front place leaves the other active.
MovedQuietly(s, i, to) ==
  LET t == s.pending[i]
      r == IF t \in s.active THEN Deactivated(s, t) ELSE s
  IN IF to \in {i, i + 1} THEN s
     ELSE [r EXCEPT !.pending = InsertAt(RemoveAt(@, i), IF to > i THEN to - 1 ELSE to, t)]

\* move_in_list_of_pending_tasks: whichever task is active, and no longer will
\* be at the front, is deactivated.
Moved(s, i, to) ==
  LET t == s.pending[i]
      r == IF t \in s.active THEN Deactivated(s, t)
           ELSE IF to = 1 THEN Deactivated(s, s.pending[1]) ELSE s
  IN IF to \in {i, i + 1} THEN s
     ELSE [r EXCEPT !.pending = InsertAt(RemoveAt(@, i), IF to > i THEN to - 1 ELSE to, t)]

\* Mutant of Move: the new order is not written.
MoveUnsaved(i, steps) ==
  /\ up /\ i \in 1 .. Len(server.pending)
  /\ server' = Activated(Moved(server, i, MoveTo(Len(server.pending), i, steps)))
  /\ UNCHANGED <<up, disk, removed, crashes>>

\* on_move_task_in_list
Move(i, steps) ==
  /\ up /\ i \in 1 .. Len(server.pending)
  /\ LET s == Moved(server, i, MoveTo(Len(server.pending), i, steps))
         d == [disk EXCEPT !.pending = s.pending]
     IN Handled("move", Activated(s), {d}, d, {})

\* task::on_converged of the active task: markcompleted.  The next task is
\* active before completed.txt is written.
Complete(t) ==
  /\ up /\ t \in server.active /\ t = Head(server.pending)
  /\ LET s    == [Deactivated(server, t) EXCEPT !.pending = Tail(@), !.completed = @ \cup {t}]
         pend == [disk EXCEPT !.pending = s.pending]
         d    == [pend EXCEPT !.completed = s.completed]
     IN Handled("complete", Activated(s), {pend, d}, d, {})

-----------------------------------------------------------------------------
(* Peers.                                                                   *)

PeerBecomes(p, state) ==
  server' = [server EXCEPT !.peer[p] = state] /\ UNCHANGED <<up, disk, removed, crashes>>

Connect(p) == up /\ server.peer[p] = "away" /\ PeerBecomes(p, "idle")

\* Mutant of ReadyToProcess: a peer is queued although a task is active.
ReadyToProcessLater(p) ==
  up /\ server.peer[p] = "idle" /\ PeerBecomes(p, "ready")

\* on_read of ready_to_process
ReadyToProcess(p) ==
  /\ up /\ server.peer[p] = "idle"
  /\ PeerBecomes(p, IF server.pending # <<>> /\ Head(server.pending) \in server.active
                    THEN "working" ELSE "ready")

\* end_process_writer has its message echoed.
EndProcess(p) == up /\ server.peer[p] = "ending" /\ PeerBecomes(p, "idle")

\* A connection is lost, or end_process is not echoed within 30 seconds.
Disconnect(p) == up /\ server.peer[p] # "away" /\ PeerBecomes(p, "away")

-----------------------------------------------------------------------------
(* The server process.                                                      *)

Crash ==
  /\ up /\ "idle" \in CrashPoints /\ crashes < MaxCrashes /\ crashes' = crashes + 1
  /\ up' = FALSE /\ server' = NoServer
  /\ UNCHANGED <<disk, removed>>

Start ==
  /\ ~up
  /\ LET s    == Recovered(disk)
         comp == [disk EXCEPT !.completed = s.completed]
         d    == [comp EXCEPT !.pending = s.pending]
     IN Handled("start", Activated(s), {comp, d}, d, {})

Init ==
  /\ up = FALSE /\ server = NoServer /\ disk = NoFiles /\ removed = {} /\ crashes = 0

Next ==
  \/ Start \/ Crash
  \/ \E m \in Model : NewTask(m)
  \/ \E t \in Known(server) : LoaderFails(t) \/ MarkPending(t) \/ Delete(t) \/ Complete(t)
  \/ \E n \in 1 .. Len(server.aged) : Purge(n)
  \/ \E i \in 1 .. Len(server.pending) : \E steps \in Steps : Move(i, steps)
  \/ \E p \in Peer : Connect(p) \/ ReadyToProcess(p) \/ EndProcess(p) \/ Disconnect(p)

Spec == Init /\ [][Next]_vars

-----------------------------------------------------------------------------
(* Properties.                                                              *)

\* A task is in at most one list, and there once.
TypeOK ==
  /\ up \in BOOLEAN /\ crashes \in 0 .. MaxCrashes /\ removed \subseteq Task
  /\ server \in Server /\ disk \in Disk
  /\ IsInjective(server.aged) /\ IsInjective(server.pending)
  /\ Listed(server) \subseteq Known(server)
  /\ ToSet(server.pending) \cap server.completed = {}

\* Between two handlers the front task is active and no other is: the assertions
\* of on_get_tasks_list, on_move_task_in_list and task::on_converged.
OnlyFrontIsActive ==
  up => server.active = IF server.pending = <<>> THEN {} ELSE {Head(server.pending)}

\* No peer waits while there is work, and none works for a task that is not active.
NobodyWaits ==
  up => \A p \in Peer :
    /\ server.peer[p] = "ready" => server.active = {}
    /\ server.peer[p] = "working" => server.active # {}

\* A server that died now would find the tasks it has, in their order.
RestartKeepsTasks ==
  up => /\ Recovered(disk).pending = server.pending
        /\ Recovered(disk).completed = server.completed

\* The ids in use are those from taskid_begin to taskid_end, in the files, too, which is what
\* generate_taskdir means by "too many existing tasks to allow generation of a new one":
\* the next id is that of no task.  Released looks for it above an id only, so this is
\* violated once ids have begun again at 0.
IdsInWindow ==
  LET Within(s) ==
        /\ \A t \in Known(s) : (t.id - s.taskid_begin) % IdSpace
                                 < (s.taskid_end - s.taskid_begin) % IdSpace
        /\ \A t, u \in Known(s) : t.id = u.id => t = u
  IN up => Within(server) /\ Within(Recovered(disk))

\* No task that was there before the ids began again is in use with one from afterwards.
SameSide(K, begin) == \A t, u \in K : begin <= t.id <=> begin <= u.id
NoneIsOvertaken == SameSide(Known(server), server.taskid_begin)

\* Where that does not happen nothing goes wrong with ids: none is given out twice, wherever
\* deletions, purges and new tasks are cut short by a crash, and also when ids begin again.
IdsAreOwn == []NoneIsOvertaken => []IdsInWindow

\* What the server promises (TaskQueue), whatever happens to its process.
Kept == IF up THEN server ELSE Recovered(disk)
Queue == INSTANCE TaskQueue WITH queue <- Kept.pending, done <- Kept.completed

\* No task is lost, done twice or moved by itself, also across crashes in the
\* middle of a handler and restarts.
TasksAreKept == Queue!Spec
=============================================================================
