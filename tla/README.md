# leon, verified: TLA+ models of the netcpu cluster

`netcpu` finds the parameters of econometric models by a distributed grid search.
A *server* keeps a list of *tasks*; the front task is active and deals pieces of
its search to *processing peers*, which evaluate likelihoods and report; a
*controller* submits, deletes and moves tasks.  Peers run on people's desktop
machines and come and go; a task runs for weeks and is expected to survive
restarts of the server.  This directory holds TLA+ models of that machinery, the
TLC configurations that check them, and TLAPS proofs about them.

Contents: 1 inventory · 2 modules and what they correspond to · 3 modelling
decisions · 4 runs, bounds, deadlock, fairness · 5 what is proved · 6 what is only
model-checked · 7 findings · 8 what is not modelled · 9 plan.  Paths are relative
to `src/`.

## 1. Inventory

### Task processor (`netcpu/converger_1/server.h`, `task_processor`, `processing_peer`)

*State.* The grid accounting of the search: current centre and value of every
coefficient, `e_min` and `e_min_complexity`, `complexities_level`, the ranges of
`remaining_complexities`, `accumulated_complexities`, `visited_places`,
`coefficients_rand_range_ended_wait`, `am_bootstrapping`.  The protocol state:
`io_key`, the cooked `server_state_sync_msg`, `redistribute_remaining_complexities`,
a sync timer, a save timer, a coroutine that may yield; per peer the echoed key, its
share, a write in flight and a late-write callback.  On disk
`convergence_state.bin`.

*Operations.* Accept a peer that has finished its handshake; accept a
bootstrapping location; accumulate a report; on the sync timer merge reports,
recentre around a better find, move to the next level, shrink the ranges,
redeal shares; write late when a peer was slow; delete peers whose key has
wrapped around; save; complete; be destroyed and constructed again.

*Hard.* One coroutine that yields to the event loop in the middle of changing the
search while reports, joins, disconnects and timers go on; reports made for an
older centre; shares that belong to lost connections; a saved state that must be
resumable wherever the server stops; wrap-around of a 32-bit key.

*Correct when* a report is only ever interpreted around the centre it was made
for; only evaluated places are struck off; no complexity is dropped; the centre
is the best place visited; ranges shrink only at a local optimum; a peer without
work gets work; the task converges; a stopped task can be resumed.

### Processing peer (`netcpu/converger_1/processor.h`, `task_processor_detail`)

*State.* Echo key, grid and centre, `e_min`, remaining and unreported
complexities, `do_send_report_asap`, the processing timer and its skip flag, one
outgoing message buffer and a deferred write callback.

*Operations.* Read the three kinds of server message; evaluate one complexity per
timer tick; draw bootstrap places; report on a better find, on running out of work,
or when asked; roll a report up every ten minutes; write a deferred report.

*Hard.* Messages arrive between evaluations; a report may be due while an earlier
one is being written, and both share one buffer.

*Correct when* every complexity of its share ends up in a report and a find is
reported with it.

### Task list (`netcpu/server.cc`)

*State.* `pending_tasks`, `completed_tasks`, `aged_tasks`, `named_tasks`,
`tasks_ids` with `taskid_begin` and `taskid_end`; task directories and the files
`pending.txt`, `completed.txt`, `taskid_begin`, `taskid_end`; the peers that wait
for a task.

*Operations.* Create a task directory for a controller that submits a task, accept it
as pending or discard it, delete, purge old tasks, move, complete, activate the
front task, peers becoming ready, start from the files.

*Hard.* Every handler changes several files one after the other, and the process may
die, or an exception end it, between any two; ids wrap around; the active task
must be the front one after each of these operations.

*Correct when* no task is lost or done twice, the order is kept, ids in use are not
given out again, exactly the front task is active and no peer waits beside it.

### Coefficients (`converger_1/coefficient_metadata_base.h`, `value_on_grid.h`, `server.h` `coefficient_metadata`, `controller.h`)

*State.* Of each coefficient: index and value, range, grid resolutions, the
threshold and levels of zoom that are left, whether its range has ended.  The
server's copy, that of each peer, and the saved one.

*Operations.* Made of the controller's options; moved, shrunk, zoomed, ended; sent in
part, recomputed in part; saved and restored.

*Hard, and correct when.* What a peer computes for itself must be what the server
computed; a range must close in on the position; a restored coefficient must have the value it was
saved with, although index and value are not both saved.

### Connections (`server.cc`, `io_wrapper.h`, `converger_1/server.h`, `processor.cc`, `controller.cc`)

*State.* The user of each end of a connection (list of ready peers, handshake,
processing, end of a process; loader), its read and write callbacks, the file `bulk.msg`
that the processes of one machine share, the files of a task that is being loaded.

*Operations.* Offer, answer, meta, bulk, skip; `end_process`, its echo and its 30 s timer;
connecting again; the five messages of a controller and the storing of each.

*Hard, and correct when.* `end_process` crosses whatever is under way: no answer may
be taken for that of another message; a connection is lost in any phase: no peer is left
out for good and no task directory is left without an owner.

### Driver and messages (`io_driver.h`, `message.h`)

*State.* One read, one write, a keepalive write, its timer and counter; the fields of
a message object; two byte buffers.

*Operations.* Read, write, keepalive timeout, cancel; resize, to_wire, from_wire, reset.

*Hard, and correct when.* Messages and keepalives share the socket: one write at a time;
ends that are alive must not give each other up; field lists change while they are walked;
buffers are reused for messages of other sizes.

### Likelihood models (`logit/`, `multi_logit/`, `mixed_logit/`, `gmnl_2/`, `gmnl_2a/`) and design (`dataset_1/controller.h`)

*State.* The packed design (counts, transposed attributes, choices); per set of draws the
columns computed in stages, with tags that say from which coefficients; one block of memory.

*Operations.* Cull, sort, count and pack a sheet; walk over it; evaluate, falling back
on caches; give up in the middle on a floating-point fault or when asked to pause.

*Hard, and correct when.* Five walks with pointers of their own over one array; caches that
a fault leaves half new: the likelihood must be that of the sheet and of the present coefficients.

### Other parts

| part | source | state and operations | hard, and correct when |
|---|---|---|---|
| Combos builder | `combos_builder.h` | which combinations of coefficients belong to a level; (de)modulating a complexity | products that overflow; every index maps to one combination |
| Ranges | `range_utils.h` | add, subtract, find on ordered disjoint ranges | touching, splitting and containing ranges; equal to operations on sets |
| Big integers | `big_int.h`, `big_int_context.h` | keys of visited places; numbers shared until written, and reused | a key that is held must not change; distinct places have distinct keys |
| Update | `update_client.cc`, `update_server.cc` | list, fetch, verify, replace; the updater replaces itself through a copy | power cuts: one whole updater is left, and processors that run are current |
| Web front end | `http/server.cc`, `http/io_driver.h` | a browser's connection and one to the server per exchange | handlers and cancels of objects that are gone; requests answered in turn |
| Support library, installers, sleep prevention, sunscreen, autoinput | `censoc/`, `lose_installer/`, `netcpu/nosleep.cc`, ... | containers, stand-alone programs | no protocol state |

### How they interact

The server program is one event loop: handlers of sockets and timers run to their
end, with one exception, the coroutine of `on_sync_timeout`.  Task list and task
processor call each other directly (`activate`, `deactivate`, `markcompleted`,
`new_processing_peer`).  Server and peers exchange messages over one TCP connection
each: *server_state_sync* (everything), *server_recentre_only_sync* (the new centre
as a complexity of the old one), *server_complexity_only_sync* (a new share) one
way, *bootstrapping_peer_report* and *peer_report* the other way.  The loss of a
connection is the only way in which messages are lost, and it loses the peer's state
with it.  Files are the only thing that survives
the server.  Sheets travel one way: the controller packs one into the meta, bulk and
dataset messages of a task, the server stores them unread, and every peer unpacks them.

## 2. Modules

| module | what it is | code |
|---|---|---|
| `Shares` | how complexities are dealt to peers and which one a peer takes first, said of sets | `converger_1/server.h`, `processor.h` |
| `GridSearch` | the search of a task as operators on a record: bootstrapping, reporting, merging, recentring, levels, duplicates, shrinking, saving and loading | `converger_1/server.h` |
| `Convergence` | abstract specification: what a task promises, without peers, messages and keys | the same, without the protocol |
| `Converger` | the protocol of one task: server, connections, peers, faults.  Implements `Convergence` | `converger_1/server.h`, `processor.h`, `message/*.h` |
| `Lists` | what is left of a list when members are erased: bytes under way, peers, tasks | |
| `ListProofs`, `GridSearchProofs` | what the operators of `Lists` and `GridSearch` return and preserve | |
| `ConvergenceProofs` | theorems about `Convergence` for every instance | |
| `ConvergerProofs` | theorems about `Converger` for every instance: types, and which key means what to whom | |
| `RefinementProofs` | ... what is reported was evaluated, no find is lost, the search is a good one, and every step is one of `Convergence` or none; nobody idles, nothing dealt slips out, new centres are news | |
| `TaskQueue` | abstract specification: a queue of tasks that only requests, age and completion shorten | `server.cc` |
| `TaskManager` | the task list with its files, crashes inside handlers, ids, and waiting peers.  Implements `TaskQueue` | `server.cc` |
| `TaskManagerProofs` | theorems about `TaskManager` for every instance: activation, waiting peers, memory against files, the refinement, and ids | |
| `RangeUtils` | add, subtract and find on ordered ranges | `range_utils.h` |
| `CombosBuilder` | numbering the combinations of coefficients that are moved at once, and reading such a number back | `combos_builder.h` |
| `ComplexitySets` | abstract specification: remaining, reported and dealt complexities as sets | `converger_1/server.h` |
| `Complexities` | the same as maps of ranges, over levels that `CombosBuilder` builds.  Implements `ComplexitySets` | `converger_1/server.h`, `range_utils.h`, `combos_builder.h` |
| `Options`, `Coefficients`, `Fractions` | what a controller makes of its options; the coefficients as numbers, at the server, at a peer and on disk; exact arithmetic | `converger_1/controller.h`, `server.h`, `coefficient_metadata_base.h`, `value_on_grid.h` |
| `BigUints` | keys of places in numbers that share memory | `big_int.h`, `big_int_context.h`, `server.h` |
| `LikelihoodCaches` | evaluation of a likelihood in stages with caches and faults | `mixed_logit`, `gmnl_2`, `gmnl_2a` `/processor.h` |
| `Dataset`, `ChoiceSets` | from the rows of a sheet to the packed design; how five models walk over it | `dataset_1/controller.h`, `*/processor.h` |
| `Layout` | where the arrays of a model lie in its block of memory, and how large a peer thinks it is | `*/processor.h`, `processor.cc` |
| `Sessions` | how a connection of a peer passes between handshake, task, end of the task, and the waiting list; `bulk.msg` | `server.cc`, `io_wrapper.h`, `processor.cc`, `converger_1/*.h` |
| `Loading` | how a task comes from a controller to the server's disk | `server.cc`, `converger_1/server.h`, `controller.h` |
| `Driver`, `Messages` | reads, writes and keepalives of a connection; message objects and buffers | `io_driver.h`, `message.h` |
| `Update` | update client and server on a machine with locked images | `update_client.cc`, `update_server.cc` |
| `WebFrontEnd` | one browser connection of the web server | `http/*` |
| `NetworkProofs` | theorems about `Driver`, `Sessions`, `Loading`, `Update` and `WebFrontEnd`, as `MCNetwork` has them, for every instance of it | |
| `LikelihoodProofs` | theorems about `LikelihoodCaches` and `Layout` for every instance | |
| `MCGrids`, `MCSearch`, `MCConverger`, `MCTaskManager`, `MCEvaluation`, `MCNetwork` | instances for TLC | |

`Converger` extends `GridSearch` and instantiates `Convergence` with its own
`status`, `search`, `disk` and `evaluated`; `TaskManager` instantiates `TaskQueue`
with what the running server has in memory, or, while it is down, with what a start
would make of the files (`Recovered`).  `Converger` and `ComplexitySets` use the same
`Share`, so what `Complexities` shows of ranges and of the loop that deals them is
what lets `Converger` work with sets; `LevelEnd` and `Demod`, constants of
`GridSearch`, are what `CombosBuilder` computes for a grid, and `EndsAt` says after how
many shrinks `Coefficients` ends a range.  `Options` extends `CombosBuilder`, since a
controller refuses options whose levels do not fit.  `ChoiceSets` extends `Dataset`: the
models read what the controller packed.  `Loading` is what `TaskManager` has as
`NewTask`, `LoaderFails` and `MarkPending`; `Sessions` is what `Converger` has as `Join`
and what `TaskManager` has as the states of a peer; `Driver` and `Messages` justify the
channels of the others: bytes in order, and lost only with their connection.
`RangeUtils`, `CombosBuilder`, `Options` and `Complexities` use recursive operators and nothing that is proved
about depends on them.

### Correspondence: Converger

| variable | code |
|---|---|
| `search` | members of `task_processor` that make up the accounting; see `Search` |
| `disk` | `convergence_state.bin`, written whole and renamed |
| `io_key`, `sync_msg` | `io_key`, `server_state_sync_msg` as last cooked |
| `redistribute`, `dont_delay` | `redistribute_remaining_complexities`, `dont_delay_saving_convergence_state` |
| `coroutine` | where `on_coroutine` has yielded, "none" when it is not in progress |
| `sync_timer` | `server_state_sync_timer`: off, armed for a sync, armed for `on_converged` |
| `processing`, `link` | `processing_peers` and, per connection, `io_key_echo_`, share, write in flight, late write due |
| `peer` | `task_processor_detail` of the peer program |
| `s2p`, `p2s` | bytes under way, in order |
| `evaluated`, `faults` | history and bound; not in the code |

| action | handler |
|---|---|
| `Join` | `processing_peer::on_write_bulk`, end of the handshake |
| `Leave` | `processing_peer::on_error` |
| `ServerWriteDone` | write completion and `on_late_write_sync_peer_to_server` |
| `ReportArrives` | `processing_peer::on_read` with `on_bootstrapping_peer_report`, `on_peer_report` |
| `SyncTimeout`, `ResumeCoroutine` | `on_sync_timeout` / `on_coroutine`, up to its yield and after it |
| `SaveTimeout` | `save_convergence_state` |
| `OnConverged`, `Deactivate`, `Activate` | `on_converged`, `~task_processor`, its constructor |
| `Crash` | death of the server process |
| `PeerReads`, `SkipIteration`, `Process`, `ProcessNothing`, `Bootstrap`, `PeerWriteDone`, `RollbackTimeout` | the callbacks of the peer |

### Correspondence: TaskManager

`server` is the memory (`aged` = `aged_tasks` in order of age, `pending`,
`completed`, `active`, the two ids, the state of each peer), `disk` the files.
`NewTask` is `generate_taskdir` for a controller that submits a task, `LoaderFails` and
`MarkPending` are the two ways in which loading ends, `Delete`, `Purge`, `Move`,
`Complete` (`markcompleted`), `Start` (`run`) and the peers' `Connect`,
`ReadyToProcess`, `EndProcess`, `Disconnect` are the other handlers.  A handler that
writes several files names, in `Handled`, each state in which a crash can leave them.

### Correspondence: Complexities

`remaining`, `accumulated` and `shares` are the three kinds of `complexities_type`,
sequences of ranges in the order of the map; `level` is `current_complexity_level`,
`built` the combos builder.  `Deal` is `do_redistribute_remaining_peers_complexities`
with its loop over ranges and peers (`Dealing`), `Report` the last part of
`on_peer_report`, `Merge` the first of `on_coroutine`, `Enter` what happens to a
level that is begun: places that have been visited are taken out one by one,
duplicates all at once (`Culled`), the rest is dealt.  These are uses of the ranges in any order
the protocol allows; which handler makes which is `Converger`'s business.

### Correspondence: Coefficients, Options, BigUints

`coef` is `coefficients_metadata` of the server, `shown` that of a peer, `news` the messages under way to it,
`saved` the file; `at_once` and `wait` are `coeffs_at_once` and
`coefficients_rand_range_ended_wait`.  `Bootstrap`, `Recentre` and `Shrink` are the parts of
`on_bootstrapping_peer_report` and `on_coroutine` that change coefficients, with what they
put into the message; `PeerReads` what `on_server_state_sync_read` makes of it;
`Save` and `Restart` write and read the file.  `Options!Accepted` and `Options!Task`
are the constructor of the controller's `task_loader_detail`: the instance of
`Coefficients` starts from tasks that pass it.

In `BigUints`, `mem` is the `big_int_context` (`cached_bns` and the `mpz_t`s with their values
and counts); `Visit` makes the key of a place by multiplying and adding along its
indices and puts it into `visited_places`, `Cull` into the set of uniques of a new
level, `Shrink` and `Restart` empty and refill them.

### Correspondence: LikelihoodCaches, Dataset, ChoiceSets, Layout

An action of `LikelihoodCaches` is one stage for one respondent: `Sigma`,
`Covariance`, `Scaled`, `Phi` (arrays of scalars, with a main and a tmp copy each),
`EtaColumn`, `MixedLogitColumn` or `AfterEta` (columns), `Choices` (the choice sets are
evaluated, which is where the caches matter).  `pc` is where `log_likelihood` is, `saved` and
`value` are the coefficients.  `Evaluate` begins a call for any place on the grid,
`Recentre` makes the present coefficients the saved ones, `Sleep` is an evaluation that is begun anew later.
`struck` is history and guards nothing: the sets of draws of `gmnl_2` whose columns a fault
has left half new.

`Dataset` has an action per step of the two passes over the sheet: `Cull` (which sorts as
well), `CountRow`, `Resize`, `PackRow`.  `ChoiceSets` has one per choice set and model
(`LogitChoiceSet`, `MultiLogitChoiceSet`, `MixedLogitChoiceSet`), with `inner` and `outer`
for the pointers of the two walks and `terms` for the factors of the likelihood so
far.  `Layout` computes the block: sequences of arrays, in the order of the pointers.

### Correspondence: Sessions and Loading

`srv[p]` and `cli[p]` are the ends of a connection: the object that owns it (`user`), its
read and write callbacks (`rcb`, `wcb`), what it has put off.  `toC` and `toS` are bytes
under way.  `ServerRead`, `PeerRead` dispatch to the handlers by callback (`AtServer`,
`AtPeer`); `ServerWritten`, `PeerWritten` are write completions; `RetryOnRead` is the timer with
which a handler that cannot go on asks to be called again; `Activate` and `Deactivate` are
the ends of a task; `Drop`, `ServerError`, `PeerError` and `Connect` a lost connection and what
both ends do.  `Hashed`, `ReadFile`, `OpenFile`, `WriteFile` are the accesses to
`bulk.msg`, each a step of its own, since other processes run in between.  `machine`, chosen
at the start, says which peers there are, which of them are clones, what they lack or refuse,
which tasks come and how many messages a write may be ahead: it is a variable, so that one run
looks at several machines and the theorems speak of all of them.

In `Loading`, a `loader` is what `task_loader` and `task_loader_detail` are for one
controller; each `On...` action is the handler of one message, with the file it
writes (`Store`); `MarkPending` puts the name into `pending.txt`; `Crash` and `Start`
are the server's end and its constructor.

### Correspondence: Driver, Messages, Update, WebFrontEnd

`Driver` has the members of `async_driver_detail` for two ends; `ahead` and `InTime`
say how far the clocks of the two ends may be apart (a period).  In `Messages`, `sender` and
`receiver` are message objects, `next` the position of `from_wire` in the list of
fields; `written` and `read` are the two buffers.  `Update` has an action for each message
of a session and for each step of an updater between which the power may fail
(`Reboot`); `Copy` and `Real` are the two updaters.  `WebFrontEnd` has an action per
handler; `native` is the outstanding exchange with the server.

## 3. Modelling decisions

*Data.*  A complexity is a number, a set of ranges is a set of numbers (the code
keeps ranges ordered, disjoint and merged; that the two say the same is part of run
`search`; "last of the first range", from which a peer works, is kept as an operator).  A place is a vector
of indices; `Demod[grid][centre][complexity]` says where a complexity leads.  As in
the code it gives *absolute* indices of the coefficients it moves, so that a
message applied twice does no harm.  `grid` counts the shrinks and stands for
ranges and resolutions.  `Value` is the likelihood of a place and the same on all
grids; `Target` is the improvement ratio.  `e_min_complexity # NoComplexity` stands
for the flag `better_find_since_last_recentered_sync`, which changes with it.
After a shrink every index is 0, the place `Origin`.  A bootstrapping peer never
evaluates the centre it starts from: it only computes values of coefficients it has
moved.

*The coroutine.*  It yields while it looks for the next level, by the clock.  The
model always splits it there: a run without a yield is the two steps one after the
other.  Meanwhile reports are held back by the retry of `on_read`, all other
handlers run.  When the object is destroyed with a sync pending, the sync is run
once more: it completes (`RunThrough`) or yields and saves nothing, both are
allowed.  When it is destroyed while `on_converged` is pending the code moves an
iterator past its end, which is undefined; the model takes the outcome in which
the file does not change, since what could be saved then has, like what is there,
nothing to wait for.

*Connections.*  A message is in `s2p` or `p2s` from the moment it is written.  A
write completes once no more than `Window` messages are before the reader;
`SlowWrites` says whether the peer's own writes take time.  A lost connection
empties both directions, and a peer that comes back is a fresh one.  Server crash and
deactivation lose all connections.  The peers' view of `am_bootstrapping` and of the
grid is what the messages said, not what the server thinks now.

*Task list.*  The server is single-threaded: a handler is one step, with the crash
points described above.  An exception thrown in a handler ends the process, as in
the driver's loop, and is a crash with the files as they are then (`Died`); so is an
activation that fails (a failing `wakeonlan.sh`) after `pending.txt` was written.
Age order is creation order.  The resolution and model parts of a name are one model
value.  `completed.txt` is a set, since its order carries nothing.  A peer
that is in its handshake or is rejecting one task counts as "working".  Deletion is
modelled for tasks that are listed (a controller that knows the name of a task
that is still being loaded is a hazard noted in `PROJECT.json`), purging for tasks
not being loaded.

*Floating-point numbers.*  `Fractions` leave out rounding, and no more: `Coefficients` has
the order of the operations and what is stored and what is recomputed.  In exact
arithmetic the ranges of all coefficients end with the same shrink (their slowdown is
scaled so that they do); in the program rounding may let them end apart, which is why
`GridSearch` takes `EndsAt` as a constant and `levels` lets them end in turn.  In `ChoiceSets` a
utility is the bag of what was added, a probability the differences to the utility of
the chosen alternative.  In `LikelihoodCaches` an array is the values that it was computed from,
and a stage faults when their sum is above `Limit`: whether there is a fault
depends on the values alone, and on all of them.

*Files and sockets.*  A file that is written whole and renamed is one step; one that is
overwritten in place has a state `Partial` or `Torn` in between.  A digest agrees exactly when the contents do.
`Driver` assumes that writing and reading take no time compared with 75 s and that
both clocks run at one rate; their phase is free.  In `WebFrontEnd` a cancelled handler may still be queued, and runs.

*Parts.*  `MCSearch`, `MCEvaluation` and `MCNetwork` hold several components that
share no state; Init chooses the `part` that moves, the others stay at an initial state.

## 4. Runs

| run | question | instance |
|---|---|---|
| `search` | does the abstract search keep its promises, and is it made of the right complexities, coefficients and keys? | *course*: 2 coefficients × 2 indices, three levels of one complexity each, improvement by more than 1; *complexities*: 60 grids of two to four coefficients, two peers, levels of up to five complexities are worked on; *coefficients*: the tasks made of eight sets of options, of which four are accepted, one restart; *keys*: places of two coefficients, one shrink, one restart, four numbers to begin with |
| `pair` | does the protocol implement the abstract search, with two peers? | 2 peers, 2 coefficients, one lost connection, rollback timer, no window |
| `levels` | ... across levels, two shrinks that end the coefficients in turn, and restarts? | 1 peer, two faults of any kind, save and rollback timers |
| `wrap` | ... when keys wrap around and writes are slow? | 2 peers, keys modulo 3, stale limit 2, slow writes, no window, no faults |
| `live` | does the task converge? | 2 peers, one lost connection, fairness |
| `tasks` | does the task list keep its promises? | up to three tasks at a time, 2 peers, ids 0..3, two crashes at any point of any handler but completion |
| `evaluation` | is what a peer evaluates the likelihood of the sheet at the present coefficients? | *caches*: three models, two attributes, three respondents, one or two sets of draws, faults of every stage; *design*: all sheets of three rows (two respondents, two choice sets, blank ids, a deleted row, any choice) for five models; *layout*: 296 tasks for three models |
| `network` | does what carries it all arrive, in order, for the right task? | *messages*: nested arrays of up to two elements, two messages; *driver*: two ends; *sessions*: one peer, four tasks, two lost connections; *machine*: two processes with one `bulk.msg`; *loading*: two controllers, two tasks, one crash; *update*: three versions, two power cuts; *web*: one connection after the other |
| `slow_best`, `resume`, `lost`, `stale_tau` | what a comment or assertion of the code says, and the code does not do | see Findings |

*Properties of Converger.*  `KeyAgreement`: the echoed key alone tells whether a
report belongs to the present centre, grid and mode.  `RecentreIsNews`: a recentre
message reaches only peers that can apply it.  `OwesItsShare`: a share is to be done
by the peer, done and unreported, or in a report; nothing slips out.
`IdleMeansRedistribution`: an idle peer has a redistribution coming, and the timer
that does it runs.  `LocatesFromScratch`: the assertions about accepting a location.
`Implements`: every step is one of `Convergence` or none.
`VisitedWasEvaluated`, `Coverage`, `BestOfVisited` (of `Convergence`) go with `Implements`; `wrap`, whose slow writes
make `Implements` fail, checks the first, and that all but the last hold there is proved.  `Converges` is liveness, `Resumable` that
the sanity check of the constructor never fails.

*Properties of TaskManager.*  `OnlyFrontIsActive` (the assertions between handlers),
`NobodyWaits`, `RestartKeepsTasks` (memory and files agree), `TasksAreKept` (refinement of
`TaskQueue`, across crashes).  `IdsAreOwn`: the tasks there are lie between the first and
the next id, each with an id of its own (`IdsInWindow`), which is what the check for "too many
existing tasks" takes for granted, in every behaviour in which no task from before ids
began again is in use with one from afterwards (`NoneIsOvertaken`).

*Properties of `search`.*  `TypeOK`, `VisitedWasEvaluated`, `Coverage`, `BestOfVisited` and
`ShrinkOnlyAtOptimum`: what the abstract search promises: whatever is reported, saved and resumed, and whenever, what is struck
off was evaluated, nothing is dropped, the best find is kept, and ranges shrink around an optimum
only.  `Ordered`: the precondition that every range function
has and none establishes, and what `find` says of such ranges.  `RefinesSets`: each operation is the one on sets.
`NumbersWhatFits`: as many levels are built as fit, and the complexities of a level are,
one for one, the ways to move its coefficients.  `PeersFollow`: a peer that has read all it
was sent has the server's positions, ranges and resolutions.  `RangesZoomIn`: a shrink
stays within the former range and around the position; a restart loses nothing.
`KeysArePlaces`: a stored key stays that of its place, whatever is computed in numbers
it has shared; no two places have one key.

*Properties of `evaluation`.*  `Transparent`: what the choice sets are evaluated from is
what a computation without caches would give, after any history of moves, faults and pauses,
which `stale_tau` shows to fail for `gmnl_2`.  `OnlyTauIsStale`: that nothing else is ever stale;
columns always fit, and all but their tau is of the present coefficients; an old tau is
seen in `gmnl_2` only, and only in a set of draws whose columns a fault left half new.
`DesignIsRead`: each model takes every choice set once, with the attributes of its own
rows and relative to its chosen one.  `ArraysAreApart`, `AcceptedFits`: no array
reaches into the next one; a task that a peer accepts fits into the memory it reckoned with.

*Properties of `network`.*  `RoundTrip`: a message arrives as it was sent, whatever the
object held before.  `BufferHolds`: `assert(allocated_buffer_size >= message_size)`.
`OneWriteAtATime`, `AliveIsKept`: no two writes at once, none forgotten; only an end that hangs is
given up.  `AnswersFit`: no answer is taken for that of another message.
`ReportsAreOfTheTask`: what is reported was computed from the bulk of that task.  `Served`:
a peer that can take the active task gets it, again and again, and waits in the list
otherwise.  `DirectoriesAreAccountedFor`: what `pending.txt` names is whole; other directories have a loader,
or are left by a crash.  `UpdaterIsKept`: one whole updater is on the disk at any time.
`ProcessorsAreCurrent`: while a session is open, what runs is whole and as new as the
last list.  `AnswersInTurn`: requests are answered in turn, and the error that
ends a connection is not cut off by the cancel its own handler has posted.

*Bounds and why they are enough.*  Two coefficients with two indices give places
reached by several complexities, levels that are partly and wholly visited already,
recentring that opens places on both sides, and likelihoods with chains of better
finds; three levels make a level be passed over.  Two shrinks that end the
coefficients in turn give a grid in which duplicates have to be culled, and the
last grid.  Two peers are what shares, late joiners and reports from an older centre
need; with fewer complexities than peers shares overlap.  `MaxFaults` is one or two,
which covers loss after loss and a restart after an earlier restart.
`KeyMod` is large in all runs but `wrap`, where it is 3, so that a peer can lag a whole
turn.  `JoinKeys` says at which keys a peer may finish its handshake; leaving out 0 keeps
a separate hazard (a new peer's key is 0 before the first message) out of `wrap`.
`Window` 0 and 1 make late writes happen.  `LongTimers` names which of the
55-minute and 10-minute timers may fire, at any time then.  In the task list
`IdSpace` is 4 and `Margin` 2, so that tasks from before and after ids begin again may be in
the list together, as with the 300 of 100000 of the code.  `CrashPoints` lists the handlers that may be cut short; `tasks`
leaves out completion, `lost` is exactly that.  Symmetry of the peers is used in safety runs
only; `IdsAreOwn`, written `[]P => []Q`, has no peers in it and needs no fairness, so it is sound there.

In `search` a level of five complexities has every way in which two ranges can lie
to each other, and three ranges next to each other; larger grids are built and dealt,
but not worked on (`MaxSize`).  `SizeMod` 64 is larger than every product of
resolutions and smaller than the sum for one grid, so that the check for a sum that
wraps around is used; products that wrap are a hazard in `PROJECT.json`.  The tasks of the
coefficients have one with two levels of zoom, one with grids of different
resolutions, and one whose ranges would end at different times if each shrank by
itself.  Two visited places and one unique are enough for every way in which
`isolate_on_write` can find a number shared.

In `evaluation` coefficients have two or three values, so that there is a saved, a tried and
a third one, and limits such that each kind of stage of each model faults for some of them, columns
of `gmnl_2` included; three respondents over one or two
sets of draws use each set again.  Which coefficients move is different in each model, so
that between them each pair of neighbouring stages changes together and apart.  In
`network` buffers of 8 bytes, headers of 2 and bulks of 3 and 20 put a message below,
and above, what is kept; two messages under way are what a driver or a session can be ahead.

*Deadlock.*  It is checked in the runs of `MCTaskManager`, `MCSearch` and
`MCEvaluation`.  In `Converger` a task that has converged, or failed to be
resumed, really has nothing more to do: those runs say `CHECK_DEADLOCK FALSE`; that nothing
stops earlier is `Converges`.  In `network` it is off, too: messages, tasks to load,
power cuts and lost connections are bounded, two ends that have given each other up do nothing
more, and a web server may exit.  That a session does not get stuck is `Served`.

*Fairness* (`FairSpec`).  Weak fairness for: the sync timer and the coroutine it
resumes, `on_converged`, activation; completion of writes and delivery in both
directions (TCP under an event loop that serves every ready socket); the peer's own
timer; and some peer joining while none is connected (machines come back on; without it
nobody evaluates anything).  Nothing is assumed of faults, of further
joins, nor of the two long timers.

`Sessions!Fairness`: weak fairness for the start of the next task when none is active,
and for the steps of each end of each connection (programs answer, timers fire,
a closed connection is noticed and made again: `processor.cc` tries for ever).  A task need
not end, a peer need not find or hold back anything.

*Mutants.*  Beside most definitions there is one whose comment says "Mutant of ...":
the same code with a plausible bug.  Replacing the definition by it makes the run named in
`PROJECT.json` fail, which shows that the property says something about the code.

## 5. What is proved

For all constants that satisfy the assumptions named below:

| module | theorem | says |
|---|---|---|
| `ConvergenceProofs` | `Invariance` | `Spec => []IInv`, the inductive invariant |
| | `TypeCorrect` | `Spec => []TypeOK` |
| | `OnlyEvaluatedIsVisited` | `Spec => []VisitedWasEvaluated` |
| | `NothingIsDropped` | `Spec => []Coverage` |
| | `BestIsKept` | `Spec => []BestOfVisited` |
| | `ShrinksAtOptimum` | `Spec => ShrinkOnlyAtOptimum` |
| `ConvergerProofs` | `TypesHold` | `Spec => []TypeInv`, types with what they need |
| | `TypeCorrect` | `Spec => []TypeOK` |
| | `KeysAgree` | `Spec => []KeyAgreement`, if no peer joins at key 0 |
| `RefinementProofs` | `OnlyEvaluatedIsStruckOff` | `Spec => []VisitedWasEvaluated`, if no peer joins at key 0 |
| | `NothingSlipsAway` | `Spec /\ LastKeyIsNew => []Coverage`, likewise |
| | `BestIsNotLost` | `Spec /\ LastKeyIsNew => []BestOfVisited`, likewise and without slow writes |
| | `LocatedFromScratch` | `Spec /\ LastKeyIsNew => []LocatesFromScratch`, if no peer joins at key 0 |
| | `ProtocolImplementsSearch` | `Spec /\ LastKeyIsNew => Implements`, likewise and without slow writes |
| | `NobodyIdles` | `Spec => []IdleMeansRedistribution` |
| | `SharesAreOwed` | `Spec => []OwesItsShare`, if no peer joins at key 0, without slow writes |
| | `NewCentreIsNews` | `Spec => []RecentreIsNews`, if no peer joins at key 0 |
| `TaskManagerProofs` | `TasksHaveTheirTypes` | `Spec => []TypeOK` |
| | `FrontAloneIsActive` | `Spec => []OnlyFrontIsActive` |
| | `NobodyIsLeftWaiting` | `Spec => []NobodyWaits` |
| | `FilesKeepTasks` | `Spec => []RestartKeepsTasks` |
| | `ListsImplementQueue` | `Spec => TasksAreKept`, if no crash cuts a completion short |
| | `IdsAreTheirOwn` | `Spec => IdsAreOwn`, that is `[]NoneIsOvertaken => []IdsInWindow` |
| `NetworkProofs` | `WritesTakeTurns` | `MCSpec => []OneWriteAtATime` |
| | `TheLivingAreKept` | `MCSpec => []AliveIsKept` |
| | `NoAnswerIsMistaken` | `MCSpec => []AnswersFit` |
| | `ReportsBelongToTheTask` | `MCSpec => []ReportsAreOfTheTask` |
| | `DirectoriesHaveOwners` | `MCSpec => []DirectoriesAreAccountedFor` |
| | `OneUpdaterIsWhole` | `MCSpec => []UpdaterIsKept` |
| | `WhatRunsIsCurrent` | `MCSpec => []ProcessorsAreCurrent` |
| | `BrowserIsAnswered` | `MCSpec => []AnswersInTurn` |
| `LikelihoodProofs` | `CachesAreTransparent` | `Spec => []OnlyTauIsStale` |
| | `ArraysLieApart` | `MCSpec => []ArraysAreApart` |

*Assumptions.*  `SearchAssumption`: any finite number of levels, any coefficients, grids,
demodulation, likelihoods and monotone improvement target.  `DemodulationAssumption`: a
complexity gives absolute indices, so that applying it twice is applying it once.
`ConvergerAssumption` gives the types of the protocol's constants.
`MovingAssumption`: while a range goes on, level 1 holds a move away from any place
(a controller refuses grid resolutions below 2, `controller.h:253`).
`TasksAssumption` gives the types of the constants of `TaskManager`, `CachesAssumption` those of
`LikelihoodCaches`; its last part says that `largish`, the tag of what was never computed, is no
value of a coefficient.  `LayoutAssumption`: a task has repetitions, draws, attributes and
alternatives, and floats of 4 or 8 bytes (the constructors assert more of the former,
`multi_logit/server.h:110` refuses other floats).  `NetworkAssumption`: a connection has two sides, and there is some
version of the programs; of the machines that serve, that each has at most one peer that is no
clone, which is the one that keeps `bulk.msg`; the other bounds of `MCNetwork` (messages under
way, controllers, tasks, crashes, reboots, and whatever else describes a machine) may be
anything.

*Hypotheses*, each of which marks something that the code leaves open:

* `0 \notin JoinKeys`.  A new peer's key is 0 before its first message, which is also a key
  that the server may have, so a peer that joins at key 0 seems to have been told
  already (`processor.h:333`).
* `~SlowWrites`.  While a peer's report is being written the next one waits in a buffer of
  one: a find is overwritten (finding 1), and what is done in the meantime is
  cleared when it is written (`processor.h:637`).  What the theorem says is then false.
* `LastKeyIsNew`.  Every new key but one is made after the peers whose echo it would be are
  dropped.  The one is that of the last shrink (`server.h:1802`), after which no range is
  left; where a peer is a whole turn behind just then, its old report is taken for a
  location of the search that has ended, and `Implements` fails.  The hypothesis says that
  this does not happen: it speaks of that one step.  A turn is 2^32 keys.  With three keys,
  two peers, three places in a line and no fault TLC finds `LocatesFromScratch` violated
  without it.
* `[]NoneIsOvertaken`.  Ids begin again at 0 after 100000 tasks; the code moves the first id
  on in numeric order, so it goes wrong when a task from before that goes while there are none but
  later ones.  The hypothesis says that tasks from before and afterwards are not in use together.
  It is part of the property, `IdsAreOwn`.  `tasks` has behaviours with and without such a
  mixture; as an invariant `IdsInWindow` is violated there, see the findings.
* `"complete" \notin CrashPoints`.  A server that dies while it completes a task loses it
  (finding 3, run `lost`): what the theorem says is then false.  Every other handler may be
  cut short between any two of its files.

*The argument for `Convergence`.*  `Coverage` and `BestOfVisited` are not inductive as they
stand.  `Coverage` speaks of *all* levels opened so far, around the *present* centre: a
level is left when nothing of it remains, and what makes that sound is that the
levels before it are still covered.  A find must be among what is still to be merged
(`FindIsKnown`), otherwise recentring could move to a place that is never visited.
And what holds depends on the phase (`Phase`): a bootstrapping search is synced,
on its first level, with nothing visited; one that is not has some range to wait for,
has not passed the last level and has visited its centre.  `Sound(s, ev)` is these
together with coverage and "what is struck off was evaluated", `Good(s, ev)` adds the best
find; `IInv` says that the search in memory and, through `Loaded`, the one on disk are good.
The lemmas come in two layers: what an operator of `GridSearch` does to each field
(`MergedFields`, `AdvancedFields`, ...), and that it leads from a good search to a
good one (`GoodBootstrapped`, `GoodReported`, ...).  `FirstOfPlaceCovers` and
`OpenedCovers` justify the culling of duplicates by the least complexity of a place
(`Least`).  `ShrinksAtOptimum` then follows:
ranges shrink in a step that passes the last level, so every level is covered with
nothing remaining, and every complexity leads to a visited place.

*The argument for `KeysAgree`.*  That a report under the server's key was made around the
server's centre, grid and mode has to be known of all that is under way as well.  `KeyInv`
says, of each peer that is served, that it is *in touch* (`InTouch`): there is a line of
views (`Linked`), the first what the peer knows now, then one for each message under way to
it, each made from the one before by reading that message; if the last is not of
`io_key`, a late write is due.  Counted from the key that the peer echoed last (`Lag`), keys
only go up along this line and never beyond the server's; a view under `io_key` agrees with
the server's search (`Agrees`), and a report under it is of the server's mode.  While the
coroutine has moved the centre and not yet announced it, they agree up to that move
(`via`).  Before a new key is made, peers whose echo it would be (`WrappedAround`) are
dropped: that is why the lag tells keys apart although they are reused (`TouchLate`).  Each
kind of step has a lemma (`KeyJoin`, `KeyPeerStep`, `KeySendRecentre`, `KeyBootReport`, ...),
which rests on lemmas about one connection (`TouchRead`, `TouchRecentre`,
`TouchCaughtUp`, ...).

*The argument for `Implements`.*  `KeyInv` says what a report is about; the rest is whether it is
true, and whether it is all.  Six invariants, one after the other.  `WorkInv`: what a
peer has not yet reported, and what it reports under the server's key, it has evaluated
(`Honest`); with `KeysAgree` this makes a report one that `Convergence` allows, and
`VisitedWasEvaluated` follows with soundness alone.  `FindsInv`: peers compare with the
best find that *they* know, and report no worse one; so for each value that anybody holds
there has to be a find as good known to the server, or in a report *before* the one that
relies on it (`Found`).  `QuietInv`: without slow writes nothing is ever deferred.
`FitInv`: the search, and what would be loaded from the saved one, is `Sound` in the sense
of `ConvergenceProofs`, and `Good` unless writes are slow; the lemmas about `GridSearch` are shared.
`EndInv`: between the last shrink and `on_converged` there is a search with no range left and a
new key of which nobody knows (`Unheard`), so nothing is taken for news.
`EveryStepIsAbstract` then goes through the actions: joins, losses, writes and keys
leave the abstract search alone, a report is `Report` or `Locate`, the coroutine is
`SyncStep` in one or two parts, saving, stopping and starting map to their namesakes.
For this `Convergence` lets a place be evaluated on any grid: a peer with an old
message goes on with the grid that it knows.

*The argument for the shares.*  `NobodyIdles`: a peer that asks for work has been dealt all it
has used up, so a share must never be empty: `RefinementProofs` shows that `Share` gives something to
every peer, from ranks (how many complexities lie below one), which leave no gap; and
that something is left to deal at each point where shares are dealt, which is where
`MovingAssumption` is used.  `OweInv`: what the server thinks of a peer's work lies within the
last message to it or, when all is read, within what the peer has left, has done or has
in a report under way (`Owes`); messages replace what a peer has left, which is why only
the last one counts.  `NewsInv`: the line of views of `KeyInv`, with each recentring message
on it new to the view before (`IsNews`); the line is determined by its
beginning (`OneChain`), so this and `KeyInv` speak of one line.

*The argument for the task list.*  What is promised between handlers is not inductive, as
handlers are made of steps between which it does not hold: `task::~task` or
`markcompleted` takes the front task away, and only the caller activates the next.  So each part
of a handler preserves less (`Good`: at most the front task is active, and peers wait only
while none is, `AtWork`), and `Activated` turns that into `FrontIsActive`; where a handler
does not activate, the front has not changed, which is why `Purge` compares sizes
(`Left`: a list of the same length is the same list).  `TasksInv` says that of a running server,
that memory and files agree (`InStep`), and of files alone that they do not contradict each
other (`FilesFit`), which is all that a crash leaves.  Each state that a crash can leave is
then seen (`Waiting`, `Finished`) as what was there before or what the handler is about to make:
once a directory has gone, its task is withdrawn (`Thinned`), whatever the indices still say.
`PurgedFacts` goes through the tasks that are forgotten one after the other by induction, and
`Reordered` through the two halves of a list between which a task is moved.

*The argument for the ids.*  `IdsInv` says of the tasks in memory, and of those that a start would
find in the files (`Found`), that they are `Numbered`: within the window, which may
wrap around, and each with an id of its own.  A running server has numbered what a start would
find (`FoundIsKnown`), so the files need an argument of their own only where a crash cuts a handler
short.  There what counts is that the directory goes first: whether or not the first id has
moved on and the index was written, what is found are the tasks that are left
(`LeftIsFound`), and they lie in the former window and in the next one (`ForgottenIds`).  A
purge is a chain of such steps (`PurgedNumbers`).  A new id is outside the window and the
margin keeps the window from closing (`NumberedNext`); its directory is not in an index yet,
so a crash leaves nothing that would be found.

*The arguments for what carries it.*  `MCNetwork` steps one of its parts and leaves the others
as they began (`AllStep`), so a lemma per action of a part is enough.
`DriverInv` counts timeouts.  That an end never counts four is not inductive: what it can have
counted depends on whether it is a period ahead of the other, whether something is on its way
to it, and whether the other has written a message and may skip one keepalive (`OnTime`).
`LoadingInv` says which files a loader has stored at each stage of the conversation
(`Stored`), that no two loaders have one directory, and what index and memory have in
common.  `UpdateInv` says who of the updater and its copy runs and what of the other it has
already replaced (`TheyTakeTurns`), and that a processor that is about to be launched was fetched whole in
this session or was whole before it (`ProcessorIsDue`).  `WebInv` adds to `AnswersInTurn` what
is true of a posted cancel while a timer runs.

*The argument for the sessions.*  All answers look the same (`good`, `bad`), and the server's end
passes from user to user while messages of the last one are under way, so what an answer is
about follows only from what both ends have done.  `Session` says it for each stage of the
server's end, from the greeting (`AtGreeting`) through each question (`AtOffering`,
`AtResourcing`, `AtDescribing`, `AtFilling`) and the work (`AtWorking`) to the end of the task
(`AtEnding`, while another message is still being written, `AtEnded`) and back to the waiting
list: what may be on its way to the server, whether or not the peer still lives, and, if it
does, at which of its places it is and what is on its way to it.  On its way is what is in
the channel and what is being written (`With`), so the completion of a write alone changes nothing.
The hard stages are the last two.  A peer that has not read `end_process` (`Unaware`) is
wherever the task found it, and the last message to it is the end; one that has (`Aware`)
sends nothing but old reports before the echo, and nothing but reports, or that it is ready, after it
(`Echoed`): this is why the server may take the first `end` for the echo and why no answer is left
over.  `FileIsKept` adds that only the instance that is no clone writes `bulk.msg`, and that
what it is about to read is the bulk of its task; a report is then of the task because
`Computes` carries what was loaded (`Has`).  The lemmas come in three layers: what a handler makes of
its end (`OfferingReads`, `ComputesReads`, `DeafWrote`, ...), how the conversation goes on
(`ServerHears`, `ServerWrites`, `PeerAttends`, `PeerWrites`, `PeerReports`, `LoadGoesOn`,
`SaveGoesOn`, `PeerIsGone`), and the step as a whole, which changes one connection
(`OneConnection`) or, when a task begins or ends, all of them (`TasksComeAndGo`).

*The argument for the caches.*  `CachesInv` says what this respondent is through with
(`Settled`) and what a tag means that an evaluation has left behind, however it ended: in a stage of scalars
that the data are those the tag names, of an eta likewise, and of a column that it was computed
from its tag and the eta *now* in the cache (and in `gmnl_2` the tau of the one tag that all
columns share), as long as these have tags themselves.  A new eta voids the columns it went into.  A new tau in
`gmnl_2` does so only when the last column is done.  The columns before the one in hand are
therefore exempt (`ColumnIsTagged`), and so is, after a fault, the whole set of draws
(`struck`, a history variable) until another tau has been through it: of such columns it is
only known that they are of some tau (`OfSomeTau`).  When the choice sets are
evaluated a column is of the present coefficients, or it is one of those and the tag of tau
said that it need not be computed (`ColumnIsDue`).

*The argument for the layout.*  No array reaches beyond its own size (`Bounded`), so they lie apart
whatever their order.  Alignment depends on it: a column is padded to a multiple of 16
bytes (`StrideFacts`), so arrays of columns take multiples of it (`Padded`), but the last
one gives its padding back (`Shortened`).  `Orderly` says that all that comes before an
aligned array takes multiples of 16, which is so because only tags come after
the last columns (`ArraysAreOrderly`), and then every aligned array begins at one
(`OrderlyLieApart`).

## 6. What is only model-checked

* Of `Converger`: `Resumable`, which fails in `resume` as it should; the properties with slow
  writes that the theorems exclude, as far as runs check them.
* `Converges`, `Served`: liveness under fairness is out of reach of the prover.
* `Complexities`, `RangeUtils`, `CombosBuilder`, `Options`: recursive operators;
  `Dataset`, `ChoiceSets`, `BigUints`, `Messages`: folds over data, whose results for
  every input are out of reach.
* Of `Layout`: `AcceptedFits`.  It is not true of every size: with few repetitions and very
  many draws the padding is more than the margin; it holds for the sizes of the run.
* `Share` is what the dealing loop does: `RefinesSets`.
* `Coefficients`: nonlinear arithmetic on fractions.

## 7. Findings

With a run that shows them:

1. `slow_best`: a better find that waits for a slow write is overwritten in the
   peer's only message buffer by the next report; its complexity stays in the report, so
   the place becomes visited and the find is lost (`processor.h:607`).
2. `resume`: the state with no range left is saved before the timer that completes
   the task runs; a server that stops in between cannot construct the task again,
   its sanity check throws (`server.h:1803`, `1067`).
3. `lost`: `markcompleted` writes `pending.txt` without the task, activates the next task,
   and only then writes `completed.txt`; a failure in between loses the
   task (`server.cc:352`).
4. `stale_tau`: "this code should automatically re-run on next iteration"
   (`gmnl_2/processor.h:521`) is not so for the columns before the one that faults.  With one
   tau all columns are computed; with another column 0 is computed and column 1
   faults, and the tag of tau stays; back at the first tau, column 0 is a hit, and is that of
   the other.

Met while modelling, with the place where the models show it or leave it out (paths below
`netcpu/`):

* `converger_1/processor.h:637`: writing a deferred report clears complexities that were done
  after it was filled; the server waits for them and nothing asks again.  In
  `Converger` as it is (`PeerWriteDone`): with `SlowWrites`, `Converges` fails;
  `live` has none.
* `dataset_1/controller.h:583` compares a `uint8_t` with -1: a choice set without a chosen
  row is never refused, and models read alternative 255 (`Undefined` in `ChoiceSets`).
* `message.h:391`, `array<T, true>::from_wire` (`message.h:777`) and `array<T, true>::resize` (`message.h:810`) cut a buffer back to `max_cached` even when the new
  size is larger.  `BufferHolds` holds because, in the program, a small message
  comes between any two bulk ones (`WriteBulk` requires it).
* `converger_1/processor.h:396`: `bulk.msg` is hashed, then opened again.  For the
  instance that keeps the file it is its own; a clone may read another task's
  (`ReportsAreOfTheTask` is about the former).
* `converger_1/server.h:422`: the branches for an ended and a moving coefficient are
  swapped against `post_shrink`; harmless as long as all ranges end together
  (`RangesZoomIn`).
* `converger_1/server.h:1802` does not check for peers that the last key wraps around to, and a new
  peer begins with key 0 (`processor.h:333`), which is a valid key; `JoinKeys` leaves
  that out of `wrap`.
* `combos_builder.h:203`: a product is compared with one factor only, which misses products that wrap to a larger number.
* `update_client.cc:509`: after a power cut between remove and copy, the copy of the
  updater is whole (`UpdaterIsKept`), but refuses to work: it asks for the size of the
  real one, and the exception ends it.  Nothing repairs that machine.  `UpdaterIsKept`
  says that one of the two is whole, no more; and it takes what was written and closed to
  survive the power cut, although the code only flushes it.
* `converger_1/server.h:2358` says that the directory of an incomplete task is noticed at start.
  `server.cc:944` passes over a directory that is in neither index in silence, so what a crash
  of a loader leaves behind stays for good (`DirectoriesAreAccountedFor` allows it).
* `big_int_context.h:137`: `mpz_init_set` on a number that is initialised already leaks its
  memory; its value is right.
* `http/io_driver.h:604`: an exception that is not about a message passes through, and one browser ends the
  web server (`Exits`); the connection to the server is not read between two exchanges
  and is given up after four keepalives (`NativeGivenUp`).
* `converger_1/controller.h:408`: a level of zoom whose first option is not about
  coefficient 1 is filled from an iterator that was never set (`Options` requires it).
* `server.cc:230`: when the task with the first id goes and no task in use has a larger one, the
  first id becomes the next one, although, when ids have begun again at 0, tasks with smaller
  ids may be in use.  These are then outside the window: the check for "too many existing
  tasks" (`server.cc:412`) does not see them, and a turn later their ids are given out
  again, or the server dies of a directory that exists.  In `MCTaskManager` as `tasks` has it,
  `IdsInWindow` as an invariant fails.
* `server.cc:717`: a controller that guesses the name of a task that is still being
  loaded deletes it under its loader; not modelled.

The traces need slow writes (1), a crash (2, 3), a fault of a column of `gmnl_2` (4); without these the properties hold in the other runs.

## 8. What is not modelled

* *Formulas of the likelihoods*, Halton draws, `finite` checks on results: floating-point numerics.
  `Value` stands for them in the search; what surrounds them is in `evaluation`.
* *Rounding* of ranges, see section 3.
* *Text*: parsing of sheets, options and HTTP, messages to users; what is in the
  answers of the web front end, and its conditional requests (304).
* *Bytes*: byte order, decomposed floating-point numbers, zlib, TLS.  A message is its
  list of fields.
* *Deadlines of single objects* other than those named (`end_process`, retry, sync, save,
  rollback, keepalive).
* *Load of the machine*: `processor.cc` measures it and pauses; a pause appears as
  `Sleep` in `LikelihoodCaches` and only delays elsewhere.
* *Other commands of the controller* (listing tasks, results): one question, one answer.
* *Support library* (`censoc/`), installers, sleep prevention, `sunscreen`,
  `autoinput`: stand-alone, without protocol state.

Each component and its state of modelling is listed in `PROJECT.json`, as are the hazards, with a
note where a property covers them in part.

## 9. Plan

What is left to prove of what the runs show, besides what section 6 calls out of reach, is about
`Shares`: that the shares of n peers are disjoint when there are enough complexities, and that
what they leave over is less than n.
