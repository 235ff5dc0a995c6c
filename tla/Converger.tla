----------------------------- MODULE Converger ------------------------------
(***************************************************************************)
(* One task of the converger: its task_processor on the server             *)
(* (netcpu/converger_1/server.h), the connections it keeps to processing   *)
(* peers, and the peers themselves (netcpu/converger_1/processor.h).       *)
(* The server hands shares of the remaining complexities to the peers; a   *)
(* peer evaluates them one by one and reports.  Keys (io_key, echoed by    *)
(* the peers) tell reports about the current centre from stale ones.       *)
(*                                                                         *)
(* Every callback of the two programs is an action.  A coroutine that      *)
(* yields splits on_sync_timeout in two: SyncTimeout and ResumeCoroutine.  *)
(***************************************************************************)
EXTENDS GridSearch, Lists

CONSTANTS
  Peers,         \* processes that may connect and become processing peers
  KeyMod,        \* number of values of key_type (2^32 in the code)
  StaleLimit,    \* processing_peer::stale_io_limit (8192 in the code)
  JoinKeys,      \* values of io_key at which a peer may complete its handshake
  Window,        \* messages the transport takes before a write stops completing
  SlowWrites,    \* FALSE: the writes of a peer complete before its next callback
  Faults,        \* which faults may happen: of {"leave", "crash", "deactivate"}
  MaxFaults,     \* bound: number of faults in a run
  LongTimers,    \* which of the timers "save" (55 min) and "rollback" (10 min) may fire
  NoImage, NoReport   \* no convergence_state.bin; no report deferred

Key == 0 .. KeyMod - 1

ASSUME ConvergerAssumption ==
  /\ KeyMod \in Nat /\ KeyMod > 1
  /\ StaleLimit \in Nat \ {0} /\ StaleLimit < KeyMod
  /\ JoinKeys \subseteq Key
  /\ Window \in Nat /\ MaxFaults \in Nat
  /\ SlowWrites \in BOOLEAN
  /\ Faults \subseteq {"leave", "crash", "deactivate"}
  /\ LongTimers \subseteq {"save", "rollback"}
  /\ IsFiniteSet(Peers)

\* While a range has not ended level 1 holds a move away from any place: it moves
\* each coefficient, and every grid resolution is above 1 (controller.h).
ASSUME MovingAssumption ==
  \A g \in Grid, c \in Place : Waiting(g) # {} => \E x \in LevelRange(1) : Demod[g][c][x] # c

VARIABLES
  status,        \* the task: "active", "inactive", "converged" or "failed"
  disk,          \* convergence_state.bin, or NoImage
  search,        \* the grid accounting (GridSearch)
  io_key,
  sync_msg,      \* server_state_sync_msg, as last cooked
  recentre_x,    \* server_recentre_only_sync_msg.value_complexity, while cooking
  redistribute,  \* redistribute_remaining_complexities
  coroutine,     \* where on_coroutine has yielded: "none", "level" or "recentre"
  sync_timer,    \* server_state_sync_timer: "off", "sync" or "converged"
  save_timer,    \* save_convergence_state_timer is pending
  dont_delay,    \* dont_delay_saving_convergence_state
  processing,    \* processing_peers, in the order they were inserted
  link,          \* processing_peer: the server's end of each connection
  peer,          \* task_processor_detail: the peer's end
  s2p, p2s,      \* messages in flight, per peer and direction
  evaluated,     \* history: <<grid, place>> pairs that some peer evaluated
  faults         \* number of faults so far

serverVars == <<search, io_key, sync_msg, recentre_x, redistribute, coroutine,
                sync_timer, save_timer, dont_delay>>
taskVars == <<status, disk, faults>>
netVars == <<processing, link, peer, s2p, p2s>>
vars == <<serverVars, taskVars, netVars, evaluated>>

-----------------------------------------------------------------------------
(* Messages.                                                                *)

StateSync == [type : {"state"}, key : Key, value : Likelihood, am_bootstrapping : BOOLEAN,
              grid : Grid, centre : Place, remaining : SUBSET Complexity]
RecentreOnly == [type : {"recentre"}, key : Key, value : Likelihood,
                 x : Complexity \cup {NoComplexity}, remaining : SUBSET Complexity]
ComplexityOnly == [type : {"complexity"}, noreply : BOOLEAN, remaining : SUBSET Complexity]
BootReport == [type : {"boot"}, key : Key, value : Likelihood, place : Place]
PeerReport == [type : {"report"}, key : Key, value : Likelihood,
               x : Complexity \cup {NoComplexity}, done : SUBSET Complexity]

CookedSync == [key : Key, value : Likelihood, am_bootstrapping : BOOLEAN,
               grid : Grid, centre : Place]
Link == [echo : Key, remaining : SUBSET Complexity, writing : BOOLEAN, late : BOOLEAN]
PeerState == [key : Key, grid : Grid, centre : Place, e_min : Likelihood,
              am_bootstrapping : BOOLEAN, remaining : SUBSET Complexity,
              unreported : SUBSET Complexity, do_send : BOOLEAN,
              timer : {"off", "skip", "armed"}, writing : BOOLEAN,
              deferred : BootReport \cup PeerReport \cup {NoReport}]
NoLink == [echo |-> 0, remaining |-> {}, writing |-> FALSE, late |-> FALSE]

\* A task_processor_detail before the first server_state_sync has arrived.
FreshPeer == [key |-> 0, grid |-> 0, centre |-> Origin, e_min |-> Largish,
              am_bootstrapping |-> TRUE, remaining |-> {}, unreported |-> {},
              do_send |-> FALSE, timer |-> "off", writing |-> FALSE,
              deferred |-> NoReport]

NextKey == (io_key + 1) % KeyMod
Cooked(s, key) == [key |-> key, value |-> s.e_min, am_bootstrapping |-> s.am_bootstrapping,
                   grid |-> s.grid, centre |-> s.centre]

-----------------------------------------------------------------------------
(* The server's end of the connections.                                     *)

Processing == Members(processing)

Lag(key, l) == (key - l.echo) % KeyMod          \* processor.io_key - io_key_echo_
Stale(key, l) == Lag(key, l) >= StaleLimit
CanWrite(key, l) == ~l.writing /\ ~Stale(key, l)

\* Mutant of Posted: what cannot be written now is not written later either.
PostedOrDropped(key, l) == IF CanWrite(key, l) THEN [l EXCEPT !.writing = TRUE] ELSE l

\* sync_peer_to_server: write now, or have on_late_write send the whole state.
Posted(key, l) == IF CanWrite(key, l) THEN [l EXCEPT !.writing = TRUE]
                  ELSE [l EXCEPT !.late = TRUE]

\* Messages with no share filled in yet.
StateFor(m) ==
  [type |-> "state", key |-> m.key, value |-> m.value, am_bootstrapping |-> m.am_bootstrapping,
   grid |-> m.grid, centre |-> m.centre, remaining |-> {}]
RecentreFor(key, value, x) ==
  [type |-> "recentre", key |-> key, value |-> value, x |-> x, remaining |-> {}]
ComplexityFor(noreply) ==
  [type |-> "complexity", noreply |-> noreply, remaining |-> {}]

\* Mutant of WrappedAround: nobody looks whether the key has wrapped around.
NeverWrapped(lk, key) == {}

\* has_io_wrapped_around: found while a new key is announced, the peer is deleted.
WrappedAround(lk, key) == {p \in Processing : lk[p].echo = key}

\* Announce m, with each peer's share, to the peers of `to' under `key', drop
\* those of `gone'.
Announce(lk, key, to, gone, m) ==
  /\ link' = [p \in Peers |-> IF p \in gone THEN NoLink
                              ELSE IF p \in to THEN Posted(key, lk[p]) ELSE lk[p]]
  /\ s2p' = [p \in Peers |-> IF p \in gone THEN <<>>
                             ELSE IF p \in to /\ CanWrite(key, lk[p])
                             THEN Append(s2p[p], [m EXCEPT !.remaining = lk[p].remaining]) ELSE s2p[p]]

Forget(gone) ==
  /\ processing' = Without(processing, gone)
  /\ peer' = [p \in Peers |-> IF p \in gone THEN FreshPeer ELSE peer[p]]

\* The remaining complexities dealt out anew to all processing peers.
Dealt(lk, rem) ==
  [p \in Peers |->
     IF p \notin Processing THEN lk[p]
     ELSE LET i == CHOOSE j \in 1 .. Len(processing) : processing[j] = p
          IN [lk[p] EXCEPT !.remaining = Share(rem, Len(processing), i)]]

\* post_server_state_sync_timeout
PostedTimer == IF sync_timer = "off" THEN "sync" ELSE sync_timer

-----------------------------------------------------------------------------
(* Connections.                                                             *)

Fault(kind) == kind \in Faults /\ faults < MaxFaults /\ faults' = faults + 1

\* on_write_bulk of a peer whose handshake is done: processing_peers_insert.
Join(p) ==
  /\ status = "active" /\ p \notin Processing /\ io_key \in JoinKeys
  /\ processing' = Append(processing, p)
  /\ link' = [link EXCEPT ![p] = [NoLink EXCEPT !.echo = io_key, !.writing = TRUE]]
  /\ s2p' = [s2p EXCEPT ![p] = <<StateFor(sync_msg)>>]
  /\ redistribute' = TRUE
  /\ sync_timer' = IF search.am_bootstrapping THEN sync_timer ELSE PostedTimer
  /\ UNCHANGED <<search, io_key, sync_msg, recentre_x, coroutine, save_timer, dont_delay,
                 taskVars, peer, p2s, evaluated>>

\* The connection of p is gone, and with it what the peer did not report.
\* Nothing asks for a redistribution.
Lose(p) ==
  /\ Forget({p})
  /\ link' = [link EXCEPT ![p] = NoLink]
  /\ s2p' = [s2p EXCEPT ![p] = <<>>]
  /\ p2s' = [p2s EXCEPT ![p] = <<>>]
  /\ UNCHANGED <<serverVars, status, disk, evaluated>>

\* on_error of a processing_peer.
Leave(p) == p \in Processing /\ Fault("leave") /\ Lose(p)

\* A report that is read while a coroutine is in progress is kept for
\* retry_on_read_timer, but nothing is read meanwhile: unless a write is under
\* way no handler holds the connection any more, and it is closed.
Lapse(p) ==
  /\ p \in Processing /\ coroutine # "none" /\ p2s[p] # <<>> /\ ~link[p].writing
  /\ Lose(p) /\ UNCHANGED faults

\* A write to a peer completes; on_late_write_sync_peer_to_server if due.
ServerWriteDone(p) ==
  /\ p \in Processing /\ link[p].writing /\ Len(s2p[p]) <= Window
  /\ LET done == [link[p] EXCEPT !.writing = FALSE, !.late = FALSE]
     IN IF link[p].late
        THEN Announce([link EXCEPT ![p] = done], io_key, {p}, {}, StateFor(sync_msg))
        ELSE link' = [link EXCEPT ![p] = done] /\ UNCHANGED s2p
  /\ UNCHANGED <<serverVars, taskVars, processing, peer, p2s, evaluated>>

-----------------------------------------------------------------------------
(* Reports: processing_peer::on_read.  While a coroutine is in progress a    *)
(* report waits, if the connection lasts (Lapse).                           *)

OnBootstrappingReport(m, lk) ==
  LET s   == Bootstrapped(search, m.place, m.value)
      msg == Cooked(s, NextKey)
      gone == WrappedAround(lk, NextKey)
  IN /\ search' = s
     /\ sync_msg' = msg
     /\ io_key' = NextKey
     /\ redistribute' = FALSE
     /\ sync_timer' = PostedTimer
     /\ Announce(Dealt(lk, s.remaining), NextKey, Processing \ gone, gone, StateFor(msg))
     /\ Forget(gone)

\* Mutant of OnPeerReport: a peer that is done with its share is left alone.
OnPeerReportQuietly(p, m, lk) ==
  /\ search' = Reported(search, m.value, m.x, m.done)
  /\ link' = [lk EXCEPT ![p].remaining = lk[p].remaining \ m.done]
  /\ redistribute' = (redistribute \/ (m.x # NoComplexity /\ m.value < search.e_min))
  /\ sync_timer' = PostedTimer
  /\ UNCHANGED <<sync_msg, io_key, s2p, processing, peer>>

OnPeerReport(p, m, lk) ==
  LET rem == lk[p].remaining \ m.done
  IN /\ search' = Reported(search, m.value, m.x, m.done)
     /\ link' = [lk EXCEPT ![p].remaining = rem]
     /\ redistribute' = (\/ redistribute
                         \/ m.x # NoComplexity /\ m.value < search.e_min
                         \/ rem = {})
     /\ sync_timer' = PostedTimer
     /\ UNCHANGED <<sync_msg, io_key, s2p, processing, peer>>

ReportArrives(p) ==
  /\ status = "active" /\ p \in Processing /\ coroutine = "none" /\ p2s[p] # <<>>
  /\ LET m  == Head(p2s[p])
         lk == [link EXCEPT ![p].echo = m.key]
     IN \/ /\ m.key = io_key /\ m.type = "boot"
           /\ OnBootstrappingReport(m, lk)
        \/ /\ m.key = io_key /\ m.type = "report"
           /\ OnPeerReport(p, m, lk)
        \/ /\ m.key # io_key
           /\ IF Stale(io_key, link[p])
              THEN Announce(lk, io_key, {p}, {}, StateFor(sync_msg))
              ELSE link' = lk /\ UNCHANGED s2p
           /\ UNCHANGED <<search, sync_msg, io_key, redistribute, sync_timer,
                          processing, peer>>
  /\ p2s' = [q \in Peers |-> IF q \in Members(processing')
                             THEN IF q = p THEN Tail(p2s[p]) ELSE p2s[q]
                             ELSE <<>>]
  /\ UNCHANGED <<recentre_x, coroutine, save_timer, dont_delay, taskVars, evaluated>>

-----------------------------------------------------------------------------
(* on_sync_timeout and its coroutine.                                       *)

\* The coroutine runs to its end: flags are reset, the state is saved at once
\* or within 55 minutes.
Conclude(s) ==
  /\ search' = s
  /\ coroutine' = "none" /\ sync_timer' = "off" /\ recentre_x' = NoComplexity
  /\ redistribute' = FALSE
  /\ IF dont_delay
     THEN disk' = Saved(s) /\ dont_delay' = FALSE /\ UNCHANGED save_timer
     ELSE save_timer' = TRUE /\ UNCHANGED <<disk, dont_delay>>

Keep == UNCHANGED <<io_key, sync_msg, processing, peer, p2s>>

ForgetWithReports(gone) ==
  /\ Forget(gone)
  /\ p2s' = [p \in Peers |-> IF p \in gone THEN <<>> ELSE p2s[p]]

\* Mutant of SendRecentre: the centre moves and the key does not.
SendRecentreSameKey(s, lk, x) ==
  /\ Conclude(s)
  /\ sync_msg' = Cooked(s, io_key)
  /\ Announce(Dealt(lk, s.remaining), io_key, Processing, {},
              RecentreFor(io_key, s.e_min, x))
  /\ UNCHANGED <<io_key, processing, peer, p2s>>

\* sync_peers_to_server_recentre_only: the new centre, as a complexity of the
\* old one, and new shares.
SendRecentre(s, lk, x) ==
  LET gone == WrappedAround(lk, NextKey)
  IN /\ Conclude(s)
     /\ io_key' = NextKey
     /\ sync_msg' = Cooked(s, NextKey)
     /\ Announce(Dealt(lk, s.remaining), NextKey, Processing \ gone, gone,
                 RecentreFor(NextKey, s.e_min, x))
     /\ ForgetWithReports(gone)

\* sync_peers_to_server_complexity_only: new shares around the same centre.
SendComplexities(s, lk) ==
  /\ Conclude(s)
  /\ Announce(Dealt(lk, s.remaining), io_key, Processing, {}, ComplexityFor(FALSE))
  /\ Keep

\* Some peers learn what others did for them; no answer is asked for.
SendAssisted(s, lk, assisted) ==
  /\ Conclude(s)
  /\ Announce(lk, io_key, assisted, {}, ComplexityFor(TRUE))
  /\ Keep

\* The ranges were shrunk: bootstrap on the new grid, or, when every range has
\* ended, save and let on_converged run.  In the latter case the key moves on,
\* the flags stay as they are and the sync message is only half rewritten.
SendShrunk(s, lk) ==
  IF Waiting(s.grid) = {}
  THEN /\ search' = s /\ disk' = Saved(s)
       /\ io_key' = NextKey
       /\ sync_msg' = [sync_msg EXCEPT !.grid = s.grid, !.centre = s.centre]
       /\ sync_timer' = "converged" /\ coroutine' = "none" /\ recentre_x' = NoComplexity
       /\ link' = lk
       /\ UNCHANGED <<redistribute, save_timer, dont_delay, processing, peer, s2p, p2s>>
  ELSE LET msg  == Cooked(s, NextKey)
           gone == WrappedAround(lk, NextKey)
       IN /\ Conclude(s)
          /\ io_key' = NextKey
          /\ sync_msg' = msg
          /\ Announce(lk, NextKey, Processing \ gone, gone, StateFor(msg))
          /\ ForgetWithReports(gone)

\* Nothing of the level is left: looking for the next one may yield.
Yield(where, s, lk, x) ==
  /\ search' = s
  /\ coroutine' = where /\ recentre_x' = x
  /\ link' = lk
  /\ redistribute' = TRUE
  /\ UNCHANGED <<io_key, sync_timer, save_timer, dont_delay, disk, processing, peer,
                 s2p, p2s>>

\* What others did is taken off each peer's share, unless nothing remains.
Assisted == IF Merged(search).remaining = {} THEN {}
            ELSE {p \in Processing : link[p].remaining \cap search.accumulated # {}}
MergedLinks ==
  [p \in Peers |-> IF p \in Assisted
                   THEN [link[p] EXCEPT !.remaining = @ \ search.accumulated] ELSE link[p]]
WantsRedistribution ==
  \/ redistribute
  \/ /\ search.accumulated # {}
     /\ \/ Merged(search).remaining = {}
        \/ \E p \in Processing : MergedLinks[p].remaining = {}

SyncTimeout ==
  /\ status = "active" /\ sync_timer = "sync" /\ coroutine = "none"
  /\ LET s == Merged(search)
         r == Recentred(s)
         x == search.e_min_complexity
     IN \/ /\ x # NoComplexity /\ r.remaining = {}
           /\ Yield("recentre", r, MergedLinks, x)
           /\ sync_msg' = [sync_msg EXCEPT !.grid = r.grid, !.centre = r.centre]
        \/ /\ x # NoComplexity /\ r.remaining # {}
           /\ SendRecentre(r, MergedLinks, x)
        \/ /\ x = NoComplexity /\ WantsRedistribution /\ s.remaining = {}
           /\ Yield("level", s, MergedLinks, NoComplexity)
           /\ UNCHANGED sync_msg
        \/ /\ x = NoComplexity /\ WantsRedistribution /\ s.remaining # {}
           /\ SendComplexities(s, MergedLinks)
        \/ /\ x = NoComplexity /\ ~WantsRedistribution
           /\ SendAssisted(s, MergedLinks, Assisted)
  /\ UNCHANGED <<status, faults, evaluated>>

ResumeCoroutine ==
  /\ status = "active" /\ coroutine # "none"
  /\ LET s == Advanced(search)
     IN \/ /\ s.level = NoLevel
           /\ SendShrunk(Shrunk(s), link)
        \/ /\ s.level # NoLevel /\ coroutine = "recentre"
           /\ SendRecentre(s, link, recentre_x)
        \/ /\ s.level # NoLevel /\ coroutine = "level"
           /\ SendComplexities(s, link)
  /\ UNCHANGED <<status, faults, evaluated>>

-----------------------------------------------------------------------------
(* Saving, leaving and resuming a task.                                     *)

\* Mutant of SaveTimeout: the state is saved although a sync is pending.
SaveTimeoutAtOnce ==
  /\ status = "active" /\ save_timer /\ "save" \in LongTimers
  /\ save_timer' = FALSE
  /\ disk' = Saved(search)
  /\ UNCHANGED <<search, io_key, sync_msg, recentre_x, redistribute, coroutine, sync_timer,
                 dont_delay, status, faults, netVars, evaluated>>

\* save_convergence_state: put off while a sync is pending.
SaveTimeout ==
  /\ status = "active" /\ save_timer /\ "save" \in LongTimers
  /\ save_timer' = FALSE
  /\ IF sync_timer # "off" THEN dont_delay' = TRUE /\ UNCHANGED disk
     ELSE disk' = Saved(search) /\ UNCHANGED dont_delay
  /\ UNCHANGED <<search, io_key, sync_msg, recentre_x, redistribute, coroutine, sync_timer,
                 status, faults, netVars, evaluated>>

\* A task_processor that has just been constructed around s (also what stands
\* for one that does not exist).
StartFrom(s) ==
  /\ search' = s
  /\ io_key' = 1
  /\ sync_msg' = Cooked(s, 1)
  /\ recentre_x' = NoComplexity
  /\ redistribute' = FALSE /\ coroutine' = "none"
  /\ sync_timer' = "off" /\ save_timer' = FALSE /\ dont_delay' = FALSE

NoConnections ==
  /\ processing' = <<>>
  /\ link' = [p \in Peers |-> NoLink] /\ peer' = [p \in Peers |-> FreshPeer]
  /\ s2p' = [p \in Peers |-> <<>>] /\ p2s' = [p \in Peers |-> <<>>]

\* on_converged: the task is completed.
OnConverged ==
  /\ status = "active" /\ sync_timer = "converged"
  /\ status' = "converged"
  /\ StartFrom(FreshSearch) /\ NoConnections
  /\ UNCHANGED <<disk, faults, evaluated>>

\* ~task_processor while the task is moved behind another one.  A pending sync
\* is run; if it yields, or was in progress, nothing is saved.  When on_converged
\* was pending the sync runs past the last level (undefined behaviour): if that
\* saves anything it is, like what is on disk already, without ranges to wait for.
Deactivate ==
  /\ status = "active"
  /\ Fault("deactivate")
  /\ status' = "inactive"
  /\ \/ /\ coroutine = "none" /\ sync_timer = "sync"
        /\ disk' = Saved(RunThrough(search))
     \/ /\ coroutine = "none" /\ sync_timer = "sync"
        /\ (IF search.e_min_complexity # NoComplexity THEN Recentred(Merged(search))
            ELSE Merged(search)).remaining = {}
        /\ UNCHANGED disk
     \/ /\ coroutine = "none" /\ sync_timer = "off"
        /\ disk' = IF save_timer THEN Saved(search) ELSE disk
     \/ /\ coroutine # "none" \/ sync_timer = "converged"
        /\ UNCHANGED disk
  /\ StartFrom(FreshSearch) /\ NoConnections
  /\ UNCHANGED evaluated

\* The server process dies.
Crash ==
  /\ status = "active"
  /\ Fault("crash")
  /\ status' = "inactive"
  /\ StartFrom(FreshSearch) /\ NoConnections
  /\ UNCHANGED <<disk, evaluated>>

\* The constructor of task_processor: start afresh, start from the saved
\* state, or throw because no coefficient is left to wait for.
Activate ==
  /\ status = "inactive"
  /\ IF disk = NoImage
     THEN status' = "active" /\ StartFrom(FreshSearch)
     ELSE IF Waiting(disk.grid) = {}
     THEN status' = "failed" /\ UNCHANGED serverVars
     ELSE status' = "active" /\ StartFrom(Loaded(disk))
  /\ UNCHANGED <<disk, faults, netVars, evaluated>>

-----------------------------------------------------------------------------
(* The peer's end: task_processor_detail.                                   *)

PeerUnchanged == UNCHANGED <<serverVars, taskVars, processing, link>>

\* on_server_state_sync_read.  Every message re-arms the timer and has its
\* next iteration skipped.
AfterState(c, m) ==
  LET news == [c EXCEPT !.key = m.key, !.deferred = NoReport, !.unreported = {},
                        !.do_send = FALSE, !.e_min = m.value, !.grid = m.grid,
                        !.centre = m.centre]
      same == [c EXCEPT !.do_send = @ \/ c.unreported # {}]
  IN [(IF m.key # c.key THEN news ELSE same) EXCEPT
        !.am_bootstrapping = m.am_bootstrapping, !.remaining = m.remaining, !.timer = "skip"]

\* Mutant of AfterRecentre: the demodulated centre is not kept.
AfterRecentreUnsaved(c, m) ==
  [c EXCEPT !.key = m.key, !.deferred = NoReport, !.unreported = {}, !.do_send = FALSE,
            !.e_min = m.value, !.remaining = m.remaining, !.timer = "skip"]

AfterRecentre(c, m) ==
  [c EXCEPT !.key = m.key, !.deferred = NoReport, !.unreported = {}, !.do_send = FALSE,
            !.e_min = m.value, !.centre = Demod[c.grid][c.centre][m.x],
            !.remaining = m.remaining, !.timer = "skip"]

AfterComplexity(c, m) ==
  [c EXCEPT !.do_send = @ \/ (~m.noreply /\ c.unreported # {}),
            !.remaining = m.remaining, !.timer = "skip"]

PeerReads(p) ==
  /\ s2p[p] # <<>>
  /\ LET m == Head(s2p[p])
     IN peer' = [peer EXCEPT ![p] =
                   CASE m.type = "state" -> AfterState(@, m)
                     [] m.type = "recentre" -> AfterRecentre(@, m)
                     [] m.type = "complexity" -> AfterComplexity(@, m)]
  /\ s2p' = [s2p EXCEPT ![p] = Tail(@)]
  /\ PeerUnchanged /\ UNCHANGED <<p2s, evaluated>>

\* skip_next_process_iteration
SkipIteration(p) ==
  /\ peer[p].timer = "skip"
  /\ peer' = [peer EXCEPT ![p].timer = "armed"]
  /\ PeerUnchanged /\ UNCHANGED <<s2p, p2s, evaluated>>

\* Write a report now, or have on_peer_report_write do it when the write under
\* way completes.  A report that is written clears all that is unreported.
Issue(p, c, m) ==
  IF c.writing
  THEN /\ peer' = [peer EXCEPT ![p] = [c EXCEPT !.deferred = m]]
       /\ UNCHANGED p2s
  ELSE /\ peer' = [peer EXCEPT ![p] = [c EXCEPT !.writing = SlowWrites, !.unreported = {}]]
       /\ p2s' = [p2s EXCEPT ![p] = Append(@, m)]

\* on_process_timeout with nothing left to do.
ProcessNothing(p) ==
  /\ peer[p].timer = "armed" /\ ~peer[p].am_bootstrapping /\ peer[p].remaining = {}
  /\ peer' = [peer EXCEPT ![p].timer = "off"]
  /\ PeerUnchanged /\ UNCHANGED <<s2p, p2s, evaluated>>

\* on_process_timeout: evaluate one complexity (unless it does not move), and
\* report if it is a better find, the last one, or a report is wanted.
Process(p) ==
  /\ peer[p].timer = "armed" /\ ~peer[p].am_bootstrapping /\ peer[p].remaining # {}
  /\ \E x \in LastOfFirstRange(peer[p].remaining) :
     LET c      == peer[p]
         pl     == Demod[c.grid][c.centre][x]
         moved  == pl # c.centre
         better == moved /\ Value[pl] < Target[c.e_min]
         d      == [c EXCEPT !.remaining = @ \ {x}, !.unreported = @ \cup {x},
                             !.e_min = IF better THEN Value[pl] ELSE @]
         report == [type |-> "report", key |-> d.key, value |-> d.e_min,
                    x |-> IF better THEN x ELSE NoComplexity, done |-> d.unreported]
     IN /\ IF better \/ d.remaining = {} \/ d.do_send
           THEN Issue(p, [d EXCEPT !.timer = IF d.do_send THEN "armed" ELSE "off",
                                   !.do_send = FALSE], report)
           ELSE peer' = [peer EXCEPT ![p] = d] /\ UNCHANGED p2s
        /\ evaluated' = IF moved THEN evaluated \cup {<<c.grid, pl>>} ELSE evaluated
  /\ PeerUnchanged /\ UNCHANGED s2p

\* on_bootstrapping_process_timeout: draw places until one beats e_min.  The
\* centre itself is never evaluated: no coefficient is modified there.
Bootstrap(p) ==
  /\ peer[p].timer = "armed" /\ peer[p].am_bootstrapping
  /\ \E pl \in BootPlaces[peer[p].grid] \ {peer[p].centre} :
       LET c == peer[p]
       IN /\ Value[pl] < Target[c.e_min]
          /\ Issue(p, [c EXCEPT !.e_min = Value[pl], !.timer = "off"],
                   [type |-> "boot", key |-> c.key, value |-> Value[pl], place |-> pl])
          /\ evaluated' = evaluated \cup {<<c.grid, pl>>}
  /\ PeerUnchanged /\ UNCHANGED s2p

\* A write of the peer completes; a deferred report goes out as it was filled.
PeerWriteDone(p) ==
  /\ peer[p].writing /\ Len(p2s[p]) <= Window
  /\ LET c == [peer[p] EXCEPT !.writing = FALSE, !.deferred = NoReport]
     IN IF peer[p].deferred = NoReport
        THEN peer' = [peer EXCEPT ![p] = c] /\ UNCHANGED p2s
        ELSE Issue(p, c, peer[p].deferred)
  /\ PeerUnchanged /\ UNCHANGED <<s2p, evaluated>>

\* on_rollback_report_timeout
RollbackTimeout(p) ==
  /\ "rollback" \in LongTimers
  /\ peer[p].unreported # {} /\ ~peer[p].do_send
  /\ peer' = [peer EXCEPT ![p].do_send = TRUE]
  /\ PeerUnchanged /\ UNCHANGED <<s2p, p2s, evaluated>>

-----------------------------------------------------------------------------
Init ==
  /\ status = "active" /\ disk = NoImage /\ faults = 0
  /\ search = FreshSearch
  /\ io_key = 1
  /\ sync_msg = Cooked(FreshSearch, 1)
  /\ recentre_x = NoComplexity
  /\ redistribute = FALSE /\ coroutine = "none"
  /\ sync_timer = "off" /\ save_timer = FALSE /\ dont_delay = FALSE
  /\ processing = <<>>
  /\ link = [p \in Peers |-> NoLink] /\ peer = [p \in Peers |-> FreshPeer]
  /\ s2p = [p \in Peers |-> <<>>] /\ p2s = [p \in Peers |-> <<>>]
  /\ evaluated = {}

ServerStep ==
  \/ SyncTimeout \/ ResumeCoroutine \/ SaveTimeout \/ OnConverged \/ Activate
  \/ Deactivate \/ Crash
  \/ \E p \in Peers : Join(p) \/ Leave(p) \/ Lapse(p) \/ ServerWriteDone(p) \/ ReportArrives(p)

PeerStep(p) ==
  \/ PeerReads(p) \/ SkipIteration(p) \/ ProcessNothing(p) \/ Process(p) \/ Bootstrap(p)
  \/ PeerWriteDone(p) \/ RollbackTimeout(p)

Next == ServerStep \/ \E p \in Peers : PeerStep(p)

Spec == Init /\ [][Next]_vars

\* Fairness: timers fire, writes complete, sockets deliver, and while no peer is
\* connected some peer connects.  Faults and the two long timers are left alone.
Fairness ==
  /\ WF_vars(SyncTimeout \/ ResumeCoroutine) /\ WF_vars(OnConverged) /\ WF_vars(Activate)
  /\ WF_vars(processing = <<>> /\ \E p \in Peers : Join(p))
  /\ \A p \in Peers :
       /\ WF_vars(ServerWriteDone(p)) /\ WF_vars(ReportArrives(p))
       /\ WF_vars(PeerReads(p)) /\ WF_vars(SkipIteration(p))
       /\ WF_vars(ProcessNothing(p) \/ Process(p)) /\ WF_vars(Bootstrap(p))
       /\ WF_vars(PeerWriteDone(p))

FairSpec == Spec /\ Fairness

-----------------------------------------------------------------------------
(* Properties.                                                              *)

TypeOK ==
  /\ status \in {"active", "inactive", "converged", "failed"}
  /\ disk \in Image \cup {NoImage}
  /\ faults \in Nat
  /\ search \in Search
  /\ io_key \in Key
  /\ sync_msg \in CookedSync
  /\ recentre_x \in Complexity \cup {NoComplexity}
  /\ redistribute \in BOOLEAN
  /\ coroutine \in {"none", "level", "recentre"}
  /\ sync_timer \in {"off", "sync", "converged"}
  /\ save_timer \in BOOLEAN /\ dont_delay \in BOOLEAN
  /\ processing \in Seq(Peers)
  /\ link \in [Peers -> Link]
  /\ peer \in [Peers -> PeerState]
  /\ s2p \in [Peers -> Seq(StateSync \cup RecentreOnly \cup ComplexityOnly)]
  /\ p2s \in [Peers -> Seq(BootReport \cup PeerReport)]
  /\ evaluated \subseteq Grid \X Place

Settled == status = "active" /\ coroutine = "none" /\ sync_timer # "converged"

\* Reports of p that the server has not seen yet, also the one not written yet.
Outstanding(p) ==
  {p2s[p][i] : i \in 1 .. Len(p2s[p])}
  \cup (IF peer[p].deferred = NoReport THEN {} ELSE {peer[p].deferred})

Reports(p) == {m \in Outstanding(p) : m.type = "report"}

\* A report that echoes the current key was made by a peer that worked on the
\* current grid, around the current centre and in the current mode: the key is
\* all on_read looks at before the report's complexities are demodulated with
\* the server's own coefficients.
KeyAgreement ==
  Settled => \A p \in Peers : \A m \in Outstanding(p) :
    m.key = io_key => /\ peer[p].grid = search.grid
                      /\ m.type = (IF search.am_bootstrapping THEN "boot" ELSE "report")
                      /\ ~search.am_bootstrapping => peer[p].centre = search.centre

\* What the task promises (Convergence), whatever peers, messages and faults do.
Abstract == INSTANCE Convergence

\* The whole protocol - shares, keys, late writes, lost peers, restarts - does
\* nothing to the search that Convergence does not allow: a report is only
\* accounted on the grid and around the centre it was made for, a place is only
\* struck off after it was evaluated, finds are not lost.
Implements == Abstract!Spec

\* These hold, too, where the writes of a peer are slow and finds do get lost.
VisitedWasEvaluated == Abstract!VisitedWasEvaluated
Coverage == Abstract!Coverage

\* on_peer_report: "the currently found best find had better be the
\* best-possible amongst all of the visited places" (up to the improvement
\* ratio below which a peer does not report a find).
BestOfVisited == Abstract!BestOfVisited

\* A peer owes what the server thinks it is working on: once it has read all
\* that was sent, its share is still to be done by it, done and unreported, or
\* in a report.  What slips out of all three is never asked for again.
OwesItsShare ==
  Settled /\ ~search.am_bootstrapping => \A p \in Processing :
    s2p[p] = <<>> /\ ~link[p].late /\ peer[p].key = io_key =>
      link[p].remaining \subseteq peer[p].remaining \cup peer[p].unreported
                                 \cup UNION {m.done : m \in Reports(p)}

\* Whenever a peer has nothing to do a redistribution is due, and its timer runs.
IdleMeansRedistribution ==
  Settled /\ ~search.am_bootstrapping => \A p \in Processing :
    link[p].remaining = {} => redistribute /\ sync_timer = "sync"

\* The assertions of on_bootstrapping_peer_report: when a location is accepted
\* the server is bootstrapping, nothing is visited, and all of level 1 remains.
LocatesFromScratch ==
  status = "active" /\ coroutine = "none" => \A p \in Processing :
    p2s[p] # <<>> /\ Head(p2s[p]).key = io_key /\ Head(p2s[p]).type = "boot" =>
      /\ search.am_bootstrapping /\ search.visited = {}
      /\ search.level = 1 /\ search.remaining = LevelRange(1)

\* The assertions of the peer's recentre branch: the key is news to the peer
\* and there is work around the new centre, which the peer can demodulate
\* because it is on the same grid.
RecentreIsNews ==
  \A p \in Peers : s2p[p] # <<>> /\ Head(s2p[p]).type = "recentre" =>
    LET m == Head(s2p[p])
    IN /\ m.key # peer[p].key
       /\ m.remaining # {}
       /\ Value[Demod[peer[p].grid][peer[p].centre][m.x]] = m.value

\* A task that was stopped or whose server died can always be taken up again.
Resumable == status # "failed"

\* All complexities of all grids are eventually done.
Converges == <>(status = "converged")
=============================================================================
