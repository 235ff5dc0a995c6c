------------------------------ MODULE Sessions -------------------------------
(***************************************************************************)
(* How a connection between the server and a processing peer passes from   *)
(* one user to the next: the handshake that gives a peer the active task   *)
(* (server.cc, converger_1/server.h, processor.cc, converger_1/processor.h)*)
(* and the one that takes it away (end_process).  Each end of a connection *)
(* has a driver (io_driver.h) with one read and one write at a time, whose *)
(* callbacks its current user sets (io_wrapper.h).  The peers of one       *)
(* machine share the file bulk.msg; the first of them keeps it.            *)
(***************************************************************************)
EXTENDS Naturals, Sequences, FiniteSets

CONSTANTS
  Machines,          \* what a machine and its work may be: a set of records, see below
  Missing, Partial   \* states of bulk.msg

VARIABLES
  machine,  \* the one of Machines that is served
  n,      \* how many tasks have become active: the last is Schedule[n]
  on,     \* it is still active
  srv,    \* the server's end of the connection of each peer
  cli,    \* the peer's end
  toC,    \* messages on their way to the peer
  toS,    \* messages on their way to the server
  file,   \* bulk.msg: Missing, Partial or the task whose bulk it is
  drops

vars == <<machine, n, on, srv, cli, toC, toS, file, drops>>

Peers == machine.peers         \* the processes of the machine that connect to the server
Clones == machine.clones       \* those with a clone_instance_index other than 0
Schedule == machine.schedule   \* the tasks, in the order in which they become active
Unknown == machine.unknown     \* pairs of a peer and a task whose model it does not have
Refused == machine.refused     \* pairs of a peer and a task it refuses (Model::on_meta_read)
Window == machine.window       \* messages under way before a write stops completing
MaxDrops == machine.drops      \* bound: number of connections lost in a run

TaskOf(i) == Schedule[i]

(* A message: its type, the activation it belongs to, and what it is about:*)
(* the message an answer answers, the task whose bulk a report stems from. *)
(* Silence stands for having nothing to write.                             *)
Msg(type, i, about) == [type |-> type, n |-> i, about |-> about]
Silence == Msg("none", 0, "none")

Closed == [user |-> "none", n |-> 0, rcb |-> "none", wcb |-> "none", reading |-> FALSE,
           out |-> Silence, ready |-> FALSE, held |-> FALSE, timer |-> "off",
           load |-> "none", loaded |-> Missing]

-----------------------------------------------------------------------------
(* The driver.                                                             *)

WritePending(e) == e.out # Silence
SetRead(e, cb)  == [e EXCEPT !.rcb = cb]
SetWrite(e, cb) == [e EXCEPT !.wcb = cb]
ReadAgain(e) == [e EXCEPT !.reading = TRUE]
Read(e, cb) == ReadAgain(SetRead(e, cb))
WriteAgain(e, m) == [e EXCEPT !.out = m]
Write(e, m, cb) == WriteAgain(SetWrite(e, cb), m)

\* A new user of the driver takes it over: the callbacks of the old one are
\* gone, what is pending stays pending.
TakenOver(e, user) == [e EXCEPT !.user = user, !.rcb = "none", !.wcb = "none",
                                !.ready = FALSE, !.held = FALSE, !.timer = "off"]

\* A driver lives in the handlers of its pending operations: without one it
\* is destroyed, and the socket is closed.
Kept(e) == IF e.reading \/ WritePending(e) \/ e.load # "none" THEN e ELSE Closed

-----------------------------------------------------------------------------
(* The server.                                                             *)

NewProcessingPeer(e, i) ==
  Write([TakenOver(e, "processing_peer") EXCEPT !.n = i], Msg("offer", i, "none"), "on_write")

\* on_write_bulk: the peer is inserted into processing_peers.
OnWriteBulk(e) == SetWrite(Read(e, "on_read_report"), "on_write_sync")

NewEndProcessWriter(e) ==
  LET w == SetRead(TakenOver(e, "end_process_writer"), "on_read_echo")
  IN IF WritePending(w) THEN SetWrite(w, "late_write_end_process")
     ELSE Write(w, Msg("end", w.n, "none"), "on_write_end_process")

OnWriteEndProcess(e) == ReadAgain(e)

\* Mutant of IsEcho: an answer that was under way is taken for the echo.
IsAnyAnswer(m) == m.type \in {"end", "good"}

\* Which message the server takes for the echo of end_process.
IsEcho(m) == m.type = "end"

OnReadEcho(e, m) ==
  IF IsEcho(m) THEN Read(TakenOver(e, "peer_connection"), "on_read")
  ELSE ReadAgain(e)

\* Mutant of Queued: a peer that is ready between two tasks is forgotten.
QueuedNever(e) == ReadAgain(e)

\* peer_connection::on_read, of a processing peer.
Queued(e) == [ReadAgain(e) EXCEPT !.ready = TRUE]
OnRead(e, m) ==
  IF m.type # "ready" THEN ReadAgain(e)
  ELSE IF on THEN NewProcessingPeer(e, n) ELSE Queued(e)

OnReadAnswer(e, m) ==
  CASE e.rcb = "on_read_offer_response" /\ m.type = "good" ->
         Write(e, Msg("res", e.n, "none"), "on_write_res")
    [] e.rcb = "on_read_res_response" /\ m.type = "good" ->
         Write(e, Msg("meta", e.n, "none"), "on_write_meta")
    [] e.rcb = "on_read_meta_response" /\ m.type = "good" ->
         Write(e, Msg("bulk", e.n, "none"), "on_write_bulk")
    [] e.rcb = "on_read_meta_response" /\ m.type = "skip" -> OnWriteBulk(e)
    [] OTHER -> ReadAgain(e)   \* in limbo until the task ends

OnReadReport(e, m) == IF m.type = "report" THEN ReadAgain(e) ELSE Closed

AtServer(e, m) ==
  CASE e.rcb = "none" -> e
    [] e.rcb = "on_version" -> IF m.type = "version" THEN Read(e, "on_read") ELSE Closed
    [] e.rcb = "on_read" -> OnRead(e, m)
    [] e.rcb = "on_read_echo" -> OnReadEcho(e, m)
    [] e.rcb = "on_read_report" -> OnReadReport(e, m)
    [] OTHER -> OnReadAnswer(e, m)

AfterServerWrite(e) ==
  CASE e.wcb = "on_write" -> IF e.reading THEN SetRead(e, "on_read_offer_response")
                             ELSE Read(e, "on_read_offer_response")
    [] e.wcb = "on_write_res" -> Read(e, "on_read_res_response")
    [] e.wcb = "on_write_meta" -> Read(e, "on_read_meta_response")
    [] e.wcb = "on_write_bulk" -> OnWriteBulk(e)
    [] e.wcb = "on_late_write_sync" -> Write(e, Msg("sync", e.n, "none"), "on_write_sync")
    [] e.wcb = "late_write_end_process" ->
         Write(e, Msg("end", e.n, "none"), "on_write_end_process")
    [] e.wcb = "on_write_end_process" -> OnWriteEndProcess(e)
    [] OTHER -> e

IsProcessing(p) == srv[p].user = "processing_peer" /\ srv[p].rcb = "on_read_report"

Taken(channel, p) == [channel EXCEPT ![p] = Tail(@)]
Sent(channel, p, e) == [channel EXCEPT ![p] = Append(@, e.out)]

ServerRead(p) ==
  /\ srv[p].reading /\ toS[p] # <<>>
  /\ srv' = [srv EXCEPT ![p] = Kept(AtServer([@ EXCEPT !.reading = FALSE], Head(toS[p])))]
  /\ toS' = Taken(toS, p)
  /\ UNCHANGED <<machine, n, on, cli, toC, file, drops>>

\* A report that arrives while on_coroutine has yielded is put off.
Hold(p) ==
  /\ srv[p].reading /\ toS[p] # <<>> /\ IsProcessing(p) /\ Head(toS[p]).type = "report"
  /\ srv' = [srv EXCEPT ![p] = Kept([@ EXCEPT !.reading = FALSE, !.held = TRUE])]
  /\ toS' = Taken(toS, p)
  /\ UNCHANGED <<machine, n, on, cli, toC, file, drops>>

\* retry_on_read_timer.
RetryOnRead(p) ==
  /\ srv[p].held
  /\ srv' = [srv EXCEPT ![p] = [ReadAgain(@) EXCEPT !.held = FALSE]]
  /\ UNCHANGED <<machine, n, on, cli, toC, toS, file, drops>>

ServerWritten(p) ==
  /\ WritePending(srv[p]) /\ Len(toC[p]) < Window /\ cli[p] # Closed
  /\ srv' = [srv EXCEPT ![p] = Kept(AfterServerWrite([@ EXCEPT !.out = Silence]))]
  /\ toC' = Sent(toC, p, srv[p])
  /\ UNCHANGED <<machine, n, on, cli, toS, file, drops>>

\* sync_peer_to_server.
Sync(p) ==
  /\ IsProcessing(p)
  /\ srv' = [srv EXCEPT ![p] = IF WritePending(@) THEN SetWrite(@, "on_late_write_sync")
                               ELSE WriteAgain(@, Msg("sync", @.n, "none"))]
  /\ UNCHANGED <<machine, n, on, cli, toC, toS, file, drops>>

\* task::activate
Activate ==
  /\ ~on /\ n < Len(Schedule)
  /\ n' = n + 1 /\ on' = TRUE
  /\ srv' = [p \in Peers |-> IF srv[p].ready THEN NewProcessingPeer(srv[p], n + 1) ELSE srv[p]]
  /\ UNCHANGED <<machine, cli, toC, toS, file, drops>>

\* ~task_processor
Deactivate ==
  /\ on
  /\ on' = FALSE
  /\ srv' = [p \in Peers |-> IF srv[p].user = "processing_peer" THEN NewEndProcessWriter(srv[p])
                             ELSE srv[p]]
  /\ UNCHANGED <<machine, n, cli, toC, toS, file, drops>>

\* on_stale_echo_timeout
StaleEcho(p) ==
  /\ srv[p].user = "end_process_writer"
  /\ srv' = [srv EXCEPT ![p] = Closed]
  /\ UNCHANGED <<machine, n, on, cli, toC, toS, file, drops>>

-----------------------------------------------------------------------------
(* The peer.                                                               *)

NewPeerConnection(e) ==
  Write([TakenOver(e, "peer_connection") EXCEPT !.n = 0, !.loaded = Missing],
        Msg("ready", 0, "none"), "on_ready_to_process_write")

Echo(e) == Write(e, Msg("end", e.n, "none"), "on_end_process_replied_write")
RespondToEndProcess(e) ==
  IF WritePending(e) THEN SetWrite(e, "respond_to_end_process") ELSE Echo(e)

AtPeerConnection(p, e, m) ==
  IF m.type # "offer" THEN Closed
  ELSE IF <<p, TaskOf(m.n)>> \in Unknown THEN WriteAgain(e, Msg("bad", m.n, "offer"))
  ELSE Write([TakenOver(e, "task_processor") EXCEPT !.n = m.n],
             Msg("good", m.n, "offer"), "on_written_good_offer")

OnRes(e, m) ==
  IF m.type # "res" THEN Closed
  ELSE Write(TakenOver(e, "task_processor_detail_meta"), Msg("good", e.n, "res"),
             "on_written_good_res")

OnMeta(p, e, m) ==
  IF m.type # "meta" THEN Closed
  ELSE IF <<p, TaskOf(m.n)>> \in Refused
  THEN Write(e, Msg("bad", e.n, "meta"), "on_bad_meta_reply_write")
  ELSE [TakenOver(e, "task_processor_detail") EXCEPT !.load = "hash"]

OnBulkRead(p, e, m) ==
  CASE m.type = "end" -> RespondToEndProcess(e)
    [] m.type = "bulk" -> IF p \in Clones
                          THEN Read([e EXCEPT !.loaded = TaskOf(m.n)], "on_first_sync_read")
                          ELSE [e EXCEPT !.loaded = TaskOf(m.n), !.load = "open"]
    [] OTHER -> Closed

\* The key of a sync may be one the peer has seen: then the write callback stays,
\* and what is unreported is to be sent.
OnSyncRead(e, m, news) ==
  CASE m.type = "end" -> RespondToEndProcess(e)
    [] m.type = "sync" /\ news -> [ReadAgain(SetWrite(e, "on_write")) EXCEPT !.timer = "on"]
    [] m.type = "sync" /\ ~news -> [ReadAgain(e) EXCEPT !.timer = "send"]
    [] OTHER -> Closed

AtPeer(p, e, m, news) ==
  CASE e.rcb = "on_read" -> AtPeerConnection(p, e, m)
    [] e.rcb = "on_res" -> OnRes(e, m)
    [] e.rcb = "on_meta" -> OnMeta(p, e, m)
    [] e.rcb = "on_bulk_read" -> OnBulkRead(p, e, m)
    [] e.rcb = "on_first_sync_read" ->
         OnSyncRead([SetRead(e, "on_sync_read") EXCEPT !.timer = "on"], m, TRUE)
    [] e.rcb = "on_sync_read" -> OnSyncRead(e, m, news)
    [] e.rcb = "on_end_process_read" -> IF m.type = "end" THEN Echo(e) ELSE Closed

AfterPeerWrite(e) ==
  CASE e.wcb = "on_version_write" ->
         Write(e, Msg("ready", 0, "none"), "on_ready_to_process_write")
    [] e.wcb = "on_ready_to_process_write" -> Read(e, "on_read")
    [] e.wcb = "on_written_good_offer" -> Read(e, "on_res")
    [] e.wcb = "on_written_good_res" -> Read(e, "on_meta")
    [] e.wcb = "on_bad_meta_reply_write" -> Read(e, "on_end_process_read")
    [] e.wcb = "on_meta_reply_write" -> Read(e, "on_bulk_read")
    [] e.wcb = "on_skip_bulk_reply_write" -> Read(e, "on_first_sync_read")
    [] e.wcb = "on_peer_report_write" -> Write(e, Msg("report", e.n, e.loaded), "on_write")
    [] e.wcb = "respond_to_end_process" -> Echo(e)
    [] e.wcb = "on_end_process_replied_write" -> NewPeerConnection(e)
    [] OTHER -> e

PeerRead(p) ==
  /\ cli[p].reading /\ toC[p] # <<>>
  /\ \E news \in BOOLEAN :
       cli' = [cli EXCEPT ![p] =
                 Kept(AtPeer(p, [@ EXCEPT !.reading = FALSE], Head(toC[p]), news))]
  /\ toC' = Taken(toC, p)
  /\ UNCHANGED <<machine, n, on, srv, toS, file, drops>>

PeerWritten(p) ==
  /\ WritePending(cli[p]) /\ Len(toS[p]) < Window /\ srv[p] # Closed
  /\ cli' = [cli EXCEPT ![p] = Kept(AfterPeerWrite([@ EXCEPT !.out = Silence]))]
  /\ toS' = Sent(toS, p, cli[p])
  /\ UNCHANGED <<machine, n, on, srv, toC, file, drops>>

\* on_process_timeout has something to report.  The peer goes on only after what
\* it was to send (do_send_peer_report); a find, or the end of its share, stops it.
Report(p) ==
  /\ cli[p].timer # "off"
  /\ cli' = [cli EXCEPT ![p] =
               [IF WritePending(@) THEN SetWrite(@, "on_peer_report_write")
                ELSE WriteAgain(@, Msg("report", @.n, @.loaded))
                  EXCEPT !.timer = IF cli[p].timer = "send" THEN "on" ELSE "off"]]
  /\ UNCHANGED <<machine, n, on, srv, toC, toS, file, drops>>

-----------------------------------------------------------------------------
(* bulk.msg.  try_load_bulk_msg_from_file hashes the file, then opens it   *)
(* again to read it; on_bulk_read truncates the file, then writes it.      *)

\* Mutant of HashAgrees: any file will do.
HashAgreesIfThere(p) == file # Missing

HashAgrees(p) == file = TaskOf(cli[p].n)

AskForBulk(e) == Write([e EXCEPT !.load = "none"], Msg("good", e.n, "meta"), "on_meta_reply_write")
SkipBulk(e) == Write([e EXCEPT !.load = "none"], Msg("skip", e.n, "meta"), "on_skip_bulk_reply_write")

Hashed(p) ==
  /\ cli[p].load = "hash" /\ HashAgrees(p)
  /\ cli' = [cli EXCEPT ![p].load = "read"]
  /\ UNCHANGED <<machine, n, on, srv, toC, toS, file, drops>>

\* Not the bulk of this task: the first instance removes the file and asks for
\* the bulk, the others try again, or give up.
Stale(p) ==
  /\ \/ cli[p].load = "hash" /\ ~HashAgrees(p)
     \/ cli[p].load = "read" /\ file = Missing
  /\ IF p \in Clones
     THEN /\ cli' = [cli EXCEPT ![p] = IF @.load = "hash" THEN Closed ELSE [@ EXCEPT !.load = "hash"]]
          /\ file' = file
     ELSE /\ cli' = [cli EXCEPT ![p] = AskForBulk(@)]
          /\ file' = Missing
  /\ UNCHANGED <<machine, n, on, srv, toC, toS, drops>>

\* A file cut short does not inflate: the exception ends the peer.
ReadFile(p) ==
  /\ cli[p].load = "read" /\ file # Missing
  /\ cli' = [cli EXCEPT ![p] = IF file = Partial THEN Closed
                               ELSE SkipBulk([@ EXCEPT !.loaded = file])]
  /\ UNCHANGED <<machine, n, on, srv, toC, toS, file, drops>>

OpenFile(p) ==
  /\ cli[p].load = "open"
  /\ file' = Partial
  /\ cli' = [cli EXCEPT ![p].load = "write"]
  /\ UNCHANGED <<machine, n, on, srv, toC, toS, drops>>

WriteFile(p) ==
  /\ cli[p].load = "write"
  /\ file' = cli[p].loaded
  /\ cli' = [cli EXCEPT ![p] = Read([@ EXCEPT !.load = "none"], "on_first_sync_read")]
  /\ UNCHANGED <<machine, n, on, srv, toC, toS, drops>>

-----------------------------------------------------------------------------
(* Connections.                                                            *)

Connect(p) ==
  /\ cli[p] = Closed /\ srv[p] = Closed
  /\ srv' = [srv EXCEPT ![p] = Read([Closed EXCEPT !.user = "peer_connection"], "on_version")]
  /\ cli' = [cli EXCEPT ![p] = Write([Closed EXCEPT !.user = "peer_connection"],
                                     Msg("version", 0, "none"), "on_version_write")]
  /\ toC' = [toC EXCEPT ![p] = <<>>] /\ toS' = [toS EXCEPT ![p] = <<>>]
  /\ UNCHANGED <<machine, n, on, file, drops>>

\* The peer is killed, or its machine or the network goes down.
Drop(p) ==
  /\ drops < MaxDrops /\ cli[p] # Closed
  /\ drops' = drops + 1
  /\ cli' = [cli EXCEPT ![p] = Closed]
  /\ UNCHANGED <<machine, n, on, srv, toC, toS, file>>

\* An operation fails because the other end has gone.
ServerError(p) ==
  /\ cli[p] = Closed /\ srv[p] # Closed
  /\ srv' = [srv EXCEPT ![p] = Closed]
  /\ UNCHANGED <<machine, n, on, cli, toC, toS, file, drops>>

PeerError(p) ==
  /\ srv[p] = Closed /\ cli[p] # Closed /\ cli[p].load = "none"
  /\ cli' = [cli EXCEPT ![p] = Closed]
  /\ UNCHANGED <<machine, n, on, srv, toC, toS, file, drops>>

-----------------------------------------------------------------------------
Init ==
  /\ machine \in Machines
  /\ n = 0 /\ on = FALSE /\ drops = 0
  /\ srv = [p \in Peers |-> Closed] /\ cli = [p \in Peers |-> Closed]
  /\ toC = [p \in Peers |-> <<>>] /\ toS = [p \in Peers |-> <<>>]
  /\ file \in {Missing, Partial, "other"}

FileStep(p) == Hashed(p) \/ Stale(p) \/ ReadFile(p) \/ OpenFile(p) \/ WriteFile(p)
PeerStep(p) == PeerRead(p) \/ PeerWritten(p) \/ FileStep(p) \/ PeerError(p) \/ Connect(p)
ServerStep(p) == ServerRead(p) \/ ServerWritten(p) \/ RetryOnRead(p) \/ StaleEcho(p) \/ ServerError(p)

Next ==
  \/ Activate \/ Deactivate
  \/ \E p \in Peers : PeerStep(p) \/ ServerStep(p) \/ Report(p) \/ Sync(p) \/ Hold(p) \/ Drop(p)

\* Programs answer, timers fire and closed connections are noticed; a task need
\* not end, nor a peer find anything.
AnyPeer == UNION {m.peers : m \in Machines}
Fairness == /\ WF_vars(Activate)
            /\ \A p \in AnyPeer : /\ WF_vars(p \in Peers /\ PeerStep(p))
                                 /\ WF_vars(p \in Peers /\ ServerStep(p))
Spec == Init /\ [][Next]_vars /\ Fairness

-----------------------------------------------------------------------------
Range(s) == {s[i] : i \in DOMAIN s}
Answer == {"good", "bad", "skip", "end"}
Expects == [on_read_offer_response |-> "offer", on_read_res_response |-> "res",
            on_read_meta_response |-> "meta"]

\* The server takes no answer for the answer to another message, or to a message
\* about another task, although all of them look the same; and the peer connection
\* that follows an echo finds none left over (server.h:854).
AnswersFit == \A p \in Peers : \A m \in Range(toS[p]) : m.type \in Answer =>
  /\ srv[p].rcb \in DOMAIN Expects => m.n = srv[p].n /\ m.about = Expects[srv[p].rcb]
  /\ srv[p].rcb = "on_read_echo" => m.n = srv[p].n
  /\ srv[p].user # "peer_connection"

\* What a peer reports to a task it has computed from the bulk of that task, when it is
\* the one that keeps bulk.msg, whatever the other instances do with the file meanwhile.
ReportsAreOfTheTask == \A p \in Peers : \A m \in Range(toS[p]) :
  m.type = "report" /\ IsProcessing(p) /\ p \notin Clones => m.n = srv[p].n /\ m.about = TaskOf(srv[p].n)

\* As long as a peer may take the task, it is given it again and again, however its
\* connection fares; without a task it waits in the list of ready peers.
Serves(p) == IF ~on THEN srv[p].ready
             ELSE IsProcessing(p) \/ <<p, TaskOf(n)>> \in Unknown \cup Refused
Served == \A p \in AnyPeer : []<>(p \in Peers => Serves(p))
=============================================================================
