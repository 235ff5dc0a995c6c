------------------------------ MODULE MCNetwork -------------------------------
(***************************************************************************)
(* What carries the computation, checked part by part: messages, the       *)
(* driver, the sessions of processing peers, the loading of tasks, the     *)
(* update of the programs and the web front end.  The parts share nothing; *)
(* Init chooses one.                                                       *)
(***************************************************************************)
EXTENDS Messages

CONSTANTS
  Parts,     \* of {"messages", "driver", "sessions", "loading", "update", "web"}
  Sides,     \* of the driver's connection
  MaxUnderWay, Controllers, MaxTasks, MaxCrashes, MaxVersion, MaxReboots,
  Machines,  \* of the sessions
  Missing, Partial, NoMessage

\* What is proved of the parts is proved for these.  A machine has one peer that is no
\* clone: the one that was started with clone_instance_index 0.
ASSUME NetworkAssumption ==
  /\ Sides = {1, 2}
  /\ MaxVersion \in Nat \ {0}
  /\ \A m \in Machines : \A p, q \in m.peers \ m.clones : p = q

VARIABLES part,
  writing, write_is_pending, keepalive_write_is_pending, data_written, keepalive_wait,
  timer, read_is_pending, underway, ahead, canceled, hung,
  machine, n, on, srv, cli, toC, toS, file, drops,
  step, loader, sent, answers, up, pending, index, saved, made, left, crashes,
  repo, disk, real, tmp, stage, tosend, bulk, expected, running, listed, reboots,
  resource, cache_control, reading, writing_answer, native, request, web_canceled,
  cancel_pending, posted, web_keepalive_wait, web_timer, native_canceled, exited

driverVars == <<writing, write_is_pending, keepalive_write_is_pending, data_written,
                keepalive_wait, timer, read_is_pending, underway, ahead, canceled, hung>>
sessionsVars == <<machine, n, on, srv, cli, toC, toS, file, drops>>
loadingVars == <<step, loader, sent, answers, up, pending, index, saved, made, left, crashes>>
updateVars == <<repo, disk, real, tmp, stage, tosend, bulk, expected, running, listed, reboots>>
webVars == <<resource, cache_control, reading, writing_answer, native, request, web_canceled,
             cancel_pending, posted, web_keepalive_wait, web_timer, native_canceled, exited>>

-----------------------------------------------------------------------------
\* A message like tasks_list: a list of tasks, each with a list of coefficients, each
\* with a number, and a text.
SomeFields == (<<>> :> <<"structs", "array">>) @@ (<<1>> :> <<"structs">>)
              @@ (<<1, 1>> :> <<"scalar">>)

OtherEnd(e) == 3 - e
Keepalives == INSTANCE Driver WITH Ends <- Sides, Other <- OtherEnd

\* One peer: a task whose model the peer does not have, one it refuses, and two it takes.
\* Two peers of one machine, of which the second takes bulk.msg from the first.
SomeMachines ==
  {[peers |-> {"p1"}, clones |-> {}, schedule |-> <<"unknown", "refused", "a", "b">>,
    unknown |-> {<<"p1", "unknown">>}, refused |-> {<<"p1", "refused">>},
    window |-> 2, drops |-> 2],
   [peers |-> {"p1", "p2"}, clones |-> {"p2"}, schedule |-> <<"a">>,
    unknown |-> {}, refused |-> {}, window |-> 1, drops |-> 0]}

Serving == INSTANCE Sessions

Tasks == INSTANCE Loading

Updating == INSTANCE Update

Web == INSTANCE WebFrontEnd WITH
  writing <- writing_answer, canceled <- web_canceled, keepalive_wait <- web_keepalive_wait,
  timer <- web_timer

-----------------------------------------------------------------------------
MCInit ==
  /\ part \in Parts
  /\ Init /\ Keepalives!Init /\ Tasks!Init /\ Updating!Init /\ Web!Init
  /\ Serving!Init
  /\ part # "sessions" => file = Missing /\ machine = CHOOSE m \in Machines : TRUE

MCNext ==
  /\ \/ part = "messages" /\ Next
        /\ UNCHANGED <<driverVars, sessionsVars, loadingVars, updateVars, webVars>>
     \/ part = "driver" /\ Keepalives!Next
        /\ UNCHANGED <<vars, sessionsVars, loadingVars, updateVars, webVars>>
     \/ part = "sessions" /\ Serving!Next
        /\ UNCHANGED <<vars, driverVars, loadingVars, updateVars, webVars>>
     \/ part = "loading" /\ Tasks!Next
        /\ UNCHANGED <<vars, driverVars, sessionsVars, updateVars, webVars>>
     \/ part = "update" /\ Updating!Next
        /\ UNCHANGED <<vars, driverVars, sessionsVars, loadingVars, webVars>>
     \/ part = "web" /\ Web!Next
        /\ UNCHANGED <<vars, driverVars, sessionsVars, loadingVars, updateVars>>
  /\ UNCHANGED part

everything == <<vars, driverVars, sessionsVars, loadingVars, updateVars, webVars, part>>

MCSpec == MCInit /\ [][MCNext]_everything
          /\ (part = "sessions" => Serving!Fairness)

\* Keepalives!OneWriteAtATime: the socket has one write at a time.
OneWriteAtATime == Keepalives!OneWriteAtATime

\* Keepalives!AliveIsKept: ends that are alive and in time do not give each other up.
AliveIsKept == Keepalives!AliveIsKept

\* Serving!AnswersFit: no answer is taken for the answer to something else.
AnswersFit == Serving!AnswersFit

\* Serving!ReportsAreOfTheTask: reports stem from the bulk of their task.
ReportsAreOfTheTask == Serving!ReportsAreOfTheTask

\* Serving!Served: a peer that may take the task is given it again and again.
Served == part = "sessions" => Serving!Served

\* Tasks!DirectoriesAreAccountedFor: what pending.txt names is whole, nothing else stays.
DirectoriesAreAccountedFor == Tasks!DirectoriesAreAccountedFor

\* Updating!UpdaterIsKept: one whole updater is on the disk.
UpdaterIsKept == Updating!UpdaterIsKept

\* Updating!ProcessorsAreCurrent: what runs is whole and current.
ProcessorsAreCurrent == Updating!ProcessorsAreCurrent

\* Web!AnswersInTurn: the browser is answered what it has asked, and told what fails.
AnswersInTurn == Web!AnswersInTurn
=============================================================================
