------------------------------- MODULE Loading --------------------------------
(***************************************************************************)
(* How a task gets to the server: a controller offers it and sends it in   *)
(* five messages (converger_1/controller.h); task_loader and               *)
(* task_loader_detail (converger_1/server.h) check them and store them as  *)
(* the files of a new directory, which becomes a task when its name is     *)
(* put into pending.txt, last of all.  What becomes of tasks then is left  *)
(* to TaskManager; here they may be deleted.                               *)
(***************************************************************************)
EXTENDS Lists

CONSTANTS
  Controllers,
  MaxTasks,     \* bound: directories made in a run
  MaxCrashes,   \* bound: number of times the server dies
  NoMessage

VARIABLES
  step,      \* where in Script a controller is, 0 without a connection
  loader,      \* the server's end of the connection of each controller
  sent, answers, \* messages under way
  up,       \* the server is running
  pending,  \* the tasks in its memory
  index,    \* pending.txt
  saved,    \* task directories, each with the files that are in it
  made,     \* number of directories made so far: the last one's id
  left,     \* history: directories without an owner after a crash
  crashes

vars == <<step, loader, sent, answers, up, pending, index, saved, made, left, crashes>>
memory == <<loader, pending, up>>
disk == <<index, saved, made>>

\* What a controller writes, one message after the other, and where it reads an answer.
Script == <<"offer", "answer", "res", "meta", "answer",
            "bulk", "short_description", "dataset_meta", "answer">>

Closed == [at |-> "none", task |-> 0, out |-> NoMessage]
At(stage, t) == [at |-> stage, task |-> t, out |-> NoMessage]
Writing(stage, t, m) == [at |-> stage, task |-> t, out |-> m]

\* What load_short_description asks for when the server starts.
Needed == {"res", "meta", "bulk", "short_description"}

-----------------------------------------------------------------------------
(* Controllers.                                                            *)

Connect(c) ==
  /\ up /\ step[c] = 0 /\ loader[c] = Closed
  /\ step' = [step EXCEPT ![c] = 1] /\ loader' = [loader EXCEPT ![c] = At("offer", 0)]
  /\ sent' = [sent EXCEPT ![c] = <<>>] /\ answers' = [answers EXCEPT ![c] = <<>>]
  /\ UNCHANGED <<up, pending, disk, left, crashes>>

ControllerWrites(c) ==
  /\ step[c] # 0 /\ Script[step[c]] # "answer"
  /\ sent' = [sent EXCEPT ![c] = Append(@, Script[step[c]])]
  /\ step' = [step EXCEPT ![c] = @ + 1]
  /\ UNCHANGED <<answers, memory, disk, left, crashes>>

\* After the name of its task a controller ends, or offers the next task.
ControllerReads(c) ==
  /\ step[c] # 0 /\ Script[step[c]] = "answer" /\ answers[c] # <<>>
  /\ answers' = [answers EXCEPT ![c] = Tail(@)]
  /\ \E next \in IF Head(answers[c]) = "bad" THEN {0}
                 ELSE IF step[c] = Len(Script) THEN {0, 1} ELSE {step[c] + 1} :
       step' = [step EXCEPT ![c] = next]
  /\ UNCHANGED <<sent, memory, disk, left, crashes>>

\* Its options are wrong, it is interrupted, or it notices that the connection has ended.
ControllerEnds(c) ==
  /\ step[c] # 0
  /\ step' = [step EXCEPT ![c] = 0]
  /\ UNCHANGED <<sent, answers, memory, disk, left, crashes>>

-----------------------------------------------------------------------------
(* The server.                                                             *)

Store(t, file) == saved' = [saved EXCEPT ![t] = @ \cup {file}]
Removed(t) == [u \in DOMAIN saved \ {t} |-> saved[u]]

\* Mutant of Fails: the loader goes, but not its task.
FailsQuietly(c) ==
  /\ loader' = [loader EXCEPT ![c] = Closed]
  /\ UNCHANGED saved

\* on_error, or an exception: the loader goes, and with it its task and the directory.
Fails(c) ==
  /\ loader' = [loader EXCEPT ![c] = Closed]
  /\ saved' = Removed(loader[c].task)

\* The message a loader reads next, or an answer it writes first.
GoOn(c, stage) == loader' = [loader EXCEPT ![c] = At(stage, @.task)]
Answer(c, m, stage) == loader' = [loader EXCEPT ![c] = Writing(stage, @.task, m)]

\* peer_connection::on_task_offer; task_loader answers when the model is known.
OnTaskOffer(c) ==
  /\ loader[c].at = "offer"
  /\ Answer(c, "good", "res") \/ Answer(c, "bad", "offer")
  /\ UNCHANGED <<made, saved>>

\* task_loader::on_read.  An integer resolution that is not supported is neither
\* answered nor read on after, a floating one throws: the connection ends.
OnRes(c) ==
  /\ loader[c].at = "res"
  /\ \/ loader' = [loader EXCEPT ![c] = Closed] /\ UNCHANGED <<made, saved>>
     \/ /\ made < MaxTasks /\ made' = made + 1
        /\ \/ /\ loader' = [loader EXCEPT ![c] = At("meta", made + 1)]
              /\ saved' = [t \in DOMAIN saved \cup {made + 1} |->
                             IF t = made + 1 THEN {"res"} ELSE saved[t]]
           \/ loader' = [loader EXCEPT ![c] = Closed] /\ UNCHANGED saved   \* made and removed

\* task_loader_detail::on_read
OnMeta(c) ==
  /\ loader[c].at = "meta"
  /\ \/ Store(loader[c].task, "meta") /\ Answer(c, "good", "bulk")
     \/ Fails(c)
  /\ UNCHANGED made

\* on_bulk_read verifies the task as a whole.
OnBulk(c) ==
  /\ loader[c].at = "bulk"
  /\ \/ Store(loader[c].task, "bulk") /\ GoOn(c, "short_description")
     \/ Fails(c)
  /\ UNCHANGED made

OnShortDescription(c) ==
  /\ loader[c].at = "short_description"
  /\ \/ Store(loader[c].task, "short_description") /\ GoOn(c, "dataset_meta")
     \/ Fails(c)
  /\ UNCHANGED made

OnDatasetMeta(c) ==
  /\ loader[c].at = "dataset_meta"
  /\ Store(loader[c].task, "dataset_meta")
  /\ Answer(c, "name", "named")
  /\ UNCHANGED made

ServerReads(c) ==
  /\ loader[c].out = NoMessage /\ sent[c] # <<>> /\ Head(sent[c]) = loader[c].at
  /\ sent' = [sent EXCEPT ![c] = Tail(@)]
  /\ \/ OnTaskOffer(c) \/ OnRes(c) \/ OnMeta(c) \/ OnBulk(c)
     \/ OnShortDescription(c) \/ OnDatasetMeta(c)
  /\ UNCHANGED <<step, answers, up, pending, index, left, crashes>>

\* on_new_taskname_write: markpending.  When the task is the first it is activated,
\* which may throw: then it goes again, but stays in pending.txt.  In the end a
\* peer_connection is made that reads nothing, so the connection ends.
MarkPending(c) ==
  /\ index' = Append(pending, loader[c].task)
  /\ \/ /\ pending' = Append(pending, loader[c].task)
        /\ loader' = [loader EXCEPT ![c] = Closed]
        /\ UNCHANGED saved
     \/ pending = <<>> /\ Fails(c) /\ UNCHANGED pending

ServerWritten(c) ==
  /\ loader[c].out # NoMessage /\ step[c] # 0
  /\ answers' = [answers EXCEPT ![c] = Append(@, loader[c].out)]
  /\ IF loader[c].at = "named" THEN MarkPending(c)
     ELSE GoOn(c, loader[c].at) /\ UNCHANGED <<pending, index, saved>>
  /\ UNCHANGED <<step, sent, up, made, left, crashes>>

\* The controller has gone.
ServerError(c) ==
  /\ step[c] = 0 /\ loader[c] # Closed
  /\ Fails(c)
  /\ UNCHANGED <<step, sent, answers, up, pending, index, made, left, crashes>>

\* on_delete_task
Delete(t) ==
  /\ t \in Members(pending)
  /\ pending' = Without(pending, {t}) /\ index' = Without(pending, {t})
  /\ saved' = Removed(t)
  /\ UNCHANGED <<step, loader, sent, answers, up, made, left, crashes>>

-----------------------------------------------------------------------------
\* The process ends: by itself (std::runtime_error is not caught) or not, and in the
\* middle of a handler, too: with a directory made, or removed, and nothing done yet.
\* (What the ids come to then is TaskManager's.)
Crash ==
  /\ up /\ crashes < MaxCrashes /\ crashes' = crashes + 1
  /\ up' = FALSE /\ pending' = <<>> /\ loader' = [c \in Controllers |-> Closed]
  /\ \/ UNCHANGED saved
     \/ \E t \in Members(pending) : saved' = Removed(t)
     \/ \E c \in Controllers : loader[c].at = "res" /\ made < MaxTasks
                               /\ saved' = [t \in DOMAIN saved \cup {made + 1} |->
                                              IF t = made + 1 THEN {} ELSE saved[t]]
  /\ made' = IF made + 1 \in DOMAIN saved' THEN made + 1 ELSE made
  /\ left' = left \cup (DOMAIN saved' \ Members(index))
  /\ UNCHANGED <<step, sent, answers, index>>

\* run: a directory that pending.txt names and that is not whole ends the server.
Start ==
  /\ ~up
  /\ \A t \in Members(index) \cap DOMAIN saved : Needed \subseteq saved[t]
  /\ up' = TRUE
  /\ pending' = Only(index, DOMAIN saved)
  /\ index' = pending'
  /\ UNCHANGED <<step, loader, sent, answers, saved, made, left, crashes>>

Init ==
  /\ step = [c \in Controllers |-> 0] /\ loader = [c \in Controllers |-> Closed]
  /\ sent = [c \in Controllers |-> <<>>] /\ answers = [c \in Controllers |-> <<>>]
  /\ up = TRUE /\ pending = <<>> /\ index = <<>> /\ saved = <<>>
  /\ made = 0 /\ left = {} /\ crashes = 0

Next ==
  \/ \E c \in Controllers :
       \/ Connect(c) \/ ControllerWrites(c) \/ ControllerReads(c) \/ ControllerEnds(c)
       \/ ServerReads(c) \/ ServerWritten(c) \/ ServerError(c)
  \/ \E t \in 1 .. MaxTasks : Delete(t)
  \/ Crash \/ Start

Spec == Init /\ [][Next]_vars

-----------------------------------------------------------------------------
\* However loading is cut short: a directory that pending.txt names is whole, so that the
\* server can start again (server.h:2358), and any other belongs to a loader, unless the
\* server died while it did.
DirectoriesAreAccountedFor ==
  \A t \in DOMAIN saved :
    IF t \in Members(index) THEN Needed \subseteq saved[t]
    ELSE t \in left \/ \E c \in Controllers : loader[c].task = t
=============================================================================
