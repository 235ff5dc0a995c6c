------------------------------ MODULE WebFrontEnd ------------------------------
(***************************************************************************)
(* One connection of the web front end (netcpu/http): requests of a        *)
(* browser, answered from files or by an exchange with the server of       *)
(* netcpu, over one connection to it each (http_adapter_driver).  What     *)
(* keeps the object alive are the handlers that are outstanding.           *)
(***************************************************************************)
EXTENDS Naturals, Sequences

VARIABLES
  resource,        \* user_key: what answers the present kind of requests; "none" if there is none
  cache_control,   \* "public", "no-cache"
  reading,         \* what the browser is awaited for: "none", "handshake", "header", "body", "rest"
  writing,         \* "none", "answer", "headers" of a file, the "error" that is the last answer
  native,          \* <<>>, or the outstanding exchange: [request, of, step]
  request,         \* the request at hand (one of two, in turn)
  canceled, cancel_pending, posted,   \* canceled_; cancel_pending; on_cancel handlers posted
  keepalive_wait, timer,
  native_canceled, exited

vars == <<resource, cache_control, reading, writing, native, request, canceled, cancel_pending,
          posted, keepalive_wait, timer, native_canceled, exited>>
connectionVars == <<keepalive_wait, timer, exited>>

Commands == {"get_tasks_list", "move_task_in_list", "delete_task", "get_dataset_csv"}

\* What is written to and read from the server, in order.
Exchange(of) ==
  CASE of = "version" -> <<"write">>
    [] of = "task_loader_detail" -> <<"write", "write", "read", "write", "write", "write", "read">>
    [] OTHER -> <<"write", "read">>      \* Commands, task_loader

-----------------------------------------------------------------------------
\* What a handler does at its end: each sets resource, cache_control, writing, native,
\* canceled, cancel_pending, posted and native_canceled.
Kept == UNCHANGED <<canceled, cancel_pending, posted, native_canceled>>

\* Mutant of Abandoned: the cancel that has been posted is left to be.
AbandonedNot(pending) == pending

\* abandon_cancel, of on_native_protocol_exception, on_handshake and on_read.
Abandoned(pending) == FALSE

\* An exception: it is told, and the connection closed once that is written.  (r is the
\* resource that remains.)
Tell(r) ==
  /\ resource' = r /\ writing' = "error" /\ native' = <<>>
  /\ cache_control' = IF r = resource THEN cache_control ELSE "no-cache"
  /\ cancel_pending' = Abandoned(cancel_pending)
  /\ UNCHANGED <<canceled, posted, native_canceled>>

\* "delete this": the destructor of io_wrapper cancels both drivers, the one of the
\* browser later.
Deleted ==
  /\ resource' = "none" /\ cache_control' = "no-cache" /\ writing' = writing /\ native' = <<>>
  /\ native_canceled' = TRUE
  /\ IF canceled THEN UNCHANGED <<cancel_pending, posted>>
     ELSE cancel_pending' = TRUE /\ posted' = posted + 1
  /\ UNCHANGED canceled

\* Both of these: the constructor of task_loader_detail gives up, which has become the
\* resource by then.
DeletedAndTold ==
  /\ resource' = "none" /\ cache_control' = "no-cache" /\ writing' = "error" /\ native' = <<>>
  /\ native_canceled' = TRUE /\ posted' = IF canceled THEN posted ELSE posted + 1
  /\ cancel_pending' = Abandoned(~canceled) /\ UNCHANGED canceled

Answer(r, how) ==
  /\ resource' = r /\ cache_control' = IF r = resource THEN cache_control ELSE "no-cache"
  /\ writing' = how /\ native' = <<>> /\ Kept

Ask(r, of) ==
  /\ resource' = r /\ cache_control' = IF r = resource THEN cache_control ELSE "no-cache"
  /\ native' = [request |-> request', of |-> of, step |-> 1]
  /\ writing' = writing /\ Kept

Nothing == UNCHANGED <<resource, cache_control, writing, canceled, cancel_pending, posted,
                       native_canceled>> /\ native' = <<>>

-----------------------------------------------------------------------------
Alive == ~exited /\ ~canceled

\* A handler that was called although the driver is canceled returns; so does one that is
\* called with an error: nothing is outstanding in its place.
BrowserGone ==
  /\ ~exited
  /\ \/ reading # "none" /\ reading' = "none" /\ UNCHANGED writing
     \/ writing \in {"answer", "headers"} /\ writing' = "none" /\ UNCHANGED reading
  /\ UNCHANGED <<resource, cache_control, native, request, canceled, cancel_pending, posted,
                 native_canceled, connectionVars>>
ServerGone ==
  /\ ~exited /\ native # <<>> /\ native' = <<>>
  /\ UNCHANGED <<resource, cache_control, reading, writing, request, canceled, cancel_pending,
                 posted, native_canceled, connectionVars>>

\* on_handshake, on_http_handshake: connect to the server, and tell it the version.
Handshake ==
  /\ Alive /\ reading = "handshake" /\ reading' = "none"
  /\ UNCHANGED <<request, connectionVars>>
  /\ \/ Tell(resource) \/ Ask(resource, "version")

\* A resource has been asked for.  The present one answers if it is its own, or else
\* makes place for the one that is.
Process ==
  \/ Answer(resource, "answer")                       \* write_not_found
  \/ /\ resource' = "file" /\ cache_control' = "public"
     /\ writing' = "headers" /\ native' = <<>> /\ Kept
  \/ \E r \in Commands :
       \/ Ask(r, r)
       \/ r # "get_tasks_list" /\ Tell(r)             \* bad fields
  \/ Tell("new_task")                                 \* no such model or file
  \/ Ask("task_loader", "task_loader")                               \* model_factory::new_task

\* No model-specific argument, or a number that is none: neither is an exception of the
\* messages, and io.run ends with it.
Exits == exited' = TRUE /\ Nothing

Processed ==
  \/ Process /\ UNCHANGED exited
  \/ Exits

\* Any other line of a header or a body.
Line ==
  /\ Alive /\ reading \in {"header", "body"}
  /\ keepalive_wait' = FALSE
  /\ UNCHANGED <<resource, cache_control, reading, writing, native, request, canceled,
                 cancel_pending, posted, timer, native_canceled, exited>>

\* The last line of a header.  Without a keep-alive in it nothing is read again.
Header ==
  /\ Alive /\ reading = "header"
  /\ request' = 1 - request
  /\ \/ reading' = "none" /\ Nothing /\ UNCHANGED exited
     \/ reading' = "body" /\ Nothing /\ UNCHANGED exited
     \/ /\ cache_control = "public" /\ reading' = "none"          \* 304
        /\ Answer(resource, "answer") /\ UNCHANGED exited
     \/ reading' = "none" /\ Processed
  /\ keepalive_wait' = FALSE /\ UNCHANGED timer

\* The last boundary of a body: as long as was announced, shorter (the rest is waited
\* for, although it may have been read already), or longer (nothing is done).
Body ==
  /\ Alive /\ reading = "body" /\ UNCHANGED <<request, timer>>
  /\ \/ reading' = "none" /\ Processed
     \/ reading' = "rest" /\ Nothing /\ UNCHANGED exited
     \/ reading' = "none" /\ Nothing /\ UNCHANGED exited
  /\ keepalive_wait' = FALSE

Rest ==
  /\ Alive /\ reading = "rest" /\ reading' = "none" /\ UNCHANGED <<request, timer>>
  /\ Processed
  /\ keepalive_wait' = FALSE

\* on_read: more than max_read_capacity of a request.
TooMany ==
  /\ Alive /\ reading \in {"header", "body", "rest"} /\ reading' = "none"
  /\ writing' = "error"
  /\ UNCHANGED <<resource, cache_control, native, request, canceled, cancel_pending, posted,
                 native_canceled, connectionVars>>

-----------------------------------------------------------------------------
\* Something has been written to the server: the next step of the exchange.
NativeWritten ==
  /\ ~exited /\ ~native_canceled /\ native # <<>>
  /\ Exchange(native.of)[native.step] = "write"
  /\ IF native.of = "version" THEN native' = <<>> /\ reading' = "header"
     ELSE native' = [native EXCEPT !.step = @ + 1] /\ UNCHANGED reading
  /\ UNCHANGED <<resource, cache_control, writing, request, canceled, cancel_pending, posted,
                 native_canceled, connectionVars>>

\* The server has answered: as was hoped, or not.
Good ==
  CASE native.of \in Commands -> Answer(resource, "answer")
    [] native.of = "task_loader" ->
         \/ Tell(resource)               \* bad options for the resolutions
         \/ DeletedAndTold               \* bad options for the task
         \/ Ask("task_loader_detail", "task_loader_detail")
    [] OTHER ->
         IF native.step = 3
         THEN /\ native' = [native EXCEPT !.step = @ + 1]
              /\ UNCHANGED <<resource, cache_control, writing>> /\ Kept
         ELSE Answer("peer_connection", "answer")    \* new_taskname, on_new_in_chain
Bad ==
  CASE native.of \in Commands -> Tell(resource)
    [] native.of = "task_loader_detail" /\ native.step = 7 -> Nothing
    [] OTHER -> Deleted

NativeRead ==
  /\ ~exited /\ ~native_canceled /\ native # <<>>
  /\ Exchange(native.of)[native.step] = "read"
  /\ UNCHANGED <<reading, request, connectionVars>>
  /\ Good \/ Bad

\* on_write_common_headers, on_write: then the next request is read.
Written ==
  /\ Alive /\ writing \in {"answer", "headers"}
  /\ IF writing = "headers"
     THEN writing' = "answer" /\ UNCHANGED <<reading, keepalive_wait>>
     ELSE writing' = "none" /\ reading' = "header" /\ keepalive_wait' = FALSE
  /\ UNCHANGED <<resource, cache_control, native, request, canceled, cancel_pending, posted,
                 native_canceled, timer, exited>>

Cancels ==
  IF canceled THEN UNCHANGED <<cancel_pending, posted>>
  ELSE cancel_pending' = TRUE /\ posted' = posted + 1

\* empty_on_write: the error has been told, or could not be.
ErrorWritten ==
  /\ ~exited /\ writing = "error" /\ writing' = "none" /\ Cancels
  /\ UNCHANGED <<resource, cache_control, reading, native, request, canceled, native_canceled,
                 connectionVars>>

\* on_keepalive_timeout: nothing was read or written since the last time.
KeepaliveTimeout ==
  /\ ~exited /\ timer
  /\ IF keepalive_wait THEN timer' = FALSE /\ Cancels /\ UNCHANGED keepalive_wait
     ELSE keepalive_wait' = TRUE /\ UNCHANGED <<cancel_pending, posted, timer>>
  /\ UNCHANGED <<resource, cache_control, reading, writing, native, request, canceled,
                 native_canceled, exited>>

\* on_cancel, unless it has been abandoned.
OnCancel ==
  /\ ~exited /\ posted > 0 /\ posted' = posted - 1
  /\ IF cancel_pending THEN cancel_pending' = FALSE /\ canceled' = TRUE /\ timer' = FALSE
     ELSE UNCHANGED <<cancel_pending, canceled, timer>>
  /\ UNCHANGED <<resource, cache_control, reading, writing, native, request, keepalive_wait,
                 native_canceled, exited>>

\* The keepalive of the connection to the server gives it up (see Driver): it is only
\* read in the course of an exchange.
NativeGivenUp ==
  /\ ~exited /\ ~native_canceled /\ native_canceled' = TRUE
  /\ UNCHANGED <<resource, cache_control, reading, writing, native, request, canceled,
                 cancel_pending, posted, connectionVars>>

-----------------------------------------------------------------------------
Init ==
  /\ resource = "peer_connection" /\ cache_control = "no-cache"
  /\ reading = "handshake" /\ writing = "none" /\ native = <<>> /\ request = 0
  /\ canceled = FALSE /\ cancel_pending = FALSE /\ posted = 0
  /\ keepalive_wait = FALSE /\ timer = TRUE /\ native_canceled = FALSE /\ exited = FALSE

\* No handler holds the connection any more: it is destroyed, and another one accepted.
Outlived == reading = "none" /\ writing = "none" /\ native = <<>> /\ posted = 0
Another ==
  /\ ~exited /\ Outlived
  /\ resource' = "peer_connection" /\ cache_control' = "no-cache"
  /\ reading' = "handshake" /\ writing' = "none" /\ native' = <<>> /\ request' = 0
  /\ canceled' = FALSE /\ cancel_pending' = FALSE /\ posted' = 0
  /\ keepalive_wait' = FALSE /\ timer' = TRUE /\ native_canceled' = FALSE
  /\ UNCHANGED exited

Next ==
  \/ BrowserGone \/ ServerGone \/ Handshake \/ Line \/ Header \/ Body \/ Rest \/ TooMany
  \/ NativeWritten \/ NativeRead \/ Written \/ ErrorWritten
  \/ KeepaliveTimeout \/ OnCancel \/ NativeGivenUp \/ Another
Spec == Init /\ [][Next]_vars

-----------------------------------------------------------------------------
(* Properties.                                                              *)

\* Requests are answered in turn: there is one thing that the connection is at, to read,
\* to ask the server, or to answer; what the server is asked is for the request at hand;
\* and an error that is being told is not cut off by the cancel that the destructor of
\* what failed has posted ("abandon_cancel"), only by a browser that was given up.
AnswersInTurn ==
  /\ reading # "none" => writing = "none" /\ native = <<>>
  /\ writing # "none" => native = <<>>
  /\ native # <<>> => native.request = request
  /\ writing = "error" /\ cancel_pending => ~timer
=============================================================================
