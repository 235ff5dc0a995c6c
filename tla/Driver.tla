-------------------------------- MODULE Driver --------------------------------
(***************************************************************************)
(* The network driver (async_driver_detail, io_driver.h) at both ends of a *)
(* connection: reads and writes with one callback each, and keepalives,    *)
(* which share the socket with the messages and are invisible above.       *)
(* Time: the keepalive timers of the two ends run at the same rate, and to *)
(* write and to read a message takes no time compared with their period.   *)
(* (They first wait for a longer time, the same at both ends.)             *)
(***************************************************************************)
EXTENDS Naturals, Sequences

CONSTANTS Ends, Other(_), MaxUnderWay   \* bound: messages under way to an end

VARIABLES
  writing,      \* the async_writes at an end that have not ended yet, of what
  write_is_pending, keepalive_write_is_pending,
  data_written, \* data_written_inplaceof_keepalive_between_timeouts
  keepalive_wait,
  timer,        \* keepalive_timer is pending
  read_is_pending,
  underway,     \* messages on their way to an end
  ahead,        \* periods of an end that the other has not had yet
  canceled,
  hung          \* an end that does nothing more, and does not close its connection

vars == <<writing, write_is_pending, keepalive_write_is_pending, data_written, keepalive_wait,
          timer, read_is_pending, underway, ahead, canceled, hung>>
writes == <<writing, write_is_pending, keepalive_write_is_pending, data_written>>
reads == <<read_is_pending, underway>>
clock == <<keepalive_wait, timer, ahead>>

-----------------------------------------------------------------------------
\* The socket has one more write to do.
Begun(e, what) == writing' = [writing EXCEPT ![e] = Append(@, what)]

\* Mutant of Write: it does not wait for a keepalive to be written.
WriteAtOnce(e) ==
  /\ ~canceled[e] /\ ~write_is_pending[e]
  /\ write_is_pending' = [write_is_pending EXCEPT ![e] = TRUE]
  /\ Begun(e, "data")
  /\ UNCHANGED <<keepalive_write_is_pending, data_written, reads, clock, canceled>>

\* write(): while a keepalive is being written, on_write_keepalive begins the write.
Write(e) ==
  /\ ~canceled[e] /\ ~write_is_pending[e]
  /\ write_is_pending' = [write_is_pending EXCEPT ![e] = TRUE]
  /\ IF keepalive_write_is_pending[e] THEN UNCHANGED writing ELSE Begun(e, "data")
  /\ UNCHANGED <<keepalive_write_is_pending, data_written, reads, clock, canceled>>

\* What async_write does: the bytes are with the other end's socket, the handler is due.
Sent(e) ==
  /\ writing[e] # <<>>
  /\ Len(underway[Other(e)]) < MaxUnderWay
  /\ underway' = [underway EXCEPT ![Other(e)] = Append(@, Head(writing[e]))]

\* on_write; the callback may write again.
OnWrite(e) ==
  /\ ~canceled[e] /\ Sent(e) /\ Head(writing[e]) = "data"
  /\ writing' = [writing EXCEPT ![e] = Tail(@)]
  /\ write_is_pending' = [write_is_pending EXCEPT ![e] = FALSE]
  /\ data_written' = [data_written EXCEPT ![e] = TRUE]
  /\ UNCHANGED <<keepalive_write_is_pending, read_is_pending, clock, canceled>>

\* on_write_keepalive: a write that came meanwhile is begun, and the timer.
OnWriteKeepalive(e) ==
  /\ ~canceled[e] /\ Sent(e) /\ Head(writing[e]) = "keepalive"
  /\ keepalive_write_is_pending' = [keepalive_write_is_pending EXCEPT ![e] = FALSE]
  /\ writing' = [writing EXCEPT ![e] = IF write_is_pending[e] THEN <<"data">>
                                        ELSE <<>>]
  /\ timer' = [timer EXCEPT ![e] = TRUE]
  /\ UNCHANGED <<write_is_pending, data_written, keepalive_wait, read_is_pending, ahead, canceled>>

\* read(), and the same after a keepalive (action_reading).
Read(e) ==
  /\ ~canceled[e] /\ ~read_is_pending[e]
  /\ read_is_pending' = [read_is_pending EXCEPT ![e] = TRUE]
  /\ UNCHANGED <<writes, underway, clock, canceled>>

\* on_peek, and on_read: of a keepalive nobody hears.
OnRead(e) ==
  /\ ~canceled[e] /\ read_is_pending[e] /\ underway[e] # <<>>
  /\ keepalive_wait' = [keepalive_wait EXCEPT ![e] = 0]
  /\ read_is_pending' = [read_is_pending EXCEPT ![e] = Head(underway[e]) = "keepalive"]
  /\ underway' = [underway EXCEPT ![e] = Tail(@)]
  /\ UNCHANGED <<writes, timer, ahead, canceled>>

-----------------------------------------------------------------------------
\* cancel: nothing more is heard of the driver, its handlers return at once.
Cancel(e) ==
  /\ canceled' = [canceled EXCEPT ![e] = TRUE]
  /\ write_is_pending' = [write_is_pending EXCEPT ![e] = FALSE]
  /\ read_is_pending' = [read_is_pending EXCEPT ![e] = FALSE]
  /\ timer' = [timer EXCEPT ![e] = FALSE]
  /\ writing' = [writing EXCEPT ![e] = <<>>]
  /\ UNCHANGED <<keepalive_write_is_pending, data_written, underway, keepalive_wait, ahead>>

\* A timeout is due: this end is not a period ahead, and what was sent in the periods
\* before has been read.
InTime(e) ==
  /\ ahead[e] = 0
  /\ ahead[Other(e)] = 0 /\ ~hung[Other(e)] => \A end \in Ends : writing[end] = <<>> /\ underway[end] = <<>>

Period(e) == ahead' = IF ahead[Other(e)] > 0 \/ hung[Other(e)] THEN [end \in Ends |-> 0]
                      ELSE [ahead EXCEPT ![e] = 1]

\* on_keepalive_timeout.  When a keepalive is still being written nothing happens, and
\* on_write_keepalive begins the timer again.

\* Mutant of WrittenBefore: the flag that stands for a keepalive is not reset.
StillWritten(e) == data_written

WrittenBefore(e) == [data_written EXCEPT ![e] = FALSE]
Quiet(e) == ~write_is_pending[e] /\ ~data_written[e]

OnKeepaliveTimeout(e) ==
  /\ ~canceled[e] /\ timer[e] /\ ~keepalive_write_is_pending[e]
  /\ InTime(e)
  /\ IF keepalive_wait[e] = 3
     THEN Cancel(e)
     ELSE /\ Period(e)
          /\ keepalive_wait' = [keepalive_wait EXCEPT ![e] = @ + 1]
          /\ IF Quiet(e)
             THEN /\ keepalive_write_is_pending' = [keepalive_write_is_pending EXCEPT ![e] = TRUE]
                  /\ Begun(e, "keepalive")
                  /\ timer' = [timer EXCEPT ![e] = FALSE]
                  /\ UNCHANGED data_written
             ELSE /\ data_written' = WrittenBefore(e)
                  /\ UNCHANGED <<keepalive_write_is_pending, writing, timer>>
          /\ UNCHANGED <<write_is_pending, reads, canceled>>

Hang(e) ==
  /\ \A end \in Ends : ~hung[end]
  /\ hung' = [hung EXCEPT ![e] = TRUE]
  /\ UNCHANGED <<writes, reads, clock, canceled>>

Init ==
  /\ writing = [e \in Ends |-> <<>>] /\ underway = [e \in Ends |-> <<>>]
  /\ write_is_pending = [e \in Ends |-> FALSE]
  /\ keepalive_write_is_pending = [e \in Ends |-> FALSE]
  /\ data_written = [e \in Ends |-> FALSE] /\ keepalive_wait = [e \in Ends |-> 0]
  /\ timer = [e \in Ends |-> TRUE] /\ read_is_pending = [e \in Ends |-> TRUE]
  /\ ahead = [e \in Ends |-> 0]
  /\ canceled = [e \in Ends |-> FALSE] /\ hung = canceled

Live(e) == /\ ~hung[e]
           /\ \/ Write(e) \/ OnWrite(e) \/ OnWriteKeepalive(e) \/ Read(e) \/ OnRead(e)
              \/ OnKeepaliveTimeout(e)
           /\ UNCHANGED hung
Next == \E e \in Ends : Live(e) \/ Hang(e)
Spec == Init /\ [][Next]_vars

-----------------------------------------------------------------------------
\* The socket has one write at a time, although a message may be written at any time and
\* keepalives are; and a message that is to be written is under way or comes next.
OneWriteAtATime ==
  \A e \in Ends : /\ Len(writing[e]) <= 1
                  /\ write_is_pending[e] => writing[e] # <<>>

\* Two ends that are alive and in time never give each other up, although messages are
\* sent instead of keepalives and the ends' periods are not in step.
AliveIsKept == \A e \in Ends : canceled[e] => hung[Other(e)]
=============================================================================
