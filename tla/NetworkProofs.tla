---------------------------- MODULE NetworkProofs -----------------------------
(***************************************************************************)
(* Proofs about what carries the computation: the network driver, the      *)
(* update of the programs, the loading of tasks, the web front end and the *)
(* sessions of processing peers, for any numbers of messages under way,    *)
(* versions, controllers, tasks, crashes and reboots, and any machines.    *)
(***************************************************************************)
EXTENDS MCNetwork, ListProofs

-----------------------------------------------------------------------------
(* The driver.  The argument counts timeouts.  An end forgets its timeouts *)
(* when it reads; at its fourth it gives up.  What it has counted is       *)
(* bounded by three things: whether its period is the one ahead, whether   *)
(* something is on its way to it, and whether the other end, having        *)
(* written a message, may skip one keepalive.                              *)


\* The two ends of a connection.
TwoEnds ==
  \A e \in Sides : /\ OtherEnd(e) \in Sides /\ OtherEnd(e) # e /\ OtherEnd(OtherEnd(e)) = e
                  /\ \A f \in Sides : f # e => f = OtherEnd(e)

DriverTypes ==
  /\ writing \in [Sides -> {<<>>, <<"data">>, <<"keepalive">>}]
  /\ underway \in [Sides -> Seq({"data", "keepalive"})]
  /\ write_is_pending \in [Sides -> BOOLEAN]
  /\ keepalive_write_is_pending \in [Sides -> BOOLEAN]
  /\ data_written \in [Sides -> BOOLEAN]
  /\ keepalive_wait \in [Sides -> 0..3]
  /\ timer \in [Sides -> BOOLEAN] /\ read_is_pending \in [Sides -> BOOLEAN]
  /\ ahead \in [Sides -> {0, 1}]
  /\ canceled \in [Sides -> BOOLEAN] /\ hung \in [Sides -> BOOLEAN]

\* What an end's flags say of what its socket is writing.
FlagsTell(e) ==
  /\ canceled[e] => writing[e] = <<>> /\ ~write_is_pending[e]
  /\ ~canceled[e] =>
       /\ write_is_pending[e] => writing[e] # <<>>
       /\ keepalive_write_is_pending[e] <=> writing[e] = <<"keepalive">>
       /\ writing[e] = <<"data">> => write_is_pending[e]

\* Something is on its way to an end.
Expected(e) == underway[e] # <<>> \/ writing[OtherEnd(e)] # <<>>

\* An end has counted at most n timeouts, and one less if the other may skip a keepalive.
Within(e, most) == keepalive_wait[e] < most \/ (keepalive_wait[e] = most
      /\ ~data_written[OtherEnd(e)])

\* Where both have had equally many periods, where this end is ahead, and where the other is.
OnTime(e) ==
  /\ ahead[e] = 0 /\ ahead[OtherEnd(e)] = 0 => Expected(e) \/ Within(e, 2)
  /\ ahead[e] = 1 => ahead[OtherEnd(e)] = 0 /\ (Expected(e) \/ Within(e, 3))
  /\ ahead[OtherEnd(e)] = 1 => keepalive_wait[e] < 3 /\ (Expected(e) \/ Within(e, 1))

NobodyHung == \A e \in Sides : ~hung[e]

DriverInv ==
  /\ DriverTypes
  /\ \A e \in Sides : FlagsTell(e)
  /\ Keepalives!AliveIsKept
  /\ NobodyHung => \A e \in Sides : OnTime(e)

-----------------------------------------------------------------------------
LEMMA SidesAreTwo == TwoEnds
BY NetworkAssumption DEF TwoEnds, OtherEnd

\* An end and the one opposite are all the ends there are.
LEMMA Opposite ==
  ASSUME TwoEnds, NEW e \in Sides
  PROVE  \E o \in Sides : /\ o # e /\ OtherEnd(e) = o /\ OtherEnd(o) = e
                         /\ \A f \in Sides : f = e \/ f = o
BY DEF TwoEnds

\* A message more for the socket's one write: nothing was being written before.
LEMMA OneWrite ==
  ASSUME DriverTypes, NEW e \in Sides, writing[e] = <<>>, NEW what \in {"data", "keepalive"},
         Keepalives!Begun(e, what)
  PROVE  /\ writing' \in [Sides -> {<<>>, <<"data">>, <<"keepalive">>}]
         /\ writing'[e] = <<what>>
         /\ \A f \in Sides : f # e => writing'[f] = writing[f]
<1>1. Append(writing[e], what) = <<what>>
  OBVIOUS
<1>2. writing' = [writing EXCEPT ![e] = <<what>>]
  BY <1>1 DEF Keepalives!Begun
<1> QED BY <1>2 DEF DriverTypes

\* What is sent is then under way to the other end.
LEMMA Delivery ==
  ASSUME DriverTypes, NEW e \in Sides, NEW o \in Sides, OtherEnd(e) = o, Keepalives!Sent(e)
  PROVE  /\ underway' \in [Sides -> Seq({"data", "keepalive"})]
         /\ underway'[o] # <<>>
         /\ \A f \in Sides : f # o => underway'[f] = underway[f]
         /\ writing[e] = <<"data">> \/ writing[e] = <<"keepalive">>
<1>1. writing[e] = <<"data">> \/ writing[e] = <<"keepalive">>
  BY DEF DriverTypes, Keepalives!Sent
<1>2. PICK what \in {"data", "keepalive"} : what = Head(writing[e])
  BY <1>1
<1>3. underway' = [underway EXCEPT ![o] = Append(underway[o], what)]
  BY <1>2 DEF Keepalives!Sent
<1>4. underway[o] \in Seq({"data", "keepalive"})
  BY DEF DriverTypes
<1>5. /\ Append(underway[o], what) \in Seq({"data", "keepalive"})
      /\ Append(underway[o], what) # <<>>
  BY <1>4
<1> QED BY <1>1, <1>3, <1>5 DEF DriverTypes

-----------------------------------------------------------------------------
LEMMA TheyStart == ASSUME TwoEnds, Keepalives!Init PROVE DriverInv
<1>1. DriverTypes
  BY DEF Keepalives!Init, DriverTypes
<1>2. ASSUME NEW e \in Sides PROVE FlagsTell(e)
  <2>1. <<>> # <<"keepalive">> /\ <<>> # <<"data">>
    OBVIOUS
  <2> QED BY <2>1 DEF Keepalives!Init, FlagsTell
<1>3. Keepalives!AliveIsKept
  BY DEF Keepalives!Init, Keepalives!AliveIsKept
<1>4. ASSUME NEW e \in Sides PROVE OnTime(e)
  BY TwoEnds DEF Keepalives!Init, OnTime, Within, TwoEnds
<1> QED BY <1>1, <1>2, <1>3, <1>4 DEF DriverInv

\* A message to be written is expected at the other end as soon as its write has begun.
LEMMA WriteKeeps ==
  ASSUME TwoEnds, DriverInv, NEW e \in Sides, Keepalives!Write(e), UNCHANGED hung
  PROVE  DriverInv'
<1> USE DEF DriverInv
<1>0. PICK o \in Sides : /\ o # e /\ OtherEnd(e) = o /\ OtherEnd(o) = e
                        /\ \A f \in Sides : f = e \/ f = o
  BY Opposite
<1>1. UNCHANGED <<keepalive_write_is_pending, data_written, Keepalives!reads, Keepalives!clock,
            canceled, hung>>
  BY DEF Keepalives!Write
<1>2. /\ write_is_pending' = [write_is_pending EXCEPT ![e] = TRUE]
      /\ writing' \in [Sides -> {<<>>, <<"data">>, <<"keepalive">>}]
      /\ writing'[o] = writing[o]
      /\ IF keepalive_write_is_pending[e] THEN writing'[e] = writing[e]
         ELSE writing'[e] = <<"data">>
  <2>1. CASE keepalive_write_is_pending[e]
    BY <2>1, <1>0 DEF Keepalives!Write, DriverTypes
  <2>2. CASE ~keepalive_write_is_pending[e]
    <3>1. writing[e] = <<>>
      BY <2>2 DEF Keepalives!Write, FlagsTell, DriverTypes
    <3> QED BY <2>2, <3>1, <1>0, OneWrite DEF Keepalives!Write
  <2> QED BY <2>1, <2>2
<1>3. DriverTypes'
  BY <1>1, <1>2 DEF DriverTypes, Keepalives!reads, Keepalives!clock
<1>4. ASSUME NEW f \in Sides PROVE FlagsTell(f)'
  <2>1. <<>> # <<"keepalive">> /\ <<>> # <<"data">> /\ <<"keepalive">> # <<"data">>
    OBVIOUS
  <2>2. ~canceled[e]
    BY DEF Keepalives!Write
  <2>3. FlagsTell(e) /\ FlagsTell(o)
    OBVIOUS
  <2> QED BY <1>0, <1>1, <1>2, <2>1, <2>2, <2>3 DEF FlagsTell, DriverTypes
<1>5. Keepalives!AliveIsKept'
  BY <1>1 DEF Keepalives!AliveIsKept
<1>6. ASSUME NobodyHung', NEW f \in Sides PROVE OnTime(f)'
  <2>1. OnTime(f)
    BY <1>6, <1>1 DEF NobodyHung
  <2>2. Expected(f) => Expected(f)'
    <3>1. writing[e] # <<>> => writing'[e] # <<>>
      BY <1>2
    <3> QED BY <1>0, <1>1, <1>2, <3>1 DEF Expected, Keepalives!reads
  <2> QED BY <1>1, <2>1, <2>2 DEF OnTime, Within, Keepalives!clock
<1> QED BY <1>3, <1>4, <1>5, <1>6

\* A message that has been written may stand for a keepalive, but it is under way itself.
LEMMA OnWriteKeeps ==
  ASSUME TwoEnds, DriverInv, NEW e \in Sides, Keepalives!OnWrite(e), UNCHANGED hung
  PROVE  DriverInv'
<1> USE DEF DriverInv
<1>0. PICK o \in Sides : /\ o # e /\ OtherEnd(e) = o /\ OtherEnd(o) = e
                        /\ \A f \in Sides : f = e \/ f = o
  BY Opposite
<1>1. UNCHANGED <<keepalive_write_is_pending, read_is_pending, Keepalives!clock, canceled, hung>>
  BY DEF Keepalives!OnWrite
<1>2. /\ underway' \in [Sides -> Seq({"data", "keepalive"})]
      /\ underway'[o] # <<>>
      /\ underway'[e] = underway[e]
      /\ writing[e] = <<"data">>
  <2>1. Keepalives!Sent(e) /\ Head(writing[e]) = "data"
    BY DEF Keepalives!OnWrite
  <2>2. writing[e] # <<"keepalive">>
    BY <2>1
  <2> QED BY <1>0, <2>1, <2>2, Delivery
<1>3. /\ writing' = [writing EXCEPT ![e] = <<>>]
      /\ write_is_pending' = [write_is_pending EXCEPT ![e] = FALSE]
      /\ data_written' = [data_written EXCEPT ![e] = TRUE]
  BY <1>2 DEF Keepalives!OnWrite
<1>4. DriverTypes'
  BY <1>1, <1>2, <1>3 DEF DriverTypes, Keepalives!clock
<1>5. ASSUME NEW f \in Sides PROVE FlagsTell(f)'
  <2>1. <<>> # <<"keepalive">> /\ <<>> # <<"data">> /\ <<"keepalive">> # <<"data">>
    OBVIOUS
  <2>2. ~canceled[e]
    BY DEF Keepalives!OnWrite
  <2>3. FlagsTell(e) /\ FlagsTell(o)
    OBVIOUS
  <2> QED BY <1>0, <1>1, <1>2, <1>3, <2>1, <2>2, <2>3 DEF FlagsTell, DriverTypes
<1>6. Keepalives!AliveIsKept'
  BY <1>1 DEF Keepalives!AliveIsKept
<1>7. ASSUME NobodyHung', NEW f \in Sides PROVE OnTime(f)'
  <2>1. OnTime(f)
    BY <1>7, <1>1 DEF NobodyHung
  <2>2. CASE f = o
    BY <1>0, <1>1, <1>2, <2>1, <2>2 DEF OnTime, Expected, Keepalives!clock
  <2>3. CASE f = e
    <3>1. Expected(e) => Expected(e)'
      BY <1>0, <1>2, <1>3 DEF Expected, DriverTypes
    <3>2. data_written'[o] = data_written[o]
      BY <1>0, <1>3 DEF DriverTypes
    <3> QED BY <1>0, <1>1, <2>1, <2>3, <3>1, <3>2 DEF OnTime, Within, Keepalives!clock
  <2> QED BY <1>0, <2>2, <2>3
<1> QED BY <1>4, <1>5, <1>6, <1>7

\* A message that was waiting for a keepalive to be written is next, and no other was begun.
LEMMA OnWriteKeepaliveKeeps ==
  ASSUME TwoEnds, DriverInv, NEW e \in Sides, Keepalives!OnWriteKeepalive(e), UNCHANGED hung
  PROVE  DriverInv'
<1> USE DEF DriverInv
<1>0. PICK o \in Sides : /\ o # e /\ OtherEnd(e) = o /\ OtherEnd(o) = e
                        /\ \A f \in Sides : f = e \/ f = o
  BY Opposite
<1>1. UNCHANGED <<write_is_pending, data_written, keepalive_wait, read_is_pending, ahead,
                  canceled, hung>>
  BY DEF Keepalives!OnWriteKeepalive
<1>2. /\ underway' \in [Sides -> Seq({"data", "keepalive"})]
      /\ underway'[o] # <<>>
      /\ underway'[e] = underway[e]
  BY <1>0, Delivery DEF Keepalives!OnWriteKeepalive
<1>3. /\ writing' = [writing EXCEPT ![e] = IF write_is_pending[e] THEN <<"data">> ELSE <<>>]
      /\ keepalive_write_is_pending' = [keepalive_write_is_pending EXCEPT ![e] = FALSE]
      /\ timer' = [timer EXCEPT ![e] = TRUE]
  BY DEF Keepalives!OnWriteKeepalive
<1>4. DriverTypes'
  BY <1>1, <1>2, <1>3 DEF DriverTypes
<1>5. ASSUME NEW f \in Sides PROVE FlagsTell(f)'
  <2>1. <<>> # <<"keepalive">> /\ <<>> # <<"data">> /\ <<"keepalive">> # <<"data">>
    OBVIOUS
  <2>2. ~canceled[e]
    BY DEF Keepalives!OnWriteKeepalive
  <2>3. FlagsTell(e) /\ FlagsTell(o)
    OBVIOUS
  <2> QED BY <1>0, <1>1, <1>3, <2>1, <2>2, <2>3 DEF FlagsTell, DriverTypes
<1>6. Keepalives!AliveIsKept'
  BY <1>1 DEF Keepalives!AliveIsKept
<1>7. ASSUME NobodyHung', NEW f \in Sides PROVE OnTime(f)'
  <2>1. OnTime(f)
    BY <1>7, <1>1 DEF NobodyHung
  <2>2. CASE f = o
    BY <1>0, <1>1, <1>2, <2>1, <2>2 DEF OnTime, Expected
  <2>3. CASE f = e
    <3>1. Expected(e) => Expected(e)'
      BY <1>0, <1>2, <1>3 DEF Expected, DriverTypes
    <3> QED BY <1>0, <1>1, <2>1, <2>3, <3>1 DEF OnTime, Within
  <2> QED BY <1>0, <2>2, <2>3
<1> QED BY <1>4, <1>5, <1>6, <1>7

LEMMA ReadKeeps ==
  ASSUME TwoEnds, DriverInv, NEW e \in Sides, Keepalives!Read(e), UNCHANGED hung
  PROVE  DriverInv'
<1>1. UNCHANGED <<Keepalives!writes, underway, Keepalives!clock, canceled, hung>>
  BY DEF Keepalives!Read
<1>2. DriverTypes'
  BY <1>1 DEF Keepalives!Read, DriverInv, DriverTypes, Keepalives!writes, Keepalives!clock
<1>3. ASSUME NEW f \in Sides PROVE FlagsTell(f)'
  BY <1>1 DEF DriverInv, FlagsTell, Keepalives!writes
<1>4. Keepalives!AliveIsKept'
  BY <1>1 DEF DriverInv, Keepalives!AliveIsKept
<1>5. ASSUME NobodyHung', NEW f \in Sides PROVE OnTime(f)'
  BY <1>1, <1>5 DEF DriverInv, NobodyHung, OnTime, Expected, Within, Keepalives!writes,
     Keepalives!clock
<1> QED BY <1>2, <1>3, <1>4, <1>5 DEF DriverInv

\* Who reads anything counts from nought again.
LEMMA OnReadKeeps ==
  ASSUME TwoEnds, DriverInv, NEW e \in Sides, Keepalives!OnRead(e), UNCHANGED hung
  PROVE  DriverInv'
<1> USE DEF DriverInv
<1>0. PICK o \in Sides : /\ o # e /\ OtherEnd(e) = o /\ OtherEnd(o) = e
                        /\ \A f \in Sides : f = e \/ f = o
  BY Opposite
<1>1. UNCHANGED <<Keepalives!writes, timer, ahead, canceled, hung>>
  BY DEF Keepalives!OnRead
<1>2. /\ keepalive_wait' = [keepalive_wait EXCEPT ![e] = 0]
      /\ underway' = [underway EXCEPT ![e] = Tail(@)]
      /\ read_is_pending' \in [Sides -> BOOLEAN]
  BY DEF Keepalives!OnRead, DriverTypes
<1>3. underway' \in [Sides -> Seq({"data", "keepalive"})]
  <2>1. underway[e] \in Seq({"data", "keepalive"}) /\ underway[e] # <<>>
    BY DEF Keepalives!OnRead, DriverTypes
  <2>2. Tail(underway[e]) \in Seq({"data", "keepalive"})
    BY <2>1
  <2> QED BY <1>2, <2>2 DEF DriverTypes
<1>4. DriverTypes'
  BY <1>1, <1>2, <1>3 DEF DriverTypes, Keepalives!writes
<1>5. ASSUME NEW f \in Sides PROVE FlagsTell(f)'
  BY <1>1 DEF FlagsTell, Keepalives!writes
<1>6. Keepalives!AliveIsKept'
  BY <1>1 DEF Keepalives!AliveIsKept
<1>7. ASSUME NobodyHung', NEW f \in Sides PROVE OnTime(f)'
  <2>1. OnTime(f)
    BY <1>7, <1>1 DEF NobodyHung
  <2>2. CASE f = o
    <3>1. underway'[o] = underway[o] /\ keepalive_wait'[o] = keepalive_wait[o]
      BY <1>0, <1>2 DEF DriverTypes
    <3> QED BY <1>0, <1>1, <2>1, <2>2, <3>1 DEF OnTime, Expected, Within, Keepalives!writes
  <2>3. CASE f = e
    <3>1. keepalive_wait'[e] = 0
      BY <1>2 DEF DriverTypes
    <3> QED BY <1>0, <1>1, <2>1, <2>3, <3>1 DEF OnTime, Within
  <2> QED BY <1>0, <2>2, <2>3
<1> QED BY <1>4, <1>5, <1>6, <1>7

\* A hung end says nothing more: from then on nothing is promised.
LEMMA HangKeeps ==
  ASSUME TwoEnds, DriverInv, NEW e \in Sides, Keepalives!Hang(e)
  PROVE  DriverInv'
<1>1. UNCHANGED <<Keepalives!writes, Keepalives!reads, Keepalives!clock, canceled>>
            /\ hung' = [hung EXCEPT ![e] = TRUE]
  BY DEF Keepalives!Hang
<1>2. DriverTypes' /\ hung'[e]
  BY <1>1 DEF DriverInv, DriverTypes, Keepalives!writes, Keepalives!reads, Keepalives!clock
<1>3. ASSUME NEW f \in Sides PROVE FlagsTell(f)'
  BY <1>1 DEF DriverInv, FlagsTell, Keepalives!writes
<1>4. Keepalives!AliveIsKept'
  BY <1>1 DEF DriverInv, Keepalives!AliveIsKept, DriverTypes, TwoEnds
<1>5. ~NobodyHung'
  BY <1>2 DEF NobodyHung
<1> QED BY <1>2, <1>3, <1>4, <1>5 DEF DriverInv

-----------------------------------------------------------------------------
\* A fourth timeout while the other end is alive: in time it does not come to that.
LEMMA NoFourthTimeout ==
  ASSUME TwoEnds, DriverInv, NobodyHung, NEW e \in Sides, Keepalives!InTime(e)
  PROVE  keepalive_wait[e] < 3
<1>0. PICK o \in Sides : /\ o # e /\ OtherEnd(e) = o /\ OtherEnd(o) = e
                        /\ \A f \in Sides : f = e \/ f = o
  BY Opposite
<1>1. OnTime(e) /\ keepalive_wait[e] \in 0..3 /\ ahead[o] \in {0, 1}
  BY DEF DriverInv, DriverTypes
<1>2. CASE ahead[o] = 1
  BY <1>0, <1>1, <1>2 DEF OnTime
<1>3. CASE ahead[o] = 0
  <2>1. ~Expected(e)
    BY <1>0, <1>3 DEF Keepalives!InTime, NobodyHung, Expected
  <2> QED BY <1>0, <1>1, <1>3, <2>1 DEF Keepalives!InTime, OnTime, Within
<1> QED BY <1>1, <1>2, <1>3

\* Who is given up is hung.
LEMMA CancelKeeps ==
  ASSUME TwoEnds, DriverInv, NEW e \in Sides, ~hung[e], UNCHANGED hung,
         Keepalives!InTime(e), keepalive_wait[e] = 3, Keepalives!Cancel(e)
  PROVE  DriverInv'
<1> USE DEF DriverInv
<1>0. PICK o \in Sides : /\ o # e /\ OtherEnd(e) = o /\ OtherEnd(o) = e
                        /\ \A f \in Sides : f = e \/ f = o
  BY Opposite
<1>1. hung[o]
  <2>1. ~NobodyHung
    BY NoFourthTimeout
  <2> QED BY <1>0, <2>1 DEF NobodyHung
<1>2. DriverTypes'
  BY DEF Keepalives!Cancel, DriverTypes
<1>3. ASSUME NEW f \in Sides PROVE FlagsTell(f)'
  <2>1. FlagsTell(f)
    OBVIOUS
  <2>2. CASE f = e
    BY <2>2 DEF Keepalives!Cancel, DriverTypes, FlagsTell
  <2>3. CASE f # e
    <3>1. /\ canceled'[f] = canceled[f] /\ writing'[f] = writing[f]
          /\ write_is_pending'[f] = write_is_pending[f]
          /\ keepalive_write_is_pending'[f] = keepalive_write_is_pending[f]
      BY <2>3 DEF Keepalives!Cancel, DriverTypes
    <3> QED BY <2>1, <3>1 DEF FlagsTell
  <2> QED BY <2>2, <2>3
<1>4. Keepalives!AliveIsKept'
  BY <1>0, <1>1 DEF Keepalives!Cancel, DriverTypes, Keepalives!AliveIsKept
<1>5. ~NobodyHung'
  BY <1>1 DEF NobodyHung
<1> QED BY <1>2, <1>3, <1>4, <1>5

\* An end's timeout that gives nobody up: it counts, and either sends a keepalive or takes
\* the message it has written for one.
Ticks(e) ==
  /\ ~canceled[e] /\ ~keepalive_write_is_pending[e]
  /\ Keepalives!Period(e)
  /\ keepalive_wait' = [keepalive_wait EXCEPT ![e] = @ + 1]
  /\ \/ /\ Keepalives!Quiet(e) /\ writing[e] = <<>>
        /\ keepalive_write_is_pending' = [keepalive_write_is_pending EXCEPT ![e] = TRUE]
        /\ writing' \in [Sides -> {<<>>, <<"data">>, <<"keepalive">>}]
        /\ writing'[e] = <<"keepalive">>
        /\ \A f \in Sides : f # e => writing'[f] = writing[f]
        /\ timer' = [timer EXCEPT ![e] = FALSE]
        /\ UNCHANGED data_written
     \/ /\ ~Keepalives!Quiet(e)
        /\ data_written' = [data_written EXCEPT ![e] = FALSE]
        /\ UNCHANGED <<keepalive_write_is_pending, writing, timer>>
  /\ UNCHANGED <<write_is_pending, Keepalives!reads, canceled, hung>>

LEMMA TimeoutTicks ==
  ASSUME DriverInv, NEW e \in Sides, Keepalives!OnKeepaliveTimeout(e), keepalive_wait[e] # 3,
        UNCHANGED hung
  PROVE  Ticks(e)
<1>1. CASE Keepalives!Quiet(e)
  <2>1. Keepalives!Begun(e, "keepalive")
    BY <1>1 DEF Keepalives!OnKeepaliveTimeout
  <2>2. writing[e] = <<>>
    <3>1. FlagsTell(e) /\ writing[e] \in {<<>>, <<"data">>, <<"keepalive">>}
      BY DEF DriverInv, DriverTypes
    <3> QED BY <1>1, <3>1 DEF Keepalives!OnKeepaliveTimeout, Keepalives!Quiet, FlagsTell
  <2>3. /\ writing' \in [Sides -> {<<>>, <<"data">>, <<"keepalive">>}]
        /\ writing'[e] = <<"keepalive">>
        /\ \A f \in Sides : f # e => writing'[f] = writing[f]
    BY <2>1, <2>2, OneWrite DEF DriverInv
  <2> QED BY <1>1, <2>2, <2>3 DEF Keepalives!OnKeepaliveTimeout, Ticks
<1>2. CASE ~Keepalives!Quiet(e)
  BY <1>2 DEF Keepalives!OnKeepaliveTimeout, Ticks, Keepalives!WrittenBefore
<1> QED BY <1>1, <1>2

LEMMA TickKeepsTypes ==
  ASSUME DriverInv, NEW e \in Sides, Ticks(e), keepalive_wait[e] # 3
  PROVE  DriverTypes'
<1>1. keepalive_wait' \in [Sides -> 0..3]
  <2>1. keepalive_wait \in [Sides -> 0..3]
    BY DEF DriverInv, DriverTypes
  <2>2. keepalive_wait[e] \in 0..3
    BY <2>1
  <2>3. keepalive_wait[e] + 1 \in 0..3
    BY <2>2
  <2> QED BY <2>1, <2>3 DEF Ticks
<1>2. ahead' \in [Sides -> {0, 1}]
  BY DEF DriverInv, DriverTypes, Ticks, Keepalives!Period
<1>3. /\ writing' \in [Sides -> {<<>>, <<"data">>, <<"keepalive">>}]
      /\ keepalive_write_is_pending' \in [Sides -> BOOLEAN]
      /\ data_written' \in [Sides -> BOOLEAN] /\ timer' \in [Sides -> BOOLEAN]
  BY DEF DriverInv, DriverTypes, Ticks
<1> QED BY <1>1, <1>2, <1>3 DEF DriverInv, DriverTypes, Ticks, Keepalives!reads

LEMMA TickKeepsFlags ==
  ASSUME DriverInv, NEW e \in Sides, Ticks(e), NEW f \in Sides
  PROVE  FlagsTell(f)'
<1>0. <<>> # <<"keepalive">> /\ <<>> # <<"data">> /\ <<"keepalive">> # <<"data">>
  OBVIOUS
<1>1. FlagsTell(f) /\ ~canceled[e]
  BY DEF DriverInv, Ticks
<1>2. UNCHANGED <<write_is_pending, canceled>>
  BY DEF Ticks
<1>3. CASE f # e
  <2>1. /\ writing'[f] = writing[f]
        /\ keepalive_write_is_pending'[f] = keepalive_write_is_pending[f]
    BY <1>3 DEF Ticks, DriverInv, DriverTypes
  <2> QED BY <1>1, <1>2, <2>1 DEF FlagsTell
<1>4. CASE f = e /\ Keepalives!Quiet(e)
  <2>1. writing'[e] = <<"keepalive">> /\ keepalive_write_is_pending'[e]
    BY <1>4 DEF Ticks, DriverInv, DriverTypes
  <2> QED BY <1>0, <1>1, <1>2, <1>4, <2>1 DEF FlagsTell
<1>5. CASE f = e /\ ~Keepalives!Quiet(e)
  BY <1>1, <1>2, <1>5 DEF Ticks, FlagsTell
<1> QED BY <1>3, <1>4, <1>5

\* Of two that are alive, the one that has had its period is ahead, or the other was.
LEMMA PeriodsAlternate ==
  ASSUME TwoEnds, DriverInv, NobodyHung, NEW e \in Sides, NEW o \in Sides,
         o # e, OtherEnd(e) = o, OtherEnd(o) = e, Keepalives!InTime(e), Keepalives!Period(e)
  PROVE  /\ ahead[e] = 0 /\ ahead'[o] = 0
         /\ ahead[o] = 0 => ahead'[e] = 1
         /\ ahead[o] = 1 => ahead'[e] = 0
<1>1. ahead[e] = 0 /\ ~hung[o] /\ ahead[o] \in {0, 1}
  BY DEF Keepalives!InTime, NobodyHung, DriverInv, DriverTypes
<1>2. CASE ahead[o] = 1
  BY <1>1, <1>2 DEF Keepalives!Period
<1>3. CASE ahead[o] = 0
  BY <1>1, <1>3 DEF Keepalives!Period, DriverInv, DriverTypes
<1> QED BY <1>1, <1>2, <1>3

\* The end whose timeout it was has counted one more.
LEMMA TickerIsOnTime ==
  ASSUME TwoEnds, DriverInv, NobodyHung, NEW e \in Sides, Keepalives!InTime(e), Ticks(e)
  PROVE  OnTime(e)'
<1>0. PICK o \in Sides : /\ o # e /\ OtherEnd(e) = o /\ OtherEnd(o) = e
                        /\ \A f \in Sides : f = e \/ f = o
  BY Opposite
<1>1. OnTime(e) /\ keepalive_wait[e] \in 0..3 /\ ahead[o] \in {0, 1}
  BY DEF DriverInv, DriverTypes
<1>2. keepalive_wait'[e] = keepalive_wait[e] + 1
  BY DEF Ticks, DriverInv, DriverTypes
<1>3. data_written'[o] = data_written[o] /\ writing'[o] = writing[o] /\ underway' = underway
  BY <1>0 DEF Ticks, Keepalives!reads, DriverInv, DriverTypes
<1>4. Expected(e)' <=> Expected(e)
  BY <1>0, <1>3 DEF Expected
<1>5. /\ ahead[e] = 0 /\ ahead'[o] = 0
      /\ ahead[o] = 0 => ahead'[e] = 1
      /\ ahead[o] = 1 => ahead'[e] = 0
  BY <1>0, PeriodsAlternate DEF Ticks
<1>6. CASE ahead[o] = 0
  <2>1. Expected(e) \/ Within(e, 2)
    BY <1>0, <1>1, <1>5, <1>6 DEF OnTime
  <2>2. Expected(e)' \/ Within(e, 3)'
    BY <1>0, <1>1, <1>2, <1>3, <1>4, <2>1 DEF Within
  <2> QED BY <1>0, <1>5, <1>6, <2>2 DEF OnTime
<1>7. CASE ahead[o] = 1
  <2>1. Expected(e) \/ Within(e, 1)
    BY <1>0, <1>1, <1>7 DEF OnTime
  <2>2. Expected(e)' \/ Within(e, 2)'
    BY <1>0, <1>1, <1>2, <1>3, <1>4, <2>1 DEF Within
  <2> QED BY <1>0, <1>5, <1>7, <2>2 DEF OnTime
<1> QED BY <1>1, <1>6, <1>7

\* The other end is sent a keepalive, or a message is on its way, or it was sent one before
\* and the writer may not skip a keepalive again.
LEMMA OtherIsOnTime ==
  ASSUME TwoEnds, DriverInv, NobodyHung, NEW e \in Sides, NEW o \in Sides,
         o # e, OtherEnd(e) = o, OtherEnd(o) = e, Keepalives!InTime(e), Ticks(e)
  PROVE  OnTime(o)'
<1>1. /\ OnTime(o) /\ FlagsTell(e) /\ ~canceled[e]
      /\ keepalive_wait[o] \in 0..3 /\ ahead[o] \in {0, 1}
  BY DEF DriverInv, DriverTypes, Ticks
<1>2. keepalive_wait'[o] = keepalive_wait[o] /\ underway' = underway
  BY DEF Ticks, Keepalives!reads, DriverInv, DriverTypes
<1>3. Expected(o)' \/ (~data_written'[e] /\ (data_written[e] \/ Expected(o)))
  <2>1. CASE Keepalives!Quiet(e)
    BY <2>1 DEF Ticks, Expected
  <2>2. CASE ~Keepalives!Quiet(e)
    <3>1. ~data_written'[e] /\ writing' = writing
      BY <2>2 DEF Ticks, DriverInv, DriverTypes
    <3>2. write_is_pending[e] => writing[e] # <<>>
      BY <1>1 DEF FlagsTell
    <3> QED BY <1>2, <2>2, <3>1, <3>2 DEF Keepalives!Quiet, Expected
  <2> QED BY <2>1, <2>2
<1>4. Expected(o) => Expected(o)'
  <2>1. writing[e] # <<>> => writing'[e] # <<>>
    BY DEF Ticks
  <2> QED BY <1>2, <2>1 DEF Expected
<1>5. /\ ahead[e] = 0 /\ ahead'[o] = 0
      /\ ahead[o] = 0 => ahead'[e] = 1
      /\ ahead[o] = 1 => ahead'[e] = 0
  BY PeriodsAlternate DEF Ticks
<1>6. CASE ahead[o] = 0
  <2>1. keepalive_wait[o] < 3
    <3>1. writing[e] = <<>> /\ underway[o] = <<>>
      BY <1>5, <1>6 DEF Keepalives!InTime, NobodyHung
    <3> QED BY <1>1, <1>5, <1>6, <3>1 DEF OnTime, Expected, Within
  <2>2. Expected(o) \/ Within(o, 2)
    BY <1>1, <1>5, <1>6 DEF OnTime
  <2>3. Expected(o)' \/ Within(o, 1)'
    BY <1>1, <1>2, <1>3, <1>4, <2>2 DEF Within
  <2> QED BY <1>2, <1>5, <1>6, <2>1, <2>3 DEF OnTime
<1>7. CASE ahead[o] = 1
  <2>1. Expected(o) \/ Within(o, 3)
    BY <1>1, <1>7 DEF OnTime
  <2>2. Expected(o)' \/ Within(o, 2)'
    BY <1>1, <1>2, <1>3, <1>4, <2>1 DEF Within
  <2> QED BY <1>5, <1>7, <2>2 DEF OnTime
<1> QED BY <1>1, <1>6, <1>7

LEMMA TimeoutKeeps ==
  ASSUME TwoEnds, DriverInv, NEW e \in Sides, ~hung[e], Keepalives!OnKeepaliveTimeout(e),
        UNCHANGED hung
  PROVE  DriverInv'
<1>0. Keepalives!InTime(e)
  BY DEF Keepalives!OnKeepaliveTimeout
<1>1. CASE keepalive_wait[e] = 3
  BY <1>0, <1>1, CancelKeeps DEF Keepalives!OnKeepaliveTimeout
<1>2. CASE keepalive_wait[e] # 3
  <2>1. Ticks(e)
    BY <1>2, TimeoutTicks
  <2>2. DriverTypes'
    BY <1>2, <2>1, TickKeepsTypes
  <2>3. \A f \in Sides : FlagsTell(f)'
    BY <2>1, TickKeepsFlags
  <2>4. Keepalives!AliveIsKept'
    BY <2>1 DEF DriverInv, Keepalives!AliveIsKept, Ticks
  <2>5. ASSUME NobodyHung', NEW f \in Sides PROVE OnTime(f)'
    <3>1. NobodyHung
      BY <2>5 DEF NobodyHung
    <3>2. PICK o \in Sides : /\ o # e /\ OtherEnd(e) = o /\ OtherEnd(o) = e
                            /\ \A g \in Sides : g = e \/ g = o
      BY Opposite
    <3>3. OnTime(e)' /\ OnTime(o)'
      BY <1>0, <2>1, <3>1, <3>2, TickerIsOnTime, OtherIsOnTime
    <3> QED BY <3>2, <3>3
  <2> QED BY <2>2, <2>3, <2>4, <2>5 DEF DriverInv
<1> QED BY <1>1, <1>2

-----------------------------------------------------------------------------
LEMMA DriverStepKeeps == ASSUME TwoEnds, DriverInv, [Keepalives!Next]_(Keepalives!vars)
  PROVE DriverInv'
<1>1. CASE UNCHANGED Keepalives!vars
  BY <1>1 DEF Keepalives!vars, DriverInv, DriverTypes, FlagsTell, Keepalives!AliveIsKept,
     NobodyHung, OnTime,
              Expected, Within
<1>2. ASSUME NEW e \in Sides, Keepalives!Live(e) PROVE DriverInv'
  BY <1>2, WriteKeeps, OnWriteKeeps, OnWriteKeepaliveKeeps, ReadKeeps, OnReadKeeps,
     TimeoutKeeps DEF Keepalives!Live
<1>3. ASSUME NEW e \in Sides, Keepalives!Hang(e) PROVE DriverInv'
  BY <1>3, HangKeeps
<1> QED BY <1>1, <1>2, <1>3 DEF Keepalives!Next

\* One write at most, and of what the flags say.
LEMMA FlagsTakeTurns == ASSUME DriverInv PROVE Keepalives!OneWriteAtATime
<1>1. Len(<<>>) <= 1 /\ Len(<<"data">>) <= 1 /\ Len(<<"keepalive">>) <= 1
  OBVIOUS
<1>2. ASSUME NEW e \in Sides
      PROVE  Len(writing[e]) <= 1 /\ (write_is_pending[e] => writing[e] # <<>>)
  <2>1. FlagsTell(e) /\ writing[e] \in {<<>>, <<"data">>, <<"keepalive">>}
    BY DEF DriverInv, DriverTypes
  <2>2. canceled[e] \in BOOLEAN /\ write_is_pending[e] \in BOOLEAN
    BY DEF DriverInv, DriverTypes
  <2> QED BY <1>1, <2>1, <2>2 DEF FlagsTell
<1> QED BY <1>2 DEF Keepalives!OneWriteAtATime

-----------------------------------------------------------------------------
(* Updates.  The updater and its copy take turns in being replaced, and    *)
(* the processor that a session has to fetch is accounted for until it is  *)
(* on the disk.                                                            *)


Entry == [name : Updating!Files, hush : Updating!Whole]
Content == 0 .. Updating!Torn

UpdateTypes ==
  /\ repo \in [Updating!Files -> Updating!Whole]
  /\ disk \in [exe : Content, tmp : Content, sha : Content, app : Content]
  /\ real \in {"starting", "idle", "session", "writing", "storing", "quitting", "off"}
  /\ tmp \in {"off", "starting", "replacing", "copying", "launching"}
  /\ stage \in {"none", "meta", "good", "bulk", "end", "open"}
  /\ tosend \in Seq(Entry)
  /\ bulk \in [name : Updating!Files, data : 0 .. MaxVersion]
  /\ expected \in 0 .. MaxVersion /\ running \in Content /\ listed \in 0 .. MaxVersion

\* The two updaters.  The real one is not touched while it runs, and its copy not before
\* the copy has done its work: that replaces the one by the other.
TheyTakeTurns ==
  /\ real # "off" \/ tmp = "launching" => disk.exe \in Updating!Whole
  /\ tmp \in {"replacing", "copying"} => Updating!Valid
  /\ disk.exe \notin Updating!Whole => Updating!Valid
  /\ tmp \in {"copying", "launching"} => real = "off"
  /\ real = "storing" \/ (real = "writing" /\ bulk.name = "exe") => tmp = "off"

\* The session is the real updater's.
SessionIsOpen ==
  /\ real \notin {"session", "writing", "storing"} => stage = "none"
  /\ real \in {"writing", "storing"} => stage = "bulk"
  /\ real = "storing" => bulk.name = "exe"
  /\ stage \in {"meta", "good"} => tosend # <<>>
  /\ stage \in {"end", "open"} => tosend = <<>>

\* Where the processor is: still to be compared, on its way, or on the disk.
ToCompare == \E k \in DOMAIN tosend : tosend[k].name = "app"
UnderWay == stage = "bulk" /\ bulk.name = "app"
OnDisk == disk.app \in Updating!Whole /\ disk.app >= listed

ProcessorIsDue ==
  stage # "none" =>
    /\ listed \in Updating!Whole /\ listed <= repo["app"]
    /\ \A k \in DOMAIN tosend : tosend[k].name = "app" => tosend[k].hush = listed
    /\ UnderWay => bulk.data >= listed
    /\ stage = "bulk" => bulk.data \in Updating!Whole
    /\ ToCompare \/ UnderWay \/ OnDisk

UpdateInv ==
  /\ UpdateTypes /\ TheyTakeTurns /\ SessionIsOpen /\ ProcessorIsDue
  /\ Updating!ProcessorsAreCurrent

-----------------------------------------------------------------------------
LEMMA OneFewer ==
  ASSUME NEW S, NEW s \in Seq(S), s # <<>>
  PROVE  /\ 1 \in DOMAIN s /\ Head(s) = s[1] /\ Head(s) \in S
         /\ Tail(s) \in Seq(S)
         /\ \A k \in DOMAIN Tail(s) : k + 1 \in DOMAIN s /\ Tail(s)[k] = s[k + 1]
         /\ \A k \in DOMAIN s : k # 1 => k - 1 \in DOMAIN Tail(s) /\ s[k] = Tail(s)[k - 1]
         /\ Len(s) = 1 <=> Tail(s) = <<>>
<1>1. Len(s) \in Nat /\ Len(s) > 0 /\ DOMAIN s = 1 .. Len(s)
  OBVIOUS
<1>2. Tail(s) \in Seq(S) /\ Len(Tail(s)) = Len(s) - 1 /\ DOMAIN Tail(s) = 1 .. (Len(s) - 1)
  BY <1>1
<1>3. \A k \in 1 .. (Len(s) - 1) : Tail(s)[k] = s[k + 1]
  BY <1>1
<1>4. \A k \in DOMAIN s : k # 1 => k - 1 \in DOMAIN Tail(s) /\ s[k] = Tail(s)[k - 1]
  <2>1. TAKE k \in DOMAIN s
  <2>2. HAVE k # 1
  <2>3. k - 1 \in 1 .. (Len(s) - 1) /\ (k - 1) + 1 = k
    BY <1>1, <2>2
  <2> QED BY <1>2, <1>3, <2>3
<1>5. Len(s) = 1 <=> Tail(s) = <<>>
  BY <1>1, <1>2
<1> QED BY <1>1, <1>2, <1>3, <1>4, <1>5

\* What the versions that a file can have come to.
LEMMA Versions ==
  ASSUME MaxVersion \in Nat \ {0}
  PROVE  /\ 1 \in Updating!Whole /\ Updating!Whole \subseteq 1 .. MaxVersion
         /\ Updating!Whole \subseteq 0 .. MaxVersion
         /\ 0 .. MaxVersion \subseteq Content /\ Updating!Whole \subseteq Content
         /\ Updating!NoFile \in Content /\ Updating!NoFile \notin Updating!Whole
         /\ Updating!Torn \in Content /\ Updating!Torn \notin Updating!Whole
         /\ Updating!NoFile # Updating!Torn
BY DEF Updating!Whole, Content, Updating!NoFile, Updating!Torn

\* What is due of a list: the head of it, or something of what remains.
LEMMA NextInLine ==
  ASSUME UpdateTypes, tosend # <<>>
  PROVE  /\ Head(tosend) \in Entry /\ Tail(tosend) \in Seq(Entry)
         /\ \E k \in DOMAIN tosend : Head(tosend) = tosend[k]
         /\ \A k \in DOMAIN Tail(tosend) : \E j \in DOMAIN tosend : Tail(tosend)[k] = tosend[j]
         /\ ToCompare => \/ Head(tosend).name = "app"
                         \/ \E k \in DOMAIN Tail(tosend) : Tail(tosend)[k].name = "app"
         /\ Len(tosend) = 1 <=> Tail(tosend) = <<>>
<1>1. tosend \in Seq(Entry)
  BY DEF UpdateTypes
<1> DEFINE s == tosend
<1>2. /\ 1 \in DOMAIN s /\ Head(s) = s[1] /\ Head(s) \in Entry
      /\ Tail(s) \in Seq(Entry)
      /\ \A k \in DOMAIN Tail(s) : k + 1 \in DOMAIN s /\ Tail(s)[k] = s[k + 1]
      /\ \A k \in DOMAIN s : k # 1 => k - 1 \in DOMAIN Tail(s) /\ s[k] = Tail(s)[k - 1]
      /\ Len(s) = 1 <=> Tail(s) = <<>>
  BY <1>1, OneFewer
<1>3. ASSUME ToCompare, Head(tosend).name # "app"
      PROVE  \E k \in DOMAIN Tail(tosend) : Tail(tosend)[k].name = "app"
  <2>1. PICK k \in DOMAIN tosend : tosend[k].name = "app"
    BY <1>3 DEF ToCompare
  <2>2. k # 1
    BY <1>2, <1>3, <2>1
  <2> QED BY <1>2, <2>1, <2>2
<1> QED BY <1>2, <1>3

-----------------------------------------------------------------------------
LEMMA AsInstalled == ASSUME MaxVersion \in Nat \ {0}, Updating!Init PROVE UpdateInv
<1>1. UpdateTypes
  BY Versions DEF Updating!Init, UpdateTypes, Entry, Updating!Files, Updating!NoFile
<1>2. TheyTakeTurns /\ SessionIsOpen /\ ProcessorIsDue /\ Updating!ProcessorsAreCurrent
  BY Versions DEF Updating!Init, TheyTakeTurns, SessionIsOpen, ProcessorIsDue,
     Updating!ProcessorsAreCurrent
<1> QED BY <1>1, <1>2 DEF UpdateInv

\* The list of a session: both files, as they are at the server.
LEMMA Listed ==
  ASSUME UpdateTypes, Updating!Connect
  PROVE  /\ tosend' \in Seq(Entry) /\ tosend' # <<>> /\ ToCompare'
         /\ \A k \in DOMAIN tosend' : tosend'[k].name = "app" => tosend'[k].hush = repo["app"]
<1>1. PICK order \in {<<"exe", "app">>, <<"app", "exe">>} :
        tosend' = [k \in 1 .. 2 |-> [name |-> order[k], hush |-> repo[order[k]]]]
  BY DEF Updating!Connect
<1>2. \A k \in 1 .. 2 : order[k] \in Updating!Files
  BY DEF Updating!Files
<1>3. \A k \in 1 .. 2 : [name |-> order[k], hush |-> repo[order[k]]] \in Entry
  BY <1>2 DEF UpdateTypes, Entry
<1>4. tosend' \in Seq(Entry) /\ DOMAIN tosend' = 1 .. 2 /\ Len(tosend') = 2
  BY <1>1, <1>3
<1>5. \E k \in 1 .. 2 : order[k] = "app"
  OBVIOUS
<1>6. ToCompare'
  BY <1>1, <1>4, <1>5 DEF ToCompare
<1>7. \A k \in DOMAIN tosend' : tosend'[k].name = "app" => tosend'[k].hush = repo["app"]
  BY <1>1, <1>4
<1> QED BY <1>4, <1>6, <1>7

-----------------------------------------------------------------------------
\* The steps of the updater under its own name.
LEMMA RealKeepsTypes ==
  ASSUME MaxVersion \in Nat \ {0}, UpdateInv, Updating!Real
  PROVE  UpdateTypes'
<1> USE Versions DEF UpdateInv, UpdateTypes, Updating!session
<1>1. CASE Updating!RealStarts
  BY <1>1 DEF Updating!RealStarts
<1>2. CASE Updating!Connect
  <2>1. tosend' \in Seq(Entry)
    BY <1>2, Listed
  <2>2. repo["app"] \in Updating!Whole
    BY DEF Updating!Files
  <2> QED BY <1>2, <2>1, <2>2 DEF Updating!Connect
<1>3. CASE Updating!CannotConnect
  BY <1>3 DEF Updating!CannotConnect
<1>4. CASE Updating!ReadMeta
  <2>1. tosend # <<>>
    BY <1>4 DEF SessionIsOpen, Updating!ReadMeta
  <2>2. Head(tosend) \in Entry /\ Tail(tosend) \in Seq(Entry)
    BY <2>1, NextInLine
  <2>3. Head(tosend).hush \in 0 .. MaxVersion
    BY <2>2 DEF Entry
  <2>4. CASE Updating!Agrees(Head(tosend))
    BY <1>4, <2>2, <2>4 DEF Updating!ReadMeta
  <2>5. CASE ~Updating!Agrees(Head(tosend))
    BY <1>4, <2>3, <2>5 DEF Updating!ReadMeta
  <2> QED BY <2>4, <2>5
<1>5. CASE Updating!WriteBulk
  BY <1>5 DEF Updating!WriteBulk, Updating!File, Updating!Files
<1>6. CASE Updating!BulkWritten
  BY <1>6 DEF Updating!BulkWritten, Updating!File, Updating!Files
<1>7. CASE Updating!StoreSha
  BY <1>7 DEF Updating!StoreSha
<1>8. CASE Updating!LaunchTmp
  BY <1>8 DEF Updating!LaunchTmp
<1>9. CASE Updating!Quit
  BY <1>9 DEF Updating!Quit
<1>10. CASE Updating!ReadEnd
  BY <1>10 DEF Updating!ReadEnd
<1>11. CASE Updating!Disconnected
  BY <1>11 DEF Updating!Disconnected
<1> QED BY <1>1, <1>2, <1>3, <1>4, <1>5, <1>6, <1>7, <1>8, <1>9, <1>10, <1>11 DEF Updating!Real

LEMMA OthersKeepTypes ==
  ASSUME MaxVersion \in Nat \ {0}, UpdateInv,
         Updating!Copy \/ Updating!ReadGood \/ Updating!Reboot
               \/ \E f \in Updating!Files : Updating!Release(f)
  PROVE  UpdateTypes'
<1> USE Versions DEF UpdateInv, UpdateTypes, Updating!session
<1>1. CASE Updating!TmpStarts
  BY <1>1 DEF Updating!TmpStarts
<1>2. CASE Updating!TmpRemoves
  BY <1>2 DEF Updating!TmpRemoves
<1>3. CASE Updating!TmpCopies
  BY <1>3 DEF Updating!TmpCopies
<1>4. CASE Updating!TmpCopied
  BY <1>4 DEF Updating!TmpCopied
<1>5. CASE Updating!TmpLaunches
  BY <1>5 DEF Updating!TmpLaunches
<1>6. CASE Updating!ReadGood
  <2>1. tosend # <<>>
    BY <1>6 DEF SessionIsOpen, Updating!ReadGood
  <2>2. Head(tosend) \in Entry /\ Tail(tosend) \in Seq(Entry)
    BY <2>1, NextInLine
  <2>3. Head(tosend).name \in Updating!Files /\ repo[Head(tosend).name] \in 0 .. MaxVersion
    BY <2>2 DEF Entry
  <2> QED BY <1>6, <2>2, <2>3 DEF Updating!ReadGood
<1>7. CASE Updating!Reboot
  BY <1>7 DEF Updating!Reboot
<1>8. ASSUME NEW f \in Updating!Files, Updating!Release(f) PROVE UpdateTypes'
  <2>1. repo[f] + 1 \in Updating!Whole
    BY <1>8 DEF Updating!Release, Updating!Whole
  <2> QED BY <1>8, <2>1 DEF Updating!Release
<1> QED BY <1>1, <1>2, <1>3, <1>4, <1>5, <1>6, <1>7, <1>8 DEF Updating!Copy

-----------------------------------------------------------------------------
\* An updater is replaced by the other, and only while it does not run.
LEMMA TurnsAreKept ==
  ASSUME MaxVersion \in Nat \ {0}, UpdateInv, Updating!Next
  PROVE  TheyTakeTurns'
<1> USE Versions DEF UpdateInv, UpdateTypes, TheyTakeTurns, Updating!Valid, Updating!session
<1>1. CASE Updating!RealStarts
  BY <1>1 DEF Updating!RealStarts
<1>2. CASE Updating!Connect \/ Updating!CannotConnect
  BY <1>2 DEF Updating!Connect, Updating!CannotConnect
<1>3. CASE Updating!ReadMeta \/ Updating!ReadEnd \/ Updating!Disconnected
  BY <1>3 DEF Updating!ReadMeta, Updating!ReadEnd, Updating!Disconnected
<1>4. CASE Updating!WriteBulk
  BY <1>4 DEF Updating!WriteBulk, Updating!File, Updating!Files
<1>5. CASE Updating!BulkWritten
  BY <1>5 DEF Updating!BulkWritten, Updating!File, Updating!Files
<1>6. CASE Updating!StoreSha \/ Updating!LaunchTmp \/ Updating!Quit
  BY <1>6 DEF Updating!StoreSha, Updating!LaunchTmp, Updating!Quit
<1>7. CASE Updating!TmpStarts
  BY <1>7 DEF Updating!TmpStarts, Updating!Replaces
<1>8. CASE Updating!TmpRemoves \/ Updating!TmpCopies \/ Updating!TmpCopied
            \/ Updating!TmpLaunches
  BY <1>8 DEF Updating!TmpRemoves, Updating!TmpCopies, Updating!TmpCopied, Updating!TmpLaunches
<1>9. CASE Updating!ReadGood
  BY <1>9 DEF Updating!ReadGood, SessionIsOpen
<1>10. CASE Updating!Reboot
  BY <1>10 DEF Updating!Reboot
<1>11. ASSUME NEW f \in Updating!Files, Updating!Release(f) PROVE TheyTakeTurns'
  BY <1>11 DEF Updating!Release
<1> QED BY <1>1, <1>2, <1>3, <1>4, <1>5, <1>6, <1>7, <1>8, <1>9, <1>10, <1>11
        DEF Updating!Next, Updating!Real, Updating!Copy

LEMMA SessionIsKept ==
  ASSUME MaxVersion \in Nat \ {0}, UpdateInv, Updating!Next
  PROVE  SessionIsOpen'
<1> USE Versions DEF UpdateInv, UpdateTypes, SessionIsOpen, Updating!session
<1>1. CASE Updating!RealStarts \/ Updating!CannotConnect \/ Updating!Disconnected
            \/ Updating!ReadEnd
  BY <1>1 DEF Updating!RealStarts, Updating!CannotConnect, Updating!Disconnected,
     Updating!ReadEnd
<1>2. CASE Updating!Connect
  BY <1>2, Listed DEF Updating!Connect
<1>3. CASE Updating!ReadMeta
  <2>1. tosend # <<>> /\ (Len(tosend) = 1 <=> Tail(tosend) = <<>>)
    BY <1>3, NextInLine DEF Updating!ReadMeta
  <2>2. CASE Updating!Agrees(Head(tosend))
    BY <1>3, <2>1, <2>2 DEF Updating!ReadMeta
  <2>3. CASE ~Updating!Agrees(Head(tosend))
    BY <1>3, <2>1, <2>3 DEF Updating!ReadMeta
  <2> QED BY <2>2, <2>3
<1>4. CASE Updating!WriteBulk \/ Updating!BulkWritten
  BY <1>4 DEF Updating!WriteBulk, Updating!BulkWritten
<1>5. CASE Updating!StoreSha \/ Updating!LaunchTmp \/ Updating!Quit
  BY <1>5 DEF Updating!StoreSha, Updating!LaunchTmp, Updating!Quit
<1>6. CASE Updating!TmpStarts \/ Updating!TmpRemoves \/ Updating!TmpCopies \/ Updating!TmpCopied
  BY <1>6 DEF Updating!TmpStarts, Updating!TmpRemoves, Updating!TmpCopies, Updating!TmpCopied
<1>7. CASE Updating!TmpLaunches
  BY <1>7 DEF Updating!TmpLaunches, TheyTakeTurns
<1>8. CASE Updating!ReadGood
  BY <1>8 DEF Updating!ReadGood
<1>9. CASE Updating!Reboot
  BY <1>9 DEF Updating!Reboot
<1>10. ASSUME NEW f \in Updating!Files, Updating!Release(f) PROVE SessionIsOpen'
  BY <1>10 DEF Updating!Release
<1> QED BY <1>1, <1>2, <1>3, <1>4, <1>5, <1>6, <1>7, <1>8, <1>9, <1>10 DEF Updating!Next,
           Updating!Real, Updating!Copy

-----------------------------------------------------------------------------
\* The processor stays due until it is on the disk, whatever is done with the updater.
LEMMA ProcessorStaysDue ==
  ASSUME MaxVersion \in Nat \ {0}, UpdateInv, Updating!Next
  PROVE  ProcessorIsDue'
<1> USE Versions DEF UpdateInv
<1>1. ASSUME UNCHANGED <<Updating!session, repo>>, disk'.app = disk.app
      PROVE  ProcessorIsDue'
  BY <1>1 DEF Updating!session, ProcessorIsDue, ToCompare, UnderWay, OnDisk
<1>2. ASSUME stage' = "none" PROVE ProcessorIsDue'
  BY <1>2 DEF ProcessorIsDue
<1>3. CASE Updating!RealStarts \/ Updating!CannotConnect \/ Updating!StoreSha \/ Updating!Quit
  <2>1. disk'.app = disk.app
    BY <1>3 DEF Updating!RealStarts, Updating!CannotConnect, Updating!StoreSha, Updating!Quit,
       UpdateTypes
  <2> QED BY <1>1, <1>3, <2>1 DEF Updating!RealStarts, Updating!CannotConnect,
             Updating!StoreSha, Updating!Quit
<1>4. CASE Updating!Connect
  <2>1. /\ stage' = "meta" /\ listed' = repo["app"] /\ repo' = repo /\ ToCompare'
        /\ \A k \in DOMAIN tosend' : tosend'[k].name = "app" => tosend'[k].hush = repo["app"]
    BY <1>4, Listed DEF Updating!Connect
  <2>2. repo["app"] \in Updating!Whole
    BY DEF UpdateTypes, Updating!Files
  <2>3. repo["app"] <= repo["app"]
    BY <2>2 DEF Updating!Whole
  <2> QED BY <2>1, <2>2, <2>3 DEF ProcessorIsDue, UnderWay
<1>5. CASE Updating!ReadMeta
  <2>1. /\ Head(tosend) \in Entry
        /\ \E k \in DOMAIN tosend : Head(tosend) = tosend[k]
        /\ \A k \in DOMAIN Tail(tosend) : \E j \in DOMAIN tosend : Tail(tosend)[k] = tosend[j]
        /\ ToCompare => \/ Head(tosend).name = "app"
                        \/ \E k \in DOMAIN Tail(tosend) : Tail(tosend)[k].name = "app"
    BY <1>5, NextInLine DEF SessionIsOpen, Updating!ReadMeta
  <2>2. /\ stage = "meta" /\ disk' = disk /\ repo' = repo /\ listed' = listed /\ bulk' = bulk
        /\ stage' \in {"meta", "end", "good"}
    BY <1>5 DEF Updating!ReadMeta
  <2>3. /\ listed \in Updating!Whole /\ listed <= repo["app"]
        /\ \A k \in DOMAIN tosend : tosend[k].name = "app" => tosend[k].hush = listed
        /\ ToCompare \/ OnDisk
    BY <2>2 DEF ProcessorIsDue, UnderWay
  <2>4. CASE Updating!Agrees(Head(tosend))
    <3>1. tosend' = Tail(tosend)
      BY <1>5, <2>4 DEF Updating!ReadMeta
    <3>2. Head(tosend).name = "app" => OnDisk
      <4>1. SUFFICES ASSUME Head(tosend).name = "app" PROVE OnDisk
        OBVIOUS
      <4>2. disk["app"] = listed
        BY <2>1, <2>3, <2>4, <4>1 DEF Updating!Agrees
      <4>3. disk["app"] = disk.app
        BY DEF UpdateTypes
      <4> QED BY <2>3, <4>2, <4>3 DEF OnDisk, Updating!Whole
    <3>3. \A k \in DOMAIN tosend' : tosend'[k].name = "app" => tosend'[k].hush = listed
      BY <2>1, <2>3, <3>1
    <3>4. ToCompare' \/ OnDisk
      BY <2>1, <2>3, <3>1, <3>2 DEF ToCompare
    <3> QED BY <2>2, <2>3, <3>3, <3>4 DEF ProcessorIsDue, UnderWay, OnDisk
  <2>5. CASE ~Updating!Agrees(Head(tosend))
    <3>1. tosend' = tosend
      BY <1>5, <2>5 DEF Updating!ReadMeta
    <3> QED BY <2>2, <2>3, <3>1 DEF ProcessorIsDue, UnderWay, OnDisk, ToCompare
  <2> QED BY <2>4, <2>5
<1>6. CASE Updating!ReadGood
  <2>1. /\ Head(tosend) \in Entry
        /\ \A k \in DOMAIN Tail(tosend) : \E j \in DOMAIN tosend : Tail(tosend)[k] = tosend[j]
        /\ ToCompare => \/ Head(tosend).name = "app"
                        \/ \E k \in DOMAIN Tail(tosend) : Tail(tosend)[k].name = "app"
    BY <1>6, NextInLine DEF SessionIsOpen, Updating!ReadGood
  <2>2. /\ stage = "good" /\ stage' = "bulk" /\ tosend' = Tail(tosend)
        /\ bulk' = [name |-> Head(tosend).name, data |-> repo[Head(tosend).name]]
        /\ disk' = disk /\ repo' = repo /\ listed' = listed
    BY <1>6 DEF Updating!ReadGood
  <2>3. /\ listed \in Updating!Whole /\ listed <= repo["app"]
        /\ \A k \in DOMAIN tosend : tosend[k].name = "app" => tosend[k].hush = listed
        /\ ToCompare \/ OnDisk
    BY <2>2 DEF ProcessorIsDue, UnderWay
  <2>4. bulk'.name = Head(tosend).name /\ bulk'.data = repo[Head(tosend).name]
    BY <2>2
  <2>5. bulk'.data \in Updating!Whole
    BY <2>1, <2>4 DEF Entry, UpdateTypes
  <2>6. UnderWay' => bulk'.data >= listed
    <3>1. bulk'.name = "app" => bulk'.data = repo["app"]
      BY <2>4
    <3>2. repo["app"] \in Updating!Whole /\ (repo["app"] >= listed <=> listed <= repo["app"])
      BY <2>3 DEF UpdateTypes, Updating!Files, Updating!Whole
    <3> QED BY <2>3, <3>1, <3>2 DEF UnderWay
  <2>7. \A k \in DOMAIN tosend' : tosend'[k].name = "app" => tosend'[k].hush = listed
    BY <2>1, <2>2, <2>3
  <2>8. ToCompare' \/ UnderWay' \/ OnDisk
    BY <2>1, <2>2, <2>3, <2>4 DEF ToCompare, UnderWay
  <2> QED BY <2>2, <2>3, <2>5, <2>6, <2>7, <2>8 DEF ProcessorIsDue, OnDisk
<1>7. CASE Updating!WriteBulk
  <2>1. /\ stage = "bulk" /\ UNCHANGED <<Updating!session, repo>>
        /\ disk' = [disk EXCEPT ![Updating!File(bulk.name)] = Updating!Torn]
    BY <1>7 DEF Updating!WriteBulk
  <2>2. CASE bulk.name = "app"
    BY <2>1, <2>2 DEF Updating!session, ProcessorIsDue, ToCompare, UnderWay, OnDisk
  <2>3. CASE bulk.name # "app"
    <3>1. disk'.app = disk.app
      BY <2>1, <2>3 DEF UpdateTypes, Updating!Files, Updating!File
    <3> QED BY <1>1, <2>1, <3>1
  <2> QED BY <2>2, <2>3
<1>8. CASE Updating!BulkWritten
  <2>1. /\ stage = "bulk" /\ UNCHANGED <<repo, tosend, bulk, listed>>
        /\ disk' = [disk EXCEPT ![Updating!File(bulk.name)] = bulk.data]
    BY <1>8 DEF Updating!BulkWritten, SessionIsOpen
  <2>2. /\ listed \in Updating!Whole /\ listed <= repo["app"]
        /\ \A k \in DOMAIN tosend : tosend[k].name = "app" => tosend[k].hush = listed
        /\ bulk.data \in Updating!Whole
        /\ UnderWay => bulk.data >= listed
        /\ ToCompare \/ UnderWay \/ OnDisk
    BY <2>1 DEF ProcessorIsDue
  <2>3. CASE bulk.name = "app"
    <3>1. disk'.app = bulk.data /\ stage' \in {"end", "meta"}
      BY <1>8, <2>1, <2>3 DEF Updating!BulkWritten, UpdateTypes, Updating!File
    <3>2. OnDisk'
      BY <2>1, <2>2, <2>3, <3>1 DEF OnDisk, UnderWay
    <3> QED BY <2>1, <2>2, <3>1, <3>2 DEF ProcessorIsDue, UnderWay
  <2>4. CASE bulk.name # "app"
    <3>1. bulk.name = "exe" /\ stage' = stage
      BY <1>8, <2>4 DEF Updating!BulkWritten, UpdateTypes, Updating!Files
    <3>2. disk'.app = disk.app
      BY <2>1, <3>1 DEF UpdateTypes, Updating!File
    <3> QED BY <2>1, <2>2, <3>1, <3>2 DEF ProcessorIsDue, UnderWay, OnDisk, ToCompare
  <2> QED BY <2>3, <2>4
<1>9. CASE Updating!LaunchTmp \/ Updating!Disconnected \/ Updating!Reboot
  BY <1>2, <1>9 DEF Updating!LaunchTmp, Updating!Disconnected, Updating!Reboot
<1>10. CASE Updating!ReadEnd
  <2>1. /\ stage = "end" /\ stage' = "open"
        /\ UNCHANGED <<repo, disk, tosend, bulk, listed>>
    BY <1>10 DEF Updating!ReadEnd
  <2> QED BY <2>1 DEF ProcessorIsDue, UnderWay, OnDisk, ToCompare
<1>11. CASE Updating!Copy
  <2>1. disk'.app = disk.app /\ UNCHANGED <<Updating!session, repo>>
    BY <1>11 DEF Updating!Copy, Updating!TmpStarts, Updating!TmpRemoves, Updating!TmpCopies,
       Updating!TmpCopied, Updating!TmpLaunches, UpdateTypes
  <2> QED BY <1>1, <2>1
<1>12. ASSUME NEW f \in Updating!Files, Updating!Release(f) PROVE ProcessorIsDue'
  <2>1. UNCHANGED <<Updating!session, disk>>
    BY <1>12 DEF Updating!Release
  <2>2. repo'["app"] \in Updating!Whole /\ repo["app"] \in Updating!Whole
              /\ repo'["app"] >= repo["app"]
    BY <1>12 DEF Updating!Release, UpdateTypes, Updating!Files, Updating!Whole
  <2>3. listed \in Updating!Whole /\ listed <= repo["app"] => listed <= repo'["app"]
    BY <2>2 DEF Updating!Whole
  <2> QED BY <2>1, <2>3 DEF Updating!session, ProcessorIsDue, ToCompare, UnderWay, OnDisk
<1> QED BY <1>3, <1>4, <1>5, <1>6, <1>7, <1>8, <1>9, <1>10, <1>11, <1>12 DEF Updating!Next,
           Updating!Real

\* Processors are started once nothing is left to be fetched.
LEMMA StartedCurrent ==
  ASSUME MaxVersion \in Nat \ {0}, UpdateInv, Updating!Next
  PROVE  Updating!ProcessorsAreCurrent'
<1> USE DEF UpdateInv
<1>1. ASSUME stage' # "open" PROVE Updating!ProcessorsAreCurrent'
  BY <1>1 DEF Updating!ProcessorsAreCurrent
<1>2. ASSUME UNCHANGED <<stage, running, listed>> PROVE Updating!ProcessorsAreCurrent'
  BY <1>2 DEF Updating!ProcessorsAreCurrent
<1>3. CASE Updating!Connect \/ Updating!ReadMeta \/ Updating!ReadGood
            \/ Updating!LaunchTmp \/ Updating!Disconnected \/ Updating!Reboot
  BY <1>1, <1>3 DEF Updating!Connect, Updating!ReadMeta, Updating!ReadGood, Updating!LaunchTmp,
     Updating!Disconnected, Updating!Reboot
<1>4. CASE Updating!CannotConnect
  BY <1>1, <1>4 DEF Updating!CannotConnect, SessionIsOpen, Updating!session
<1>5. CASE Updating!BulkWritten
  <2>1. stage = "bulk" /\ stage' \in {stage, "end", "meta"}
    BY <1>5 DEF Updating!BulkWritten, SessionIsOpen
  <2> QED BY <1>1, <2>1
<1>6. CASE Updating!RealStarts \/ Updating!WriteBulk \/ Updating!StoreSha
            \/ Updating!Quit \/ Updating!Copy
  BY <1>2, <1>6 DEF Updating!RealStarts, Updating!WriteBulk, Updating!StoreSha, Updating!Quit,
     Updating!session, Updating!Copy, Updating!TmpStarts,
                    Updating!TmpRemoves, Updating!TmpCopies, Updating!TmpCopied,
                          Updating!TmpLaunches
<1>7. CASE Updating!ReadEnd
  <2>1. stage = "end" /\ running' = disk.app /\ listed' = listed
    BY <1>7 DEF Updating!ReadEnd
  <2>2. ~ToCompare /\ ~UnderWay
    BY <2>1 DEF SessionIsOpen, ToCompare, UnderWay
  <2>3. OnDisk
    BY <2>1, <2>2 DEF ProcessorIsDue
  <2> QED BY <2>1, <2>3 DEF OnDisk, Updating!ProcessorsAreCurrent
<1>8. ASSUME NEW f \in Updating!Files, Updating!Release(f) PROVE Updating!ProcessorsAreCurrent'
  BY <1>2, <1>8 DEF Updating!Release, Updating!session
<1> QED BY <1>3, <1>4, <1>5, <1>6, <1>7, <1>8 DEF Updating!Next, Updating!Real

-----------------------------------------------------------------------------
LEMMA UpdateStepKeeps ==
  ASSUME MaxVersion \in Nat \ {0}, UpdateInv, [Updating!Next]_(Updating!vars)
  PROVE  UpdateInv'
<1>1. CASE UNCHANGED Updating!vars
  BY <1>1 DEF Updating!vars, UpdateInv, UpdateTypes, TheyTakeTurns, SessionIsOpen,
     ProcessorIsDue,
              Updating!ProcessorsAreCurrent, Updating!Valid, ToCompare, UnderWay, OnDisk
<1>2. CASE Updating!Next
  <2>1. UpdateTypes'
    BY <1>2, RealKeepsTypes, OthersKeepTypes DEF Updating!Next
  <2> QED BY <1>2, <2>1, TurnsAreKept, SessionIsKept, ProcessorStaysDue, StartedCurrent
          DEF UpdateInv
<1> QED BY <1>1, <1>2

-----------------------------------------------------------------------------
(* Loading.                                                                *)

\* The lists of Loading are those of Lists.
LEMMA SameLists ==
  ASSUME NEW s, NEW S
  PROVE  Tasks!Members(s) = Members(s) /\ Tasks!Only(s, S) = Only(s, S)
BY DEF Tasks!Members, Members, Tasks!Only, Only

LEMMA OnlyOfTasks ==
  ASSUME NEW s \in Seq(Nat), NEW S
  PROVE  /\ Tasks!Only(s, S) \in Seq(Nat)
         /\ Tasks!Members(Tasks!Only(s, S)) = Tasks!Members(s) \cap S
<1>1. Only(s, S) \in Seq(Nat) /\ Members(Only(s, S)) = Members(s) \cap S
  BY OnlyFacts
<1> QED BY <1>1, SameLists

Stages == {"none", "offer", "res", "meta", "bulk", "short_description", "dataset_meta", "named"}
Loader == [at : Stages, task : Nat, out : {NoMessage, "good", "bad", "name"}]

LoadingTypes ==
  /\ made \in Nat /\ up \in BOOLEAN
  /\ loader \in [Controllers -> Loader]
  /\ pending \in Seq(Nat) /\ index \in Seq(Nat)
  /\ DOMAIN saved \subseteq 1 .. made /\ Tasks!Members(index) \subseteq 1 .. made

\* What a loader has stored before it reads a message.
Stored(at) ==
  CASE at = "meta" -> {"res"}
    [] at = "bulk" -> {"res", "meta"}
    [] at = "short_description" -> {"res", "meta", "bulk"}
    [] at \in {"dataset_meta", "named"} -> Tasks!Needed
    [] OTHER -> {}

\* A loader with a directory has one of its own, and in it all that it has been sent.
Owns(c) ==
  /\ loader[c].task = 0 <=> loader[c].at \in {"none", "offer", "res"}
  /\ loader[c].task # 0 =>
       /\ loader[c].task \in DOMAIN saved
       /\ loader[c].task \notin Tasks!Members(index)
       /\ Stored(loader[c].at) \subseteq saved[loader[c].task]

Apart(c, d) == loader[c].task = loader[d].task => loader[c].task = 0

LoadersOwn ==
  /\ \A c \in Controllers : Owns(c)
  /\ \A c, d \in Controllers : c # d => Apart(c, d)

\* What the server knows is what pending.txt says, but for what could not be activated.
IndexIsPending ==
  /\ Tasks!Members(pending) \subseteq Tasks!Members(index)
  /\ up => Tasks!Members(index) \cap DOMAIN saved \subseteq Tasks!Members(pending)
  /\ ~up => pending = <<>> /\ \A c \in Controllers : loader[c] = Tasks!Closed

LoadingInv == LoadingTypes /\ LoadersOwn /\ IndexIsPending /\ Tasks!DirectoriesAreAccountedFor

LEMMA MembersAppend ==
  ASSUME NEW s \in Seq(Nat), NEW e \in Nat
  PROVE  Append(s, e) \in Seq(Nat) /\ Tasks!Members(Append(s, e)) = Tasks!Members(s) \cup {e}
<1>1. /\ Append(s, e) \in Seq(Nat) /\ Len(Append(s, e)) = Len(s) + 1 /\ Len(s) \in Nat
      /\ \A i \in 1 .. Len(s) : Append(s, e)[i] = s[i]
      /\ Append(s, e)[Len(s) + 1] = e
  OBVIOUS
<1>2. 1 .. (Len(s) + 1) = (1 .. Len(s)) \cup {Len(s) + 1}
  BY <1>1
<1> QED BY <1>1, <1>2 DEF Tasks!Members

LEMMA MembersEmpty == Tasks!Members(<<>>) = {}
BY DEF Tasks!Members

-----------------------------------------------------------------------------
LEMMA NothingLoadedYet == Tasks!Init => LoadingInv
<1> SUFFICES ASSUME Tasks!Init PROVE LoadingInv
  OBVIOUS
<1>1. DOMAIN saved = {} /\ Tasks!Members(index) = {} /\ Tasks!Members(pending) = {}
  BY MembersEmpty DEF Tasks!Init
<1>2. LoadingTypes
  BY <1>1 DEF Tasks!Init, LoadingTypes, Loader, Stages, Tasks!Closed
<1>3. LoadersOwn
  BY DEF Tasks!Init, LoadersOwn, Owns, Apart, Tasks!Closed
<1>4. IndexIsPending /\ Tasks!DirectoriesAreAccountedFor
  BY <1>1 DEF Tasks!Init, IndexIsPending, Tasks!DirectoriesAreAccountedFor
<1> QED BY <1>2, <1>3, <1>4 DEF LoadingInv

\* A loader goes on, with the directory that it has, if any.
LEMMA GoingOn ==
  ASSUME LoadingInv, up, NEW c \in Controllers, NEW r \in Loader,
         loader' = [loader EXCEPT ![c] = r], r.task = loader[c].task,
         r.task = 0 <=> r.at \in {"none", "offer", "res"},
         DOMAIN saved' = DOMAIN saved, \A t \in DOMAIN saved : saved[t] \subseteq saved'[t],
         r.task # 0 => Stored(r.at) \subseteq saved'[r.task],
         UNCHANGED <<up, pending, index, made, left>>
  PROVE  LoadingInv'
<1> USE DEF LoadingInv
<1>1. /\ loader' \in [Controllers -> Loader] /\ loader'[c] = r
      /\ \A d \in Controllers : d # c => loader'[d] = loader[d]
      /\ \A d \in Controllers : loader'[d].task = loader[d].task
  BY DEF LoadingTypes
<1>2. LoadingTypes'
  BY <1>1 DEF LoadingTypes
<1>3. ASSUME NEW d \in Controllers PROVE Owns(d)'
  <2>1. Owns(d)
    BY DEF LoadersOwn
  <2>2. CASE d = c
    BY <1>1, <2>1, <2>2 DEF Owns
  <2>3. CASE d # c
    BY <1>1, <2>1, <2>3 DEF Owns
  <2> QED BY <2>2, <2>3
<1>4. ASSUME NEW d \in Controllers, NEW e \in Controllers, d # e PROVE Apart(d, e)'
  BY <1>1, <1>4 DEF LoadersOwn, Apart
<1>5. IndexIsPending'
  BY DEF IndexIsPending
<1>6. Tasks!DirectoriesAreAccountedFor'
  BY <1>1 DEF Tasks!DirectoriesAreAccountedFor
<1> QED BY <1>2, <1>3, <1>4, <1>5, <1>6 DEF LoadersOwn

\* A loader ends and its directory with it.
LEMMA Failing ==
  ASSUME LoadingInv, NEW c \in Controllers, Tasks!Fails(c),
         UNCHANGED <<up, pending, index, made, left>>
  PROVE  LoadingInv'
<1> USE DEF LoadingInv
<1> DEFINE gone == loader[c].task
<1>0. gone \notin Tasks!Members(index)
  BY DEF LoadersOwn, Owns, LoadingTypes
<1>1. /\ loader' \in [Controllers -> Loader] /\ loader'[c] = Tasks!Closed
      /\ \A d \in Controllers : d # c => loader'[d] = loader[d]
  BY DEF LoadingTypes, Tasks!Fails, Tasks!Closed, Loader, Stages
<1>2. DOMAIN saved' = DOMAIN saved \ {gone} /\ \A t \in DOMAIN saved' : saved'[t] = saved[t]
  BY DEF Tasks!Fails, Tasks!Removed
<1>3. LoadingTypes'
  BY <1>1, <1>2 DEF LoadingTypes
<1>4. ASSUME NEW d \in Controllers PROVE Owns(d)'
  <2>1. Owns(d)
    BY DEF LoadersOwn
  <2>2. CASE d = c
    BY <1>1, <2>2 DEF Owns, Tasks!Closed
  <2>3. CASE d # c
    <3>1. Apart(d, c)
      BY <2>3 DEF LoadersOwn
    <3> QED BY <1>1, <1>2, <2>1, <2>3, <3>1 DEF Owns, Apart
  <2> QED BY <2>2, <2>3
<1>5. ASSUME NEW d \in Controllers, NEW e \in Controllers, d # e PROVE Apart(d, e)'
  BY <1>1, <1>5 DEF LoadersOwn, Apart, Tasks!Closed
<1>6. IndexIsPending'
  BY <1>1, <1>2 DEF IndexIsPending
<1>7. Tasks!DirectoriesAreAccountedFor'
  BY <1>1, <1>2 DEF Tasks!DirectoriesAreAccountedFor
<1> QED BY <1>3, <1>4, <1>5, <1>6, <1>7 DEF LoadersOwn

\* The connection ends before there is a directory, or with one that was not made whole.
LEMMA EndingEarly ==
  ASSUME LoadingInv, NEW c \in Controllers, loader[c].task = 0, made' \in {made, made + 1},
         loader' = [loader EXCEPT ![c] = Tasks!Closed],
         UNCHANGED <<saved, up, pending, index, left>>
  PROVE  LoadingInv'
<1> USE DEF LoadingInv
<1>1. /\ loader' \in [Controllers -> Loader] /\ loader'[c] = Tasks!Closed
      /\ \A d \in Controllers : d # c => loader'[d] = loader[d]
  BY DEF LoadingTypes, Tasks!Closed, Loader, Stages
<1>2. LoadingTypes'
  BY <1>1 DEF LoadingTypes
<1>3. ASSUME NEW d \in Controllers PROVE Owns(d)'
  BY <1>1 DEF LoadersOwn, Owns, Tasks!Closed
<1>4. ASSUME NEW d \in Controllers, NEW e \in Controllers, d # e PROVE Apart(d, e)'
  BY <1>1, <1>4 DEF LoadersOwn, Apart, Tasks!Closed
<1>5. IndexIsPending'
  BY <1>1 DEF IndexIsPending
<1>6. Tasks!DirectoriesAreAccountedFor'
  BY <1>1 DEF Tasks!DirectoriesAreAccountedFor, LoadingTypes
<1> QED BY <1>2, <1>3, <1>4, <1>5, <1>6 DEF LoadersOwn

\* A directory is made.
LEMMA Making ==
  ASSUME LoadingInv, up, NEW c \in Controllers, loader[c].task = 0, made' = made + 1,
         loader' = [loader EXCEPT ![c] = Tasks!At("meta", made + 1)],
         saved' = [t \in DOMAIN saved \cup {made + 1} |->
                     IF t = made + 1 THEN {"res"} ELSE saved[t]],
         UNCHANGED <<up, pending, index, left>>
  PROVE  LoadingInv'
<1> USE DEF LoadingInv
<1>0. made + 1 \notin DOMAIN saved /\ made + 1 \notin Tasks!Members(index) /\ made + 1 \in Nat
      /\ made + 1 # 0
  BY DEF LoadingTypes
<1>1. /\ loader' \in [Controllers -> Loader]
      /\ loader'[c].at = "meta" /\ loader'[c].task = made + 1
      /\ \A d \in Controllers : d # c => loader'[d] = loader[d]
  BY <1>0 DEF LoadingTypes, Tasks!At, Loader, Stages
<1>2. /\ DOMAIN saved' = DOMAIN saved \cup {made + 1} /\ saved'[made + 1] = {"res"}
      /\ \A t \in DOMAIN saved : saved'[t] = saved[t]
  BY <1>0
<1>3. LoadingTypes'
  BY <1>1, <1>2 DEF LoadingTypes
<1>4. ASSUME NEW d \in Controllers PROVE Owns(d)'
  <2>1. Owns(d)
    BY DEF LoadersOwn
  <2>2. CASE d = c
    BY <1>0, <1>1, <1>2, <2>2 DEF Owns, Stored
  <2>3. CASE d # c
    BY <1>1, <1>2, <2>1, <2>3 DEF Owns
  <2> QED BY <2>2, <2>3
<1>5. \A d \in Controllers : loader[d].task # made + 1
  BY <1>0 DEF LoadersOwn, Owns
<1>6. ASSUME NEW d \in Controllers, NEW e \in Controllers, d # e PROVE Apart(d, e)'
  BY <1>1, <1>5, <1>6 DEF LoadersOwn, Apart
<1>7. IndexIsPending'
  BY <1>0, <1>1, <1>2 DEF IndexIsPending
<1>8. Tasks!DirectoriesAreAccountedFor'
  <2>1. ASSUME NEW t \in DOMAIN saved
        PROVE  IF t \in Tasks!Members(index) THEN Tasks!Needed \subseteq saved'[t]
               ELSE t \in left \/ \E d \in Controllers : loader'[d].task = t
    <3>1. t # 0 /\ t # loader[c].task
      BY DEF LoadingTypes
    <3> QED BY <1>1, <1>2, <3>1 DEF Tasks!DirectoriesAreAccountedFor
  <2> QED BY <1>0, <1>1, <1>2, <2>1 DEF Tasks!DirectoriesAreAccountedFor
<1> QED BY <1>3, <1>4, <1>6, <1>7, <1>8 DEF LoadersOwn

-----------------------------------------------------------------------------
\* What a loader reads is for the stage it is at.
LEMMA ServerReadKeeps ==
  ASSUME LoadingInv, NEW c \in Controllers, Tasks!ServerReads(c)
  PROVE  LoadingInv'
<1> USE DEF LoadingInv
<1>1. /\ UNCHANGED <<up, pending, index, left>>
      /\ \/ Tasks!OnTaskOffer(c) \/ Tasks!OnRes(c) \/ Tasks!OnMeta(c) \/ Tasks!OnBulk(c)
         \/ Tasks!OnShortDescription(c) \/ Tasks!OnDatasetMeta(c)
  BY DEF Tasks!ServerReads
<1>2. loader[c] \in Loader /\ Owns(c) /\ loader[c].task \in Nat
  BY DEF LoadingTypes, LoadersOwn, Loader
<1>3. up \/ loader[c].at = "none"
  BY DEF IndexIsPending, Tasks!Closed, LoadingTypes
<1>4. ASSUME Tasks!OnTaskOffer(c) PROVE LoadingInv'
  <2>1. PICK r \in {Tasks!Writing("res", loader[c].task, "good"), Tasks!Writing("offer",
              loader[c].task, "bad")} :
          loader' = [loader EXCEPT ![c] = r]
    BY <1>4 DEF Tasks!OnTaskOffer, Tasks!Answer, LoadingTypes
  <2>2. r \in Loader /\ r.task = 0 /\ loader[c].task = 0 /\ r.at \in {"res", "offer"} /\ up
    BY <1>2, <1>3, <1>4, <2>1 DEF Tasks!Writing, Loader, Stages, Owns, Tasks!OnTaskOffer
  <2> QED BY <1>1, <1>4, <2>1, <2>2, GoingOn DEF Tasks!OnTaskOffer
<1>5. ASSUME Tasks!OnRes(c) PROVE LoadingInv'
  <2>1. loader[c].task = 0 /\ up
    BY <1>2, <1>3, <1>5 DEF Tasks!OnRes, Owns
  <2>2. CASE loader' = [loader EXCEPT ![c] = Tasks!Closed] /\ saved' = saved
    <3>1. made' \in {made, made + 1}
      BY <1>5 DEF Tasks!OnRes
    <3> QED BY <1>1, <2>1, <2>2, <3>1, EndingEarly
  <2>3. CASE /\ made' = made + 1
             /\ loader' = [loader EXCEPT ![c] = Tasks!At("meta", made + 1)]
             /\ saved' = [t \in DOMAIN saved \cup {made + 1} |->
                            IF t = made + 1 THEN {"res"} ELSE saved[t]]
    BY <1>1, <2>1, <2>3, Making
  <2> QED BY <1>5, <2>2, <2>3 DEF Tasks!OnRes
<1>6. ASSUME NEW name, NEW r \in Loader,
             up, made' = made,
             Stored(r.at) \subseteq Stored(loader[c].at) \cup {name},
             loader[c].at \in {"meta", "bulk", "short_description", "dataset_meta"},
             r.at \in {"bulk", "short_description", "dataset_meta", "named"},
             r.task = loader[c].task, loader' = [loader EXCEPT ![c] = r],
             Tasks!Store(loader[c].task, name)
      PROVE  LoadingInv'
  <2>1. loader[c].task # 0 /\ loader[c].task \in DOMAIN saved
    BY <1>2, <1>6 DEF Owns
  <2>2. /\ DOMAIN saved' = DOMAIN saved
        /\ \A t \in DOMAIN saved : saved[t] \subseteq saved'[t]
        /\ saved'[loader[c].task] = saved[loader[c].task] \cup {name}
    BY <1>6, <2>1 DEF Tasks!Store
  <2>3. Stored(r.at) \subseteq saved'[r.task]
    BY <1>2, <1>6, <2>1, <2>2 DEF Owns
  <2>4. r.task = 0 <=> r.at \in {"none", "offer", "res"}
    BY <1>6, <2>1
  <2> QED BY <1>1, <1>6, <2>2, <2>3, <2>4, GoingOn
<1>7. ASSUME Tasks!OnMeta(c) PROVE LoadingInv'
  <2>1. CASE Tasks!Fails(c)
    BY <1>1, <1>7, <2>1, Failing DEF Tasks!OnMeta
  <2>2. CASE Tasks!Store(loader[c].task, "meta") /\ Tasks!Answer(c, "good", "bulk")
    <3> DEFINE r == Tasks!Writing("bulk", loader[c].task, "good")
    <3>1. r \in Loader /\ r.task = loader[c].task /\ r.at = "bulk"
      BY <1>2 DEF Tasks!Writing, Loader, Stages
    <3>2. loader' = [loader EXCEPT ![c] = r]
      BY <2>2 DEF Tasks!Answer, LoadingTypes
    <3>3. Stored(r.at) \subseteq Stored(loader[c].at) \cup {"meta"}
      BY <1>7, <3>1 DEF Tasks!OnMeta, Stored
    <3> HIDE DEF r
    <3> QED BY <1>3, <1>6, <1>7, <2>2, <3>1, <3>2, <3>3 DEF Tasks!OnMeta
  <2> QED BY <1>7, <2>1, <2>2 DEF Tasks!OnMeta
<1>8. ASSUME Tasks!OnBulk(c) PROVE LoadingInv'
  <2>1. CASE Tasks!Fails(c)
    BY <1>1, <1>8, <2>1, Failing DEF Tasks!OnBulk
  <2>2. CASE Tasks!Store(loader[c].task, "bulk") /\ Tasks!GoOn(c, "short_description")
    <3> DEFINE r == Tasks!At("short_description", loader[c].task)
    <3>1. r \in Loader /\ r.task = loader[c].task /\ r.at = "short_description"
      BY <1>2 DEF Tasks!At, Loader, Stages
    <3>2. loader' = [loader EXCEPT ![c] = r]
      BY <2>2 DEF Tasks!GoOn, LoadingTypes
    <3>3. Stored(r.at) \subseteq Stored(loader[c].at) \cup {"bulk"}
      BY <1>8, <3>1 DEF Tasks!OnBulk, Stored
    <3> HIDE DEF r
    <3> QED BY <1>3, <1>6, <1>8, <2>2, <3>1, <3>2, <3>3 DEF Tasks!OnBulk
  <2> QED BY <1>8, <2>1, <2>2 DEF Tasks!OnBulk
<1>9. ASSUME Tasks!OnShortDescription(c) PROVE LoadingInv'
  <2>1. CASE Tasks!Fails(c)
    BY <1>1, <1>9, <2>1, Failing DEF Tasks!OnShortDescription
  <2>2. CASE Tasks!Store(loader[c].task, "short_description") /\ Tasks!GoOn(c, "dataset_meta")
    <3> DEFINE r == Tasks!At("dataset_meta", loader[c].task)
    <3>1. r \in Loader /\ r.task = loader[c].task /\ r.at = "dataset_meta"
      BY <1>2 DEF Tasks!At, Loader, Stages
    <3>2. loader' = [loader EXCEPT ![c] = r]
      BY <2>2 DEF Tasks!GoOn, LoadingTypes
    <3>3. Stored(r.at) \subseteq Stored(loader[c].at) \cup {"short_description"}
      BY <1>9, <3>1 DEF Tasks!OnShortDescription, Stored, Tasks!Needed
    <3> HIDE DEF r
    <3> QED BY <1>3, <1>6, <1>9, <2>2, <3>1, <3>2, <3>3 DEF Tasks!OnShortDescription
  <2> QED BY <1>9, <2>1, <2>2 DEF Tasks!OnShortDescription
<1>10. ASSUME Tasks!OnDatasetMeta(c) PROVE LoadingInv'
  <2> DEFINE r == Tasks!Writing("named", loader[c].task, "name")
  <2>1. r \in Loader /\ r.task = loader[c].task /\ r.at = "named"
    BY <1>2 DEF Tasks!Writing, Loader, Stages
  <2>2. loader' = [loader EXCEPT ![c] = r]
    BY <1>10 DEF Tasks!OnDatasetMeta, Tasks!Answer, LoadingTypes
  <2>3. Stored(r.at) \subseteq Stored(loader[c].at) \cup {"dataset_meta"}
    BY <1>10, <2>1 DEF Tasks!OnDatasetMeta, Stored
  <2> HIDE DEF r
  <2> QED BY <1>3, <1>6, <1>10, <2>1, <2>2, <2>3 DEF Tasks!OnDatasetMeta
<1> QED BY <1>1, <1>4, <1>5, <1>7, <1>8, <1>9, <1>10

\* pending.txt names a directory when it is whole; and even when the task cannot be
\* activated what else pending.txt named is still named by it, or has no directory.
LEMMA MarkPendingKeeps ==
  ASSUME LoadingInv, NEW c \in Controllers, loader[c].at = "named", Tasks!MarkPending(c),
         UNCHANGED <<up, made, left>>
  PROVE  LoadingInv'
<1> USE DEF LoadingInv
<1> DEFINE t == loader[c].task
<1>1. /\ t \in Nat /\ t # 0 /\ t \in DOMAIN saved /\ t \notin Tasks!Members(index)
            /\ t \in 1 .. made
      /\ Tasks!Needed \subseteq saved[t] /\ loader[c] # Tasks!Closed
  BY DEF LoadersOwn, Owns, LoadingTypes, Loader, Stored, Tasks!Closed
<1>2. up
  BY <1>1 DEF IndexIsPending, LoadingTypes
<1>3. index' \in Seq(Nat) /\ Tasks!Members(index') = Tasks!Members(pending) \cup {t}
  BY <1>1, MembersAppend DEF Tasks!MarkPending, LoadingTypes
<1>4. /\ loader' \in [Controllers -> Loader] /\ loader'[c] = Tasks!Closed
      /\ \A d \in Controllers : d # c => loader'[d] = loader[d]
  <2>1. loader' = [loader EXCEPT ![c] = Tasks!Closed] /\ Tasks!Closed \in Loader
    BY DEF Tasks!MarkPending, Tasks!Fails, Tasks!Closed, Loader, Stages
  <2> QED BY <2>1 DEF LoadingTypes
<1>5. ASSUME NEW d \in Controllers, NEW e \in Controllers, d # e PROVE Apart(d, e)'
  BY <1>4, <1>5 DEF LoadersOwn, Apart, Tasks!Closed
<1>6. ASSUME NEW d \in Controllers, d # c, loader[d].task # 0
      PROVE  loader[d].task # t /\ loader[d].task \notin Tasks!Members(index')
  <2>1. Apart(d, c) /\ Owns(d)
    BY <1>6 DEF LoadersOwn
  <2> QED BY <1>3, <1>6, <2>1 DEF Apart, Owns, IndexIsPending
<1>7. /\ Tasks!Members(index) \cap DOMAIN saved \subseteq Tasks!Members(pending)
      /\ Tasks!Members(pending) \subseteq Tasks!Members(index)
  BY <1>2 DEF IndexIsPending
<1> HIDE DEF t
<1>8. CASE saved' = saved /\ pending' = Append(pending, t)
  <2>1. pending' \in Seq(Nat) /\ Tasks!Members(pending') = Tasks!Members(pending) \cup {t}
    BY <1>1, <1>8, MembersAppend DEF LoadingTypes
  <2>2. LoadingTypes'
    BY <1>1, <1>3, <1>4, <1>7, <1>8, <2>1 DEF LoadingTypes
  <2>3. ASSUME NEW d \in Controllers PROVE Owns(d)'
    <3>1. Owns(d)
      BY DEF LoadersOwn
    <3> QED BY <1>4, <1>6, <1>8, <3>1 DEF Owns, Tasks!Closed
  <2>4. IndexIsPending'
    BY <1>2, <1>3, <2>1 DEF IndexIsPending, t
  <2>5. Tasks!DirectoriesAreAccountedFor'
    <3>1. ASSUME NEW u \in DOMAIN saved, u # t
          PROVE  IF u \in Tasks!Members(index') THEN Tasks!Needed \subseteq saved[u]
                 ELSE u \in left \/ \E d \in Controllers : loader'[d].task = u
      <4>1. u \in Tasks!Members(index') <=> u \in Tasks!Members(index)
        BY <1>3, <1>7, <3>1
      <4>2. ASSUME NEW d \in Controllers, loader[d].task = u PROVE loader'[d].task = u
        BY <1>4, <3>1, <4>2 DEF t
      <4> QED BY <4>1, <4>2 DEF Tasks!DirectoriesAreAccountedFor
    <3> QED BY <1>1, <1>3, <1>8, <3>1 DEF Tasks!DirectoriesAreAccountedFor
  <2> QED BY <1>5, <2>2, <2>3, <2>4, <2>5 DEF LoadersOwn
<1>9. CASE pending = <<>> /\ Tasks!Fails(c) /\ pending' = pending
  <2>1. DOMAIN saved' = DOMAIN saved \ {t} /\ \A u \in DOMAIN saved' : saved'[u] = saved[u]
    BY <1>9 DEF Tasks!Fails, Tasks!Removed, t
  <2>2. LoadingTypes'
    BY <1>1, <1>3, <1>4, <1>7, <1>9, <2>1 DEF LoadingTypes
  <2>3. ASSUME NEW d \in Controllers PROVE Owns(d)'
    <3>1. Owns(d)
      BY DEF LoadersOwn
    <3> QED BY <1>4, <1>6, <2>1, <3>1 DEF Owns, Tasks!Closed
  <2>4. IndexIsPending'
    BY <1>2, <1>3, <1>9, <2>1 DEF IndexIsPending
  <2>5. Tasks!DirectoriesAreAccountedFor'
    <3>1. ASSUME NEW u \in DOMAIN saved, u # t

          PROVE  /\ u \notin Tasks!Members(index')
                 /\ u \in left \/ \E d \in Controllers : loader'[d].task = u
      <4>1. u \notin Tasks!Members(index') /\ u \notin Tasks!Members(index)
        BY <1>3, <1>7, <1>9, <3>1, MembersEmpty
      <4>2. ASSUME NEW d \in Controllers, loader[d].task = u PROVE loader'[d].task = u
        BY <1>4, <3>1, <4>2 DEF t
      <4> QED BY <4>1, <4>2 DEF Tasks!DirectoriesAreAccountedFor
    <3> QED BY <2>1, <3>1 DEF Tasks!DirectoriesAreAccountedFor
  <2> QED BY <1>5, <2>2, <2>3, <2>4, <2>5 DEF LoadersOwn
<1> QED BY <1>8, <1>9 DEF Tasks!MarkPending, t

LEMMA ServerWrittenKeeps ==
  ASSUME LoadingInv, NEW c \in Controllers, Tasks!ServerWritten(c)
  PROVE  LoadingInv'
<1>1. CASE loader[c].at = "named"
  BY <1>1, MarkPendingKeeps DEF Tasks!ServerWritten
<1>2. CASE loader[c].at # "named"
  <2> DEFINE r == Tasks!At(loader[c].at, loader[c].task)
  <2>1. loader' = [loader EXCEPT ![c] = r] /\ UNCHANGED <<up, pending, index, saved, made, left>>
    BY <1>2 DEF Tasks!ServerWritten, Tasks!GoOn, LoadingInv, LoadingTypes
  <2>2. loader[c] \in Loader /\ Owns(c)
    BY DEF LoadingInv, LoadingTypes, LoadersOwn
  <2>3. r \in Loader /\ r.task = loader[c].task /\ r.at = loader[c].at
    BY <2>2 DEF Tasks!At, Loader
  <2>4. up
    BY DEF Tasks!ServerWritten, LoadingInv, LoadingTypes, IndexIsPending, Tasks!Closed
  <2> HIDE DEF r
  <2> QED BY <2>1, <2>2, <2>3, <2>4, GoingOn DEF Owns
<1> QED BY <1>1, <1>2

LEMMA ConnectKeeps ==
  ASSUME LoadingInv, NEW c \in Controllers, Tasks!Connect(c)
  PROVE  LoadingInv'
<1>1. Tasks!At("offer", 0) \in Loader /\ Tasks!At("offer", 0).task = 0 /\ Tasks!At("offer",
            0).at = "offer"
  BY DEF Tasks!At, Loader, Stages
<1>2. loader[c].task = 0
  BY DEF Tasks!Connect, Tasks!Closed
<1> QED BY <1>1, <1>2, GoingOn DEF Tasks!Connect, Tasks!disk

\* A task that is deleted takes its directory and its name along.
LEMMA DeleteKeeps ==
  ASSUME LoadingInv, NEW t, Tasks!Delete(t)
  PROVE  LoadingInv'
<1> USE DEF LoadingInv
<1>1. /\ t \in Tasks!Members(pending) /\ UNCHANGED <<up, loader, made, left>>
      /\ pending' = Tasks!Without(pending, {t}) /\ index' = Tasks!Without(pending, {t})
      /\ saved' = Tasks!Removed(t)
  BY DEF Tasks!Delete
<1>2. /\ Tasks!Without(pending, {t}) \in Seq(Nat)
      /\ Tasks!Members(Tasks!Without(pending, {t})) = Tasks!Members(pending) \ {t}
  <2>1. pending \in Seq(Nat)
    BY DEF LoadingTypes
  <2>2. /\ Tasks!Only(pending, Tasks!Members(pending) \ {t}) \in Seq(Nat)
        /\ Tasks!Members(Tasks!Only(pending, Tasks!Members(pending) \ {t}))
             = Tasks!Members(pending) \cap (Tasks!Members(pending) \ {t})
    BY <2>1, OnlyOfTasks
  <2> QED BY <2>2 DEF Tasks!Without
<1>3. /\ pending' \in Seq(Nat) /\ index' \in Seq(Nat)
      /\ Tasks!Members(pending') = Tasks!Members(pending) \ {t}
            /\ Tasks!Members(index') = Tasks!Members(pending) \ {t}
  BY <1>1, <1>2
<1>4. DOMAIN saved' = DOMAIN saved \ {t} /\ \A u \in DOMAIN saved' : saved'[u] = saved[u]
  BY <1>1 DEF Tasks!Removed
<1>5. up /\ Tasks!Members(pending) \subseteq Tasks!Members(index)
      /\ Tasks!Members(index) \cap DOMAIN saved \subseteq Tasks!Members(pending)
  BY <1>1, MembersEmpty DEF IndexIsPending, LoadingTypes
<1>6. LoadingTypes'
  BY <1>1, <1>3, <1>4, <1>5 DEF LoadingTypes
<1>7. ASSUME NEW d \in Controllers PROVE Owns(d)'
  <2>1. Owns(d)
    BY DEF LoadersOwn
  <2> QED BY <1>1, <1>3, <1>4, <1>5, <2>1 DEF Owns
<1>8. ASSUME NEW d \in Controllers, NEW e \in Controllers, d # e PROVE Apart(d, e)'
  BY <1>1, <1>8 DEF LoadersOwn, Apart
<1>9. IndexIsPending'
  BY <1>1, <1>3, <1>4, <1>5 DEF IndexIsPending
<1>10. Tasks!DirectoriesAreAccountedFor'
  <2>1. ASSUME NEW u \in DOMAIN saved'
        PROVE  u \in Tasks!Members(index') <=> u \in Tasks!Members(index)
    BY <1>3, <1>4, <1>5, <2>1
  <2> QED BY <1>1, <1>4, <2>1 DEF Tasks!DirectoriesAreAccountedFor
<1> QED BY <1>6, <1>7, <1>8, <1>9, <1>10 DEF LoadersOwn

\* The server dies, in the middle of whatever it does to a directory.
LEMMA CrashKeeps == ASSUME LoadingInv, Tasks!Crash PROVE LoadingInv'
<1> USE DEF LoadingInv
<1>1. /\ up' = FALSE /\ pending' = <<>> /\ index' = index
      /\ left' = left \cup (DOMAIN saved' \ Tasks!Members(index))
      /\ made' = IF made + 1 \in DOMAIN saved' THEN made + 1 ELSE made
      /\ loader' = [c \in Controllers |-> Tasks!Closed]
  BY DEF Tasks!Crash
<1>2. /\ DOMAIN saved' \subseteq DOMAIN saved \cup {made + 1}
      /\ \A t \in DOMAIN saved' : t # made + 1 => saved'[t] = saved[t]
      /\ made + 1 \notin DOMAIN saved /\ made + 1 \notin Tasks!Members(index)
  <2>0. made + 1 \notin DOMAIN saved /\ made + 1 \notin Tasks!Members(index)
    BY DEF LoadingTypes
  <2>1. CASE saved' = saved
    BY <2>0, <2>1
  <2>2. ASSUME NEW t, saved' = Tasks!Removed(t)

        PROVE  /\ DOMAIN saved' \subseteq DOMAIN saved
               /\ \A u \in DOMAIN saved' : saved'[u] = saved[u]
    BY <2>2 DEF Tasks!Removed
  <2>3. CASE saved' = [t \in DOMAIN saved \cup {made + 1} |->
                         IF t = made + 1 THEN {} ELSE saved[t]]
    BY <2>0, <2>3
  <2> QED BY <2>0, <2>1, <2>2, <2>3 DEF Tasks!Crash
<1>3. LoadingTypes'
  <2>1. made' \in Nat /\ DOMAIN saved' \subseteq 1 .. made'
              /\ Tasks!Members(index) \subseteq 1 .. made'
    <3>1. made \in Nat /\ DOMAIN saved \subseteq 1 .. made
                /\ Tasks!Members(index) \subseteq 1 .. made
      BY DEF LoadingTypes
    <3> QED BY <1>1, <1>2, <3>1
  <2>2. loader' \in [Controllers -> Loader] /\ pending' \in Seq(Nat)
    BY <1>1 DEF Tasks!Closed, Loader, Stages
  <2> QED BY <1>1, <2>1, <2>2 DEF LoadingTypes
<1>4. LoadersOwn'
  BY <1>1 DEF LoadersOwn, Owns, Apart, Tasks!Closed
<1>5. IndexIsPending'
  BY <1>1, MembersEmpty DEF IndexIsPending
<1>6. Tasks!DirectoriesAreAccountedFor'
  BY <1>1, <1>2 DEF Tasks!DirectoriesAreAccountedFor
<1> QED BY <1>3, <1>4, <1>5, <1>6

\* pending.txt is read again, without what has no directory.
LEMMA StartKeeps == ASSUME LoadingInv, Tasks!Start PROVE LoadingInv'
<1> USE DEF LoadingInv
<1>1. /\ up' = TRUE /\ pending' = Tasks!Only(index, DOMAIN saved) /\ index' = pending'
      /\ UNCHANGED <<loader, saved, made, left>>
      /\ \A c \in Controllers : loader[c] = Tasks!Closed
  BY DEF Tasks!Start, IndexIsPending
<1>2. index \in Seq(Nat)
  BY DEF LoadingTypes
<1>3. /\ pending' \in Seq(Nat) /\ index' \in Seq(Nat)
      /\ Tasks!Members(pending') = Tasks!Members(index) \cap DOMAIN saved
      /\ Tasks!Members(index') = Tasks!Members(index) \cap DOMAIN saved
  BY <1>1, <1>2, OnlyOfTasks
<1>4. LoadingTypes'
  BY <1>1, <1>3 DEF LoadingTypes
<1>5. LoadersOwn'
  BY <1>1 DEF LoadersOwn, Owns, Apart, Tasks!Closed
<1>6. IndexIsPending'
  BY <1>1, <1>3 DEF IndexIsPending
<1>7. Tasks!DirectoriesAreAccountedFor'
  BY <1>1, <1>3 DEF Tasks!DirectoriesAreAccountedFor
<1> QED BY <1>4, <1>5, <1>6, <1>7

LEMMA LoadingStepKeeps == ASSUME LoadingInv, [Tasks!Next]_(Tasks!vars) PROVE LoadingInv'
<1>1. ASSUME UNCHANGED <<loader, up, pending, index, saved, made, left>> PROVE LoadingInv'
  BY <1>1 DEF LoadingInv, LoadingTypes, LoadersOwn, Owns, Apart, IndexIsPending,
              Tasks!DirectoriesAreAccountedFor
<1>2. ASSUME NEW c \in Controllers,
             Tasks!ControllerWrites(c) \/ Tasks!ControllerReads(c) \/ Tasks!ControllerEnds(c)
      PROVE  LoadingInv'
  BY <1>1, <1>2 DEF Tasks!ControllerWrites, Tasks!ControllerReads, Tasks!ControllerEnds,
     Tasks!memory, Tasks!disk
<1>3. ASSUME NEW c \in Controllers, Tasks!ServerError(c) PROVE LoadingInv'
  BY <1>3, Failing DEF Tasks!ServerError
<1>4. ASSUME NEW c \in Controllers, Tasks!Connect(c) \/ Tasks!ServerReads(c)
            \/ Tasks!ServerWritten(c)
      PROVE  LoadingInv'
  BY <1>4, ConnectKeeps, ServerReadKeeps, ServerWrittenKeeps
<1>5. ASSUME Tasks!Crash \/ Tasks!Start \/ \E t \in 1 .. MaxTasks : Tasks!Delete(t)
      PROVE LoadingInv'
  BY <1>5, CrashKeeps, StartKeeps, DeleteKeeps
<1>6. CASE UNCHANGED Tasks!vars
  BY <1>1, <1>6 DEF Tasks!vars
<1> QED BY <1>2, <1>3, <1>4, <1>5, <1>6 DEF Tasks!Next

-----------------------------------------------------------------------------
(* The web front end.                                                      *)


Exchanged == [request : {0, 1}, of : {"version", "task_loader",
      "task_loader_detail"} \cup Web!Commands, step : Nat]

\* While a cancel is posted, and not for a browser that has been given up, nothing is
\* outstanding: the driver may be canceled.
CancelIsAlone == cancel_pending /\ web_timer => reading = "none"
      /\ writing_answer = "none" /\ native = <<>>

WebInv ==
  /\ request \in {0, 1}
  /\ native = <<>> \/ native \in Exchanged
  /\ reading # "none" => writing_answer = "none" /\ native = <<>>
  /\ writing_answer # "none" => native = <<>>
  /\ native # <<>> => native.request = request
  /\ CancelIsAlone

\* What is outstanding after a handler of which nothing else was.
LEMMA NothingElse ==
  ASSUME WebInv, native # <<>> \/ reading # "none" \/ writing_answer # "none"
  PROVE  ~(cancel_pending /\ web_timer)
BY DEF WebInv, CancelIsAlone

LEMMA WebStarts == Web!Init => WebInv
BY DEF Web!Init, WebInv, CancelIsAlone

LEMMA AnswerKeeps ==
  ASSUME WebInv, NEW r, NEW how, Web!Answer(r, how), reading' = "none", request' \in {0, 1},
         web_timer' = web_timer, ~(cancel_pending /\ web_timer)
  PROVE  WebInv'
BY DEF Web!Answer, Web!Kept, WebInv, CancelIsAlone

LEMMA AskKeeps ==
  ASSUME WebInv, NEW r, NEW of \in {"version", "task_loader",
        "task_loader_detail"} \cup Web!Commands,
         Web!Ask(r, of), reading' = "none", writing_answer = "none", request' \in {0, 1},
         web_timer' = web_timer, ~(cancel_pending /\ web_timer)
  PROVE  WebInv'
<1>1. native' \in Exchanged /\ native'.request = request'
  BY DEF Web!Ask, Exchanged
<1> QED BY <1>1 DEF Web!Ask, Web!Kept, WebInv, CancelIsAlone

LEMMA TellKeeps ==
  ASSUME WebInv, NEW r, Web!Tell(r), reading' = "none", request' \in {0, 1},
        web_timer' = web_timer
  PROVE  WebInv'
BY DEF Web!Tell, Web!Abandoned, WebInv, CancelIsAlone

LEMMA NothingKeeps ==
  ASSUME WebInv, Web!Nothing, writing_answer = "none", request' \in {0, 1},
        web_timer' = web_timer,
         ~(cancel_pending /\ web_timer)
  PROVE  WebInv'
BY DEF Web!Nothing, WebInv, CancelIsAlone

LEMMA ProcessedKeeps ==
  ASSUME WebInv, Web!Processed, reading # "none", reading' = "none", request' \in {0, 1},
         web_timer' = web_timer
  PROVE  WebInv'
<1>1. ~(cancel_pending /\ web_timer) /\ writing_answer = "none" /\ native = <<>>
  BY NothingElse DEF WebInv
<1>2. CASE Web!Exits
  BY <1>1, <1>2, NothingKeeps DEF Web!Exits
<1>3. CASE Web!Process
  <2>1. CASE Web!Answer(resource, "answer")
    BY <1>1, <2>1, AnswerKeeps
  <2>2. CASE /\ resource' = "file" /\ cache_control' = "public"
             /\ writing_answer' = "headers" /\ native' = <<>> /\ Web!Kept
    BY <1>1, <2>2 DEF Web!Kept, WebInv, CancelIsAlone
  <2>3. ASSUME NEW r \in Web!Commands, Web!Ask(r, r) \/ Web!Tell(r) PROVE WebInv'
    BY <1>1, <2>3, AskKeeps, TellKeeps
  <2>4. CASE Web!Tell("new_task")
    BY <2>4, TellKeeps
  <2>5. CASE Web!Ask("task_loader", "task_loader")
    BY <1>1, <2>5, AskKeeps
  <2> QED BY <1>3, <2>1, <2>2, <2>3, <2>4, <2>5 DEF Web!Process
<1> QED BY <1>2, <1>3 DEF Web!Processed

LEMMA NativeReadKeeps == ASSUME WebInv, Web!NativeRead PROVE WebInv'
<1>1. /\ native # <<>> /\ native \in Exchanged /\ reading = "none" /\ writing_answer = "none"
      /\ ~(cancel_pending /\ web_timer)
      /\ reading' = reading /\ request' = request /\ web_timer' = web_timer /\ request' \in {0,
            1}
  BY NothingElse DEF Web!NativeRead, WebInv, Web!connectionVars
<1>2. ASSUME Web!Good PROVE WebInv'
  <2>1. CASE native.of \in Web!Commands
    <3>1. native.of # "task_loader"
      BY <2>1 DEF Web!Commands
    <3> QED BY <1>1, <1>2, <2>1, <3>1, AnswerKeeps DEF Web!Good
  <2>2. CASE native.of = "task_loader" /\ native.of \notin Web!Commands
    <3>1. CASE Web!DeletedAndTold
      BY <1>1, <3>1 DEF Web!DeletedAndTold, Web!Abandoned, WebInv, CancelIsAlone
    <3> QED BY <1>1, <1>2, <2>2, <3>1, TellKeeps, AskKeeps DEF Web!Good
  <2>3. CASE native.of # "task_loader" /\ native.of \notin Web!Commands
    <3>1. CASE native.step = 3
      <4>1. /\ native' = [native EXCEPT !.step = @ + 1]
            /\ UNCHANGED <<resource, cache_control, writing_answer>> /\ Web!Kept
        BY <1>2, <2>3, <3>1 DEF Web!Good
      <4>2. native' \in Exchanged /\ native'.request = native.request
        BY <1>1, <4>1 DEF Exchanged
      <4> QED BY <1>1, <4>1, <4>2 DEF Web!Kept, WebInv, CancelIsAlone
    <3>2. CASE native.step # 3
      BY <1>1, <1>2, <2>3, <3>2, AnswerKeeps DEF Web!Good
    <3> QED BY <3>1, <3>2
  <2> QED BY <2>1, <2>2, <2>3
<1>3. ASSUME Web!Bad PROVE WebInv'
  <2>1. Web!Tell(resource) \/ Web!Nothing \/ Web!Deleted
    BY <1>3 DEF Web!Bad
  <2>2. CASE Web!Deleted
    BY <1>1, <2>2 DEF Web!Deleted, WebInv, CancelIsAlone
  <2> QED BY <1>1, <2>1, <2>2, TellKeeps, NothingKeeps
<1> QED BY <1>2, <1>3 DEF Web!NativeRead

LEMMA WebStepKeeps == ASSUME WebInv, [Web!Next]_(Web!vars) PROVE WebInv'
<1>1. CASE Web!BrowserGone \/ Web!ServerGone \/ Web!NativeGivenUp \/ Web!Another \/ Web!OnCancel
  BY <1>1 DEF Web!BrowserGone, Web!ServerGone, Web!NativeGivenUp, Web!Another, Web!OnCancel,
     Web!connectionVars,
              WebInv, CancelIsAlone
<1>2. CASE Web!Handshake
  <2>1. ~(cancel_pending /\ web_timer) /\ writing_answer = "none" /\ reading' = "none"
              /\ request' \in {0, 1}
        /\ web_timer' = web_timer
    BY <1>2, NothingElse DEF Web!Handshake, WebInv, Web!connectionVars
  <2> QED BY <1>2, <2>1, TellKeeps, AskKeeps DEF Web!Handshake
<1>3. CASE Web!Line \/ Web!TooMany
  BY <1>3 DEF Web!Line, Web!TooMany, Web!connectionVars, WebInv, CancelIsAlone
<1>4. CASE Web!Header
  <2>1. /\ ~(cancel_pending /\ web_timer) /\ writing_answer = "none" /\ reading # "none"
        /\ request' \in {0, 1} /\ web_timer' = web_timer
    BY <1>4, NothingElse DEF Web!Header, WebInv
  <2> QED BY <1>4, <2>1, NothingKeeps, AnswerKeeps, ProcessedKeeps DEF Web!Header
<1>5. CASE Web!Body \/ Web!Rest
  <2>1. /\ ~(cancel_pending /\ web_timer) /\ writing_answer = "none" /\ reading # "none"
        /\ request' \in {0, 1} /\ web_timer' = web_timer
    BY <1>5, NothingElse DEF Web!Body, Web!Rest, WebInv
  <2> QED BY <1>5, <2>1, NothingKeeps, ProcessedKeeps DEF Web!Body, Web!Rest
<1>6. CASE Web!NativeWritten
  <2>1. native \in Exchanged /\ request' = request
    BY <1>6 DEF Web!NativeWritten, WebInv
  <2>2. CASE native.of = "version"
    BY <1>6, <2>2 DEF Web!NativeWritten, Web!connectionVars, WebInv, CancelIsAlone
  <2>3. CASE native.of # "version"
    <3>1. native' = [native EXCEPT !.step = @ + 1] /\ UNCHANGED reading
      BY <1>6, <2>3 DEF Web!NativeWritten
    <3>2. native' \in Exchanged /\ native'.request = native.request
      BY <2>1, <3>1 DEF Exchanged
    <3> QED BY <1>6, <3>1, <3>2 DEF Web!NativeWritten, Web!connectionVars, WebInv, CancelIsAlone
  <2> QED BY <2>2, <2>3
<1>7. CASE Web!NativeRead
  BY <1>7, NativeReadKeeps
<1>8. CASE Web!Written
  BY <1>8 DEF Web!Written, WebInv, CancelIsAlone
<1>9. CASE Web!ErrorWritten
  BY <1>9 DEF Web!ErrorWritten, Web!Cancels, Web!connectionVars, WebInv, CancelIsAlone
<1>10. CASE Web!KeepaliveTimeout
  BY <1>10 DEF Web!KeepaliveTimeout, Web!Cancels, WebInv, CancelIsAlone
<1>11. CASE UNCHANGED Web!vars
  BY <1>11 DEF Web!vars, WebInv, CancelIsAlone
<1> QED BY <1>1, <1>2, <1>3, <1>4, <1>5, <1>6, <1>7, <1>8, <1>9, <1>10, <1>11 DEF Web!Next

-----------------------------------------------------------------------------
(* The sessions.  What is on its way between a peer and the server is what *)
(* is in the channel and what is being written.  The invariant says, of    *)
(* each stage of the server's end of a connection, what may be on its way  *)
(* to the server, and, while the peer lives, where the peer then is and    *)
(* what is on its way to it.                                               *)

\* What an answer is about, and what a peer has computed from.
Things == {Missing, Partial, "other", "none", "offer", "res", "meta"}
          \cup {Serving!TaskOf(k) : k \in Nat}
Types == {"none", "version", "ready", "offer", "res", "meta", "bulk", "sync", "end",
          "good", "bad", "skip", "report"}
Message == [type : Types, n : Nat, about : Things]
Users == {"none", "peer_connection", "processing_peer", "end_process_writer",
          "task_processor", "task_processor_detail_meta", "task_processor_detail"}
ReadCallbacks ==
  {"none", "on_version", "on_read", "on_read_offer_response", "on_read_res_response",
   "on_read_meta_response", "on_read_report", "on_read_echo", "on_res", "on_meta",
   "on_bulk_read", "on_first_sync_read", "on_sync_read", "on_end_process_read"}
PeerReads == {"on_read", "on_res", "on_meta", "on_bulk_read", "on_first_sync_read",
              "on_sync_read", "on_end_process_read"}
WriteCallbacks ==
  {"none", "on_write", "on_write_res", "on_write_meta", "on_write_bulk", "on_write_sync",
   "on_late_write_sync", "late_write_end_process", "on_write_end_process",
   "on_version_write", "on_ready_to_process_write", "on_written_good_offer",
   "on_written_good_res", "on_bad_meta_reply_write", "on_meta_reply_write",
   "on_skip_bulk_reply_write", "on_peer_report_write", "respond_to_end_process",
   "on_end_process_replied_write"}
End == [user : Users, n : Nat, rcb : ReadCallbacks, wcb : WriteCallbacks, reading : BOOLEAN,
        out : Message, ready : BOOLEAN, held : BOOLEAN, timer : {"off", "on", "send"},
        load : {"none", "hash", "read", "open", "write"}, loaded : Things]
SessionTypes ==
  /\ machine \in Machines /\ n \in Nat /\ file \in Things
  /\ srv \in [Serving!Peers -> End] /\ cli \in [Serving!Peers -> End]
  /\ toC \in [Serving!Peers -> Seq(Message)] /\ toS \in [Serving!Peers -> Seq(Message)]

With(q, e) == IF Serving!WritePending(e) THEN Append(q, e.out) ELSE q
Coming(p) == With(toC[p], srv[p])
Going(p) == With(toS[p], cli[p])

Version == Serving!Msg("version", 0, "none")
Ready == Serving!Msg("ready", 0, "none")
Empty(q) == Len(q) = 0
One(q, m) == Len(q) = 1 /\ q[1] = m
Two(q, a, b) == Len(q) = 2 /\ q[1] = a /\ q[2] = b

\* A report of a peer to the i-th task.
IsReport(p, m, i) == m.type = "report" /\ m.n = i /\ (p \notin Serving!Clones => m.about = Serving!TaskOf(i))
Reports(p, q, i) == \A k \in 1..Len(q) : IsReport(p, q[k], i)
OldReports(q) == \A k \in 1..Len(q) : q[k].type = "report"
Syncs(q, i) == \A k \in 1..Len(q) : q[k].type = "sync" /\ q[k].n = i

\* What a peer may have sent before it echoes end_process, and with and after the echo.
Early(m, i) == m.type = "report" \/ (m.type \in {"good", "bad", "skip"} /\ m.n = i)
NoEcho(q, i) == \A k \in 1..Len(q) : Early(q[k], i)
EchoAt(q, i, k) ==
  /\ \A j \in 1..Len(q) : j < k => Early(q[j], i)
  /\ q[k].type = "end" /\ q[k].n = i
  /\ \/ \A j \in 1..Len(q) : j > k => q[j].type = "report"
     \/ Len(q) = k + 1 /\ q[k + 1] = Ready
Echoed(q, i) == \E k \in 1..Len(q) : EchoAt(q, i, k)
EndsWith(q, type) == Len(q) > 0 /\ q[Len(q)].type = type

\* The stages of the server's end.  What it hands out, it has written or is writing.
Greeting(s) == /\ s.user = "peer_connection" /\ s.rcb = "on_version" /\ s.reading
               /\ s.out = Serving!Silence /\ ~s.ready /\ ~s.held
Waiting(s) == /\ s.user = "peer_connection" /\ s.rcb = "on_read" /\ s.reading
              /\ s.out = Serving!Silence /\ ~s.held
Handing(s, type, wcb, before, rcb) ==
  /\ s.user = "processing_peer" /\ s.wcb = wcb /\ ~s.ready /\ ~s.held
  /\ \/ s.out = Serving!Silence /\ s.rcb = rcb /\ s.reading
     \/ s.out = Serving!Msg(type, s.n, "none") /\ s.rcb = before /\ (type # "offer" => ~s.reading)
Offering(s) == Handing(s, "offer", "on_write", "none", "on_read_offer_response")
Resourcing(s) == Handing(s, "res", "on_write_res", "on_read_offer_response",
                         "on_read_res_response")
Describing(s) == Handing(s, "meta", "on_write_meta", "on_read_res_response",
                         "on_read_meta_response")
Filling(s) == /\ s.user = "processing_peer" /\ s.wcb = "on_write_bulk" /\ ~s.ready /\ ~s.held
              /\ s.rcb = "on_read_meta_response" /\ s.out = Serving!Msg("bulk", s.n, "none") /\ ~s.reading
Working(s) == /\ s.user = "processing_peer" /\ s.rcb = "on_read_report" /\ ~s.ready
              /\ s.wcb \in {"on_write_sync", "on_late_write_sync"}
              /\ s.out \in {Serving!Silence, Serving!Msg("sync", s.n, "none")}
Ending(s) == /\ s.user = "end_process_writer" /\ s.rcb = "on_read_echo" /\ ~s.ready /\ ~s.held
             /\ s.wcb = "late_write_end_process"
             /\ s.out.type \in {"offer", "res", "meta", "bulk", "sync"} /\ s.out.n = s.n
Ended(s) == /\ s.user = "end_process_writer" /\ s.rcb = "on_read_echo" /\ ~s.ready /\ ~s.held
            /\ s.wcb = "on_write_end_process"
            /\ s.out \in {Serving!Silence, Serving!Msg("end", s.n, "none")}

\* The places of the peer.
Still(c) == c.timer = "off" /\ c.load = "none"
Writes(c, m, wcb) == Still(c) /\ c.out = m /\ c.wcb = wcb /\ ~c.reading
Reads(c, rcb) == Still(c) /\ c.out = Serving!Silence /\ c.rcb = rcb /\ c.reading

Greets(c) == Writes(c, Version, "on_version_write")
Readies(c) == Writes(c, Ready, "on_ready_to_process_write")
Idles(c) == Reads(c, "on_read") /\ c.wcb = "on_ready_to_process_write"
Declines(c, i) == Writes(c, Serving!Msg("bad", i, "offer"), "on_ready_to_process_write")
Accepts(c) == Writes(c, Serving!Msg("good", c.n, "offer"), "on_written_good_offer")
OnResources(c) == Reads(c, "on_res")
TakesResources(c) == Writes(c, Serving!Msg("good", c.n, "res"), "on_written_good_res")
OnMetadata(c) == Reads(c, "on_meta")
Refuses(c) == Writes(c, Serving!Msg("bad", c.n, "meta"), "on_bad_meta_reply_write")
OnEnd(c) == Reads(c, "on_end_process_read")
Loads(c) == c.timer = "off" /\ c.load \in {"hash", "read"} /\ c.out = Serving!Silence /\ ~c.reading
Asks(c) == Writes(c, Serving!Msg("good", c.n, "meta"), "on_meta_reply_write")
OnBulk(c) == Reads(c, "on_bulk_read")
Has(p, c) == p \notin Serving!Clones => c.loaded = Serving!TaskOf(c.n)
Saves(p, c) == /\ c.timer = "off" /\ c.load \in {"open", "write"} /\ c.out = Serving!Silence
               /\ ~c.reading /\ Has(p, c)
Skips(p, c) == Writes(c, Serving!Msg("skip", c.n, "meta"), "on_skip_bulk_reply_write") /\ Has(p, c)
OnFirst(p, c) == Reads(c, "on_first_sync_read") /\ Has(p, c)
Computes(p, c) == /\ c.load = "none" /\ c.rcb = "on_sync_read" /\ c.reading /\ Has(p, c)
                  /\ c.wcb \in {"on_write", "on_peer_report_write"}
                  /\ c.out = Serving!Silence \/ IsReport(p, c.out, c.n)

\* It has read end_process: it is to echo it, does so, or has something else to write first,
\* after which nothing keeps its end alive.
IsDeaf(c) == c.load = "none" /\ ~c.reading
ToEcho(c) == IsDeaf(c) /\ c.out.type = "report" /\ c.wcb = "respond_to_end_process"
Echoes(c) == /\ IsDeaf(c) /\ c.out.type = "end" /\ c.out.n = c.n
             /\ c.wcb \in {"on_end_process_replied_write", "on_peer_report_write"}
ReportsOn(c) == /\ IsDeaf(c) /\ c.out.type = "report"
                /\ c.wcb \in {"on_peer_report_write", "on_write"}

AtTask(p, c) ==
  \/ Accepts(c) \/ OnResources(c) \/ TakesResources(c) \/ OnMetadata(c) \/ Refuses(c) \/ OnEnd(c)
  \/ Loads(c) \/ Asks(c) \/ OnBulk(c) \/ Saves(p, c) \/ Skips(p, c) \/ OnFirst(p, c)
  \/ Computes(p, c)

\* Where the peer is, and what is under way, in each of the server's stages.
Greeted(c, in, go) ==
  /\ Empty(in)
  /\ \/ Greets(c) /\ One(go, Version)
     \/ (Readies(c) \/ Idles(c)) /\ Two(go, Version, Ready)

Waited(s, c, in, go) ==
  /\ Empty(in)
  /\ \/ (Readies(c) \/ Idles(c)) /\ One(go, Ready) /\ ~s.ready
     \/ Idles(c) /\ Empty(go) /\ s.ready
     \/ ReportsOn(c) /\ OldReports(go) /\ ~s.ready

Offered(i, c, in, go) ==
  \/ Idles(c) /\ One(in, Serving!Msg("offer", i, "none")) /\ Empty(go)
  \/ Idles(c) /\ Empty(in) /\ (Empty(go) \/ One(go, Serving!Msg("bad", i, "offer")))
  \/ Declines(c, i) /\ Empty(in) /\ One(go, Serving!Msg("bad", i, "offer"))
  \/ (Accepts(c) \/ OnResources(c)) /\ c.n = i /\ Empty(in) /\ One(go, Serving!Msg("good", i, "offer"))

Resourced(i, c, in, go) ==
  /\ c.n = i
  /\ \/ OnResources(c) /\ One(in, Serving!Msg("res", i, "none")) /\ Empty(go)
     \/ (TakesResources(c) \/ OnMetadata(c)) /\ Empty(in) /\ One(go, Serving!Msg("good", i, "res"))

Described(p, i, c, in, go) ==
  /\ c.n = i
  /\ \/ OnMetadata(c) /\ One(in, Serving!Msg("meta", i, "none")) /\ Empty(go)
     \/ (Refuses(c) \/ OnEnd(c)) /\ Empty(in) /\ One(go, Serving!Msg("bad", i, "meta"))
     \/ (OnEnd(c) \/ Loads(c)) /\ Empty(in) /\ Empty(go)
     \/ (Asks(c) \/ OnBulk(c)) /\ Empty(in) /\ One(go, Serving!Msg("good", i, "meta"))
     \/ (Skips(p, c) \/ OnFirst(p, c)) /\ Empty(in) /\ One(go, Serving!Msg("skip", i, "meta"))

Filled(i, c, in, go) == c.n = i /\ OnBulk(c) /\ One(in, Serving!Msg("bulk", i, "none")) /\ Empty(go)

Worked(p, i, c, in, go) ==
  /\ c.n = i
  /\ \/ /\ OnBulk(c) /\ Len(in) > 0 /\ in[1] = Serving!Msg("bulk", i, "none")
        /\ \A k \in 2..Len(in) : in[k].type = "sync" /\ in[k].n = i
        /\ Empty(go)
     \/ (Saves(p, c) \/ OnFirst(p, c) \/ Computes(p, c)) /\ Syncs(in, i)

\* The peer has not read end_process, which is the last that is on its way if it is.
Unaware(p, s, c, in, go) ==
  /\ Idles(c) \/ Declines(c, s.n) \/ (AtTask(p, c) /\ c.n = s.n)
  /\ \A k \in 1..Len(in) : in[k].n = s.n
  /\ Ended(s) => Len(in) > 0
  /\ \A k \in 1..Len(in) : in[k].type = "end" <=> Ended(s) /\ k = Len(in)
  /\ NoEcho(go, s.n)

\* It has.
Aware(s, c, in, go) ==
  /\ Empty(in) /\ s.out = Serving!Silence
  /\ \/ (ToEcho(c) \/ ReportsOn(c)) /\ c.n = s.n /\ NoEcho(go, s.n)
     \/ Echoes(c) /\ c.n = s.n /\ Echoed(go, s.n) /\ EndsWith(go, "end")
     \/ ReportsOn(c) /\ c.n = s.n /\ Echoed(go, s.n) /\ EndsWith(go, "report")
     \/ (Readies(c) \/ Idles(c)) /\ Echoed(go, s.n) /\ EndsWith(go, "ready")

Answered(s, q, about) ==
  \/ Empty(q)
  \/ s.out = Serving!Silence /\ \E type \in {"good", "bad", "skip"} : One(q, Serving!Msg(type, s.n, about))

AtGreeting(s, c, in, go) == /\ Greeting(s)
                            /\ Empty(go) \/ One(go, Version) \/ Two(go, Version, Ready)
                            /\ c # Serving!Closed => Greeted(c, in, go)
AtWaiting(s, c, in, go) == /\ Waiting(s)
                           /\ Empty(go) \/ (~s.ready /\ (One(go, Ready) \/ OldReports(go)))
                           /\ c # Serving!Closed => Waited(s, c, in, go)
AtOffering(s, c, in, go) == /\ Offering(s) /\ Answered(s, go, "offer")
                            /\ c # Serving!Closed => Offered(s.n, c, in, go)
AtResourcing(s, c, in, go) == /\ Resourcing(s) /\ Answered(s, go, "res")
                              /\ c # Serving!Closed => Resourced(s.n, c, in, go)
AtDescribing(p, s, c, in, go) == /\ Describing(s) /\ Answered(s, go, "meta")
                                 /\ c # Serving!Closed => Described(p, s.n, c, in, go)
AtFilling(s, c, in, go) == /\ Filling(s) /\ Empty(go)
                           /\ c # Serving!Closed => Filled(s.n, c, in, go)
AtWorking(p, s, c, in, go) == /\ Working(s) /\ Reports(p, go, s.n)
                              /\ c # Serving!Closed => Worked(p, s.n, c, in, go)
AtEnding(p, s, c, in, go) == /\ Ending(s) /\ NoEcho(go, s.n)
                             /\ c # Serving!Closed => Unaware(p, s, c, in, go)
AtEnded(p, s, c, in, go) ==
  /\ Ended(s) /\ (NoEcho(go, s.n) \/ (s.out = Serving!Silence /\ Echoed(go, s.n)))
  /\ c # Serving!Closed => Unaware(p, s, c, in, go) \/ Aware(s, c, in, go)

Session(p, s, c, in, go) ==
  \/ AtGreeting(s, c, in, go) \/ AtWaiting(s, c, in, go) \/ AtOffering(s, c, in, go)
  \/ AtResourcing(s, c, in, go) \/ AtDescribing(p, s, c, in, go) \/ AtFilling(s, c, in, go)
  \/ AtWorking(p, s, c, in, go) \/ AtEnding(p, s, c, in, go) \/ AtEnded(p, s, c, in, go)

InSession(p) == srv[p] # Serving!Closed => Session(p, srv[p], cli[p], Coming(p), Going(p))

\* A peer reads with a callback; the first instance alone writes bulk.msg, and what it
\* reads is the bulk of its task.
FileIsKept(p) ==
  /\ cli[p].reading => cli[p].rcb \in PeerReads
  /\ cli[p].load \in {"open", "write"} => p \notin Serving!Clones
  /\ cli[p].load = "read" /\ p \notin Serving!Clones /\ srv[p] # Serving!Closed => file = Serving!TaskOf(cli[p].n)

SessionsInv == SessionTypes /\ \A p \in Serving!Peers : InSession(p) /\ FileIsKept(p)

-----------------------------------------------------------------------------
(* Ends and messages.                                                      *)

\* An end with another field is an end.
LEMMA OtherField ==
  ASSUME NEW e \in End
  PROVE  /\ \A user \in Users : [e EXCEPT !.user = user] \in End
         /\ \A cb \in ReadCallbacks : [e EXCEPT !.rcb = cb] \in End
         /\ \A cb \in WriteCallbacks : [e EXCEPT !.wcb = cb] \in End
         /\ \A word \in {"off", "on", "send"} : [e EXCEPT !.timer = word] \in End
         /\ \A word \in {"none", "hash", "read", "open", "write"} : [e EXCEPT !.load = word] \in End
         /\ \A flag \in BOOLEAN :
              /\ [e EXCEPT !.reading = flag] \in End /\ [e EXCEPT !.ready = flag] \in End
              /\ [e EXCEPT !.held = flag] \in End
         /\ \A m \in Message : [e EXCEPT !.out = m] \in End
         /\ \A k \in Nat : [e EXCEPT !.n = k] \in End
         /\ \A thing \in Things : [e EXCEPT !.loaded = thing] \in End
BY DEF End

LEMMA MessageType ==
  ASSUME NEW type \in Types, NEW i \in Nat, NEW about \in Things
  PROVE  Serving!Msg(type, i, about) \in Message
BY DEF Serving!Msg, Message

LEMMA SomeThings ==
  /\ Missing \in Things /\ Partial \in Things /\ "other" \in Things /\ "none" \in Things
  /\ "offer" \in Things /\ "res" \in Things /\ "meta" \in Things
  /\ \A k \in Nat : Serving!TaskOf(k) \in Things
  /\ Serving!Silence \in Message
<1>1. "none" \in Things
  BY DEF Things
<1>2. Serving!Silence \in Message
  BY <1>1 DEF Serving!Silence, Serving!Msg, Message, Types
<1> QED BY <1>2 DEF Things

LEMMA ClosedType == Serving!Closed \in End
BY SomeThings DEF Serving!Closed, End, Users, ReadCallbacks, WriteCallbacks

LEMMA DriverKeepsTypes ==
  ASSUME NEW e \in End
  PROVE  /\ Serving!ReadAgain(e) \in End /\ Serving!Kept(e) \in End
         /\ \A cb \in ReadCallbacks : Serving!SetRead(e, cb) \in End /\ Serving!Read(e, cb) \in End
         /\ \A m \in Message : Serving!WriteAgain(e, m) \in End
         /\ \A cb \in WriteCallbacks :
              /\ Serving!SetWrite(e, cb) \in End
              /\ \A m \in Message : Serving!Write(e, m, cb) \in End
<1>1. \A d \in End : Serving!ReadAgain(d) \in End
  BY OtherField DEF Serving!ReadAgain
<1>2. \A d \in End : \A m \in Message : Serving!WriteAgain(d, m) \in End
  BY OtherField DEF Serving!WriteAgain
<1>3. \A cb \in ReadCallbacks : Serving!SetRead(e, cb) \in End
  BY OtherField DEF Serving!SetRead
<1>4. \A cb \in WriteCallbacks : Serving!SetWrite(e, cb) \in End
  BY OtherField DEF Serving!SetWrite
<1>5. Serving!Kept(e) \in End
  BY ClosedType DEF Serving!Kept
<1> QED BY <1>1, <1>2, <1>3, <1>4, <1>5 DEF Serving!Read, Serving!Write

LEMMA TakenOverType ==
  ASSUME NEW e \in End, NEW user \in Users
  PROVE  Serving!TakenOver(e, user) \in End
<1> DEFINE e1 == [e EXCEPT !.user = user]
           e2 == [e1 EXCEPT !.rcb = "none"]
           e3 == [e2 EXCEPT !.wcb = "none"]
           e4 == [e3 EXCEPT !.ready = FALSE]
           e5 == [e4 EXCEPT !.held = FALSE]
<1>1. e1 \in End
  BY OtherField
<1>2. e2 \in End
  BY <1>1, OtherField DEF ReadCallbacks
<1>3. e3 \in End
  BY <1>2, OtherField DEF WriteCallbacks
<1>4. e4 \in End
  BY <1>3, OtherField
<1>5. e5 \in End
  BY <1>4, OtherField
<1>6. [e5 EXCEPT !.timer = "off"] \in End
  BY <1>5, OtherField
<1>7. Serving!TakenOver(e, user) = [e5 EXCEPT !.timer = "off"]
  BY DEF Serving!TakenOver
<1> QED BY <1>6, <1>7

\* What the server makes of its end is one.
LEMMA ServerTypes ==
  ASSUME NEW e \in End, n \in Nat
  PROVE  /\ \A i \in Nat : Serving!NewProcessingPeer(e, i) \in End
         /\ Serving!NewEndProcessWriter(e) \in End
         /\ Serving!AfterServerWrite(e) \in End
         /\ \A m \in Message : Serving!AtServer(e, m) \in End
<1> USE DEF Users, ReadCallbacks, WriteCallbacks
<1>0. /\ \A i \in Nat : \A type \in Types : Serving!Msg(type, i, "none") \in Message
      /\ e.n \in Nat /\ Serving!Closed \in End
  BY MessageType, SomeThings, ClosedType DEF End
<1>t. Types = Types \cup {"offer", "res", "meta", "bulk", "sync", "end"}
  BY DEF Types
<1>1. ASSUME NEW d \in End, NEW i \in Nat PROVE Serving!NewProcessingPeer(d, i) \in End
  <2>1. Serving!TakenOver(d, "processing_peer") \in End
    BY TakenOverType
  <2>2. [Serving!TakenOver(d, "processing_peer") EXCEPT !.n = i] \in End
    BY <2>1, OtherField
  <2>3. Serving!Msg("offer", i, "none") \in Message
    BY <1>0 DEF Types
  <2> QED BY <2>2, <2>3, DriverKeepsTypes DEF Serving!NewProcessingPeer
<1>2. Serving!NewEndProcessWriter(e) \in End
  <2> DEFINE w == Serving!SetRead(Serving!TakenOver(e, "end_process_writer"), "on_read_echo")
  <2>1. w \in End
    BY TakenOverType, DriverKeepsTypes
  <2>2. Serving!Msg("end", w.n, "none") \in Message
    <3>1. w.n \in Nat
      BY <2>1 DEF End
    <3> QED BY <3>1, <1>0 DEF Types
  <2>3. Serving!SetWrite(w, "late_write_end_process") \in End
    BY <2>1, DriverKeepsTypes
  <2>4. Serving!Write(w, Serving!Msg("end", w.n, "none"), "on_write_end_process") \in End
    BY <2>1, <2>2, DriverKeepsTypes
  <2> QED BY <2>3, <2>4 DEF Serving!NewEndProcessWriter
<1>3. \A type \in {"offer", "res", "meta", "bulk", "sync", "end"} :
         \A cb \in WriteCallbacks : Serving!Write(e, Serving!Msg(type, e.n, "none"), cb) \in End
  <2>1. \A type \in {"offer", "res", "meta", "bulk", "sync", "end"} : Serving!Msg(type, e.n, "none") \in Message
    BY <1>0, <1>t
  <2> QED BY <2>1, DriverKeepsTypes
<1>4. ASSUME NEW d \in End PROVE Serving!OnWriteBulk(d) \in End
  <2>1. Serving!Read(d, "on_read_report") \in End
    BY DriverKeepsTypes
  <2> QED BY <2>1, DriverKeepsTypes DEF Serving!OnWriteBulk
<1>5. Serving!AfterServerWrite(e) \in End
  <2>1. \A cb \in {"on_read_offer_response", "on_read_res_response", "on_read_meta_response"} :
          Serving!SetRead(e, cb) \in End /\ Serving!Read(e, cb) \in End
    BY DriverKeepsTypes
  <2>2. Serving!OnWriteEndProcess(e) \in End
    BY DriverKeepsTypes DEF Serving!OnWriteEndProcess
  <2> QED BY <1>3, <1>4, <2>1, <2>2 DEF Serving!AfterServerWrite
<1>6. ASSUME NEW m \in Message PROVE Serving!AtServer(e, m) \in End
  <2>1. Serving!ReadAgain(e) \in End /\ Serving!Read(e, "on_read") \in End
    BY DriverKeepsTypes
  <2>2. Serving!OnRead(e, m) \in End
    <3>1. Serving!Queued(e) \in End
      BY <2>1, OtherField DEF Serving!Queued
    <3> QED BY <3>1, <2>1, <1>1 DEF Serving!OnRead
  <2>3. Serving!OnReadEcho(e, m) \in End
    <3>1. Serving!Read(Serving!TakenOver(e, "peer_connection"), "on_read") \in End
      BY TakenOverType, DriverKeepsTypes
    <3> QED BY <3>1, <2>1 DEF Serving!OnReadEcho
  <2>4. Serving!OnReadAnswer(e, m) \in End
    BY <2>1, <1>3, <1>4 DEF Serving!OnReadAnswer
  <2>5. Serving!OnReadReport(e, m) \in End
    BY <2>1, <1>0 DEF Serving!OnReadReport
  <2> QED BY <2>1, <2>2, <2>3, <2>4, <2>5, <1>0 DEF Serving!AtServer
<1> QED BY <1>1, <1>2, <1>5, <1>6

\* So is what the peer makes of its own.
LEMMA PeerTypes ==
  ASSUME NEW e \in End, NEW p
  PROVE  /\ Serving!AfterPeerWrite(e) \in End
         /\ e.rcb \in PeerReads =>
              \A m \in Message : \A news \in BOOLEAN : Serving!AtPeer(p, e, m, news) \in End
<1> USE DEF Users, ReadCallbacks, WriteCallbacks
<1>0. /\ e.n \in Nat /\ e.loaded \in Things /\ Serving!Closed \in End
      /\ \A m \in Message : m.n \in Nat
      /\ \A k \in Nat : Serving!TaskOf(k) \in Things
      /\ \A about \in {"none", "offer", "res", "meta"} : about \in Things
  BY SomeThings, ClosedType DEF End, Message
<1>1. /\ \A i \in Nat : \A type \in Types : \A thing \in Things : Serving!Msg(type, i, thing) \in Message
      /\ \A type \in {"good", "bad", "skip", "end", "report", "ready"} : type \in Types
  BY MessageType DEF Types
<1>2. /\ \A cb \in ReadCallbacks : Serving!Read(e, cb) \in End
      /\ \A cb \in WriteCallbacks : Serving!SetWrite(e, cb) \in End
      /\ \A cb \in WriteCallbacks : \A m \in Message : Serving!Write(e, m, cb) \in End
  BY DriverKeepsTypes
<1>3. Serving!NewPeerConnection(e) \in End
  <2>1. Serving!TakenOver(e, "peer_connection") \in End
    BY TakenOverType
  <2>2. [Serving!TakenOver(e, "peer_connection") EXCEPT !.n = 0] \in End
    BY <2>1, OtherField
  <2>3. [[Serving!TakenOver(e, "peer_connection") EXCEPT !.n = 0] EXCEPT !.loaded = Missing] \in End
    BY <2>2, SomeThings, OtherField
  <2>4. Serving!Msg("ready", 0, "none") \in Message
    BY <1>0, <1>1
  <2> QED BY <2>3, <2>4, DriverKeepsTypes DEF Serving!NewPeerConnection
<1>4. ASSUME NEW d \in End PROVE Serving!Echo(d) \in End /\ Serving!RespondToEndProcess(d) \in End
  <2>1. d.n \in Nat
    BY DEF End
  <2>2. Serving!Msg("end", d.n, "none") \in Message
    BY <2>1, <1>0, <1>1
  <2> QED BY <2>2, DriverKeepsTypes DEF Serving!Echo, Serving!RespondToEndProcess
<1>5. Serving!AfterPeerWrite(e) \in End
  <2>1. Serving!Msg("ready", 0, "none") \in Message /\ Serving!Msg("report", e.n, e.loaded) \in Message
    BY <1>0, <1>1
  <2> QED BY <2>1, <1>2, <1>3, <1>4 DEF Serving!AfterPeerWrite
<1>6. ASSUME NEW m \in Message, NEW news \in BOOLEAN, e.rcb \in PeerReads
      PROVE  Serving!AtPeer(p, e, m, news) \in End
  <2>1. Serving!AtPeerConnection(p, e, m) \in End
    <3>1. Serving!Msg("bad", m.n, "offer") \in Message /\ Serving!Msg("good", m.n, "offer") \in Message
      BY <1>0, <1>1
    <3>2. [Serving!TakenOver(e, "task_processor") EXCEPT !.n = m.n] \in End
      BY <1>0, TakenOverType, OtherField
    <3> QED BY <3>1, <3>2, <1>0, DriverKeepsTypes DEF Serving!AtPeerConnection
  <2>2. Serving!OnRes(e, m) \in End
    <3>1. Serving!Msg("good", e.n, "res") \in Message
      BY <1>0, <1>1
    <3>2. Serving!TakenOver(e, "task_processor_detail_meta") \in End
      BY TakenOverType
    <3> QED BY <3>1, <3>2, <1>0, DriverKeepsTypes DEF Serving!OnRes
  <2>3. Serving!OnMeta(p, e, m) \in End
    <3>1. Serving!Msg("bad", e.n, "meta") \in Message
      BY <1>0, <1>1
    <3>2. [Serving!TakenOver(e, "task_processor_detail") EXCEPT !.load = "hash"] \in End
      BY TakenOverType, OtherField
    <3> QED BY <3>1, <3>2, <1>0, <1>2 DEF Serving!OnMeta
  <2>4. Serving!OnBulkRead(p, e, m) \in End
    <3>1. [e EXCEPT !.loaded = Serving!TaskOf(m.n)] \in End
      BY <1>0, OtherField
    <3>2. Serving!Read([e EXCEPT !.loaded = Serving!TaskOf(m.n)], "on_first_sync_read") \in End
      BY <3>1, DriverKeepsTypes
    <3>3. [[e EXCEPT !.loaded = Serving!TaskOf(m.n)] EXCEPT !.load = "open"] \in End
      BY <3>1, OtherField
    <3> QED BY <3>2, <3>3, <1>0, <1>4 DEF Serving!OnBulkRead
  <2>5. ASSUME NEW d \in End, NEW new \in BOOLEAN PROVE Serving!OnSyncRead(d, m, new) \in End
    <3>1. Serving!ReadAgain(d) \in End /\ Serving!ReadAgain(Serving!SetWrite(d, "on_write")) \in End
      BY DriverKeepsTypes
    <3>2. /\ [Serving!ReadAgain(Serving!SetWrite(d, "on_write")) EXCEPT !.timer = "on"] \in End
          /\ [Serving!ReadAgain(d) EXCEPT !.timer = "send"] \in End
      BY <3>1, OtherField
    <3> QED BY <3>2, <1>0, <1>4 DEF Serving!OnSyncRead
  <2>6. [Serving!SetRead(e, "on_sync_read") EXCEPT !.timer = "on"] \in End
    BY DriverKeepsTypes, OtherField
  <2>7. Serving!OnSyncRead([Serving!SetRead(e, "on_sync_read") EXCEPT !.timer = "on"], m, TRUE) \in End
    BY <2>5, <2>6
  <2> QED BY <2>1, <2>2, <2>3, <2>4, <2>5, <2>7, <1>0, <1>4, <1>6 DEF Serving!AtPeer, PeerReads
<1> QED BY <1>5, <1>6

-----------------------------------------------------------------------------
(* What is on its way.                                                     *)

LEMMA TailFacts ==
  ASSUME NEW q \in Seq(Message), Len(q) > 0
  PROVE  /\ Tail(q) \in Seq(Message) /\ Len(Tail(q)) = Len(q) - 1 /\ Head(q) = q[1]
         /\ \A k \in 1..Len(Tail(q)) : k + 1 \in 1..Len(q) /\ Tail(q)[k] = q[k + 1]
         /\ Head(q) \in Message
OBVIOUS

LEMMA AppendFacts ==
  ASSUME NEW q \in Seq(Message), NEW m \in Message
  PROVE  /\ Append(q, m) \in Seq(Message) /\ Len(Append(q, m)) = Len(q) + 1
         /\ Append(q, m)[Len(q) + 1] = m
         /\ \A k \in 1..Len(q) : Append(q, m)[k] = q[k]
OBVIOUS

LEMMA ShortFacts ==
  ASSUME NEW q \in Seq(Message), NEW a \in Message, NEW b \in Message
  PROVE  /\ One(q, a) => Len(q) > 0 /\ Head(q) = a /\ Empty(Tail(q))
         /\ Two(q, a, b) => Len(q) > 0 /\ Head(q) = a /\ One(Tail(q), b)
         /\ Empty(q) => One(Append(q, a), a)
         /\ One(q, a) => Two(Append(q, b), a, b)
         /\ ~Empty(q) => Len(q) > 0
<1>1. Len(q) \in Nat
  OBVIOUS
<1>2. Len(q) > 0 => Len(Tail(q)) = Len(q) - 1 /\ Head(q) = q[1]
                    /\ \A k \in 1..Len(Tail(q)) : Tail(q)[k] = q[k + 1]
  BY TailFacts
<1>3. \A m \in Message : /\ Len(Append(q, m)) = Len(q) + 1 /\ Append(q, m)[Len(q) + 1] = m
                         /\ \A k \in 1..Len(q) : Append(q, m)[k] = q[k]
  BY AppendFacts
<1> QED BY <1>1, <1>2, <1>3 DEF Empty, One, Two

LEMMA Tails ==
  ASSUME NEW q \in Seq(Message), Len(q) > 0, NEW i, NEW p
  PROVE  /\ Reports(p, q, i) => Reports(p, Tail(q), i) /\ IsReport(p, Head(q), i)
         /\ OldReports(q) => OldReports(Tail(q)) /\ Head(q).type = "report"
         /\ Syncs(q, i) => Syncs(Tail(q), i) /\ Head(q).type = "sync" /\ Head(q).n = i
         /\ NoEcho(q, i) => NoEcho(Tail(q), i) /\ Early(Head(q), i)
<1> DEFINE r == Tail(q)
<1>1. /\ Len(r) = Len(q) - 1 /\ Head(q) = q[1] /\ Len(q) \in Nat /\ 1 \in 1..Len(q)
      /\ \A k \in 1..Len(r) : k + 1 \in 1..Len(q) /\ r[k] = q[k + 1]
  BY TailFacts
<1> HIDE DEF r
<1>2. Reports(p, q, i) => Reports(p, r, i) /\ IsReport(p, Head(q), i)
  BY <1>1 DEF Reports
<1>3. OldReports(q) => OldReports(r) /\ Head(q).type = "report"
  BY <1>1 DEF OldReports
<1>4. Syncs(q, i) => Syncs(r, i) /\ Head(q).type = "sync" /\ Head(q).n = i
  BY <1>1 DEF Syncs
<1>5. NoEcho(q, i) => NoEcho(r, i) /\ Early(Head(q), i)
  BY <1>1 DEF NoEcho
<1> QED BY <1>2, <1>3, <1>4, <1>5 DEF r

LEMMA Appends ==
  ASSUME NEW q \in Seq(Message), NEW m \in Message, NEW i, NEW p
  PROVE  /\ Reports(p, q, i) /\ IsReport(p, m, i) <=> Reports(p, Append(q, m), i)
         /\ OldReports(q) /\ m.type = "report" <=> OldReports(Append(q, m))
         /\ Syncs(q, i) /\ m.type = "sync" /\ m.n = i <=> Syncs(Append(q, m), i)
         /\ NoEcho(q, i) /\ Early(m, i) <=> NoEcho(Append(q, m), i)
<1> DEFINE r == Append(q, m)
<1>1. /\ Len(r) = Len(q) + 1 /\ r[Len(r)] = m /\ Len(q) \in Nat /\ Len(r) \in 1..Len(r)
      /\ \A k \in 1..Len(q) : r[k] = q[k] /\ k \in 1..Len(r)
      /\ \A k \in 1..Len(r) : k \in 1..Len(q) \/ k = Len(r)
  BY AppendFacts
<1> HIDE DEF r
<1>2. Reports(p, q, i) /\ IsReport(p, m, i) <=> Reports(p, r, i)
  BY <1>1 DEF Reports
<1>3. OldReports(q) /\ m.type = "report" <=> OldReports(r)
  BY <1>1 DEF OldReports
<1>4. Syncs(q, i) /\ m.type = "sync" /\ m.n = i <=> Syncs(r, i)
  BY <1>1 DEF Syncs
<1>5. NoEcho(q, i) /\ Early(m, i) <=> NoEcho(r, i)
  BY <1>1 DEF NoEcho
<1> QED BY <1>2, <1>3, <1>4, <1>5 DEF r

LEMMA Nothing ==
  ASSUME NEW q, Empty(q), NEW i, NEW p
  PROVE  Reports(p, q, i) /\ OldReports(q) /\ Syncs(q, i) /\ NoEcho(q, i)
<1>1. 1..Len(q) = {}
  BY DEF Empty
<1> QED BY <1>1 DEF Reports, OldReports, Syncs, NoEcho

\* The echo comes nearer as what is before it is read; after it come reports or a ready.
LEMMA EchoNearer ==
  ASSUME NEW q \in Seq(Message), Len(q) > 0, NEW i, Echoed(q, i)
  PROVE  /\ Head(q).type = "end" =>
              /\ Head(q).n = i
              /\ OldReports(Tail(q)) \/ One(Tail(q), Ready)
              /\ EndsWith(q, "ready") => One(Tail(q), Ready)
              /\ EndsWith(q, "report") => OldReports(Tail(q)) /\ Len(q) > 1
              /\ EndsWith(q, "end") => Len(q) = 1
         /\ Head(q).type # "end" =>
              /\ Early(Head(q), i) /\ Echoed(Tail(q), i)
              /\ \A type : EndsWith(q, type) => EndsWith(Tail(q), type)
<1> DEFINE r == Tail(q)
<1>1. /\ r \in Seq(Message) /\ Len(r) = Len(q) - 1 /\ Head(q) = q[1] /\ Len(q) \in Nat
      /\ 1 \in 1..Len(q) /\ Len(q) \in 1..Len(q)
      /\ \A k \in 1..Len(r) : k + 1 \in 1..Len(q) /\ r[k] = q[k + 1]
      /\ \A k \in 1..Len(q) : k > 1 => k - 1 \in 1..Len(r) /\ r[k - 1] = q[k]
  BY TailFacts
<1>2. PICK k \in 1..Len(q) : EchoAt(q, i, k)
  BY DEF Echoed
<1>3. Ready.type = "ready"
  BY DEF Ready, Serving!Msg
<1> HIDE DEF r
<1>5. ASSUME q[1].type = "end"
      PROVE  /\ k = 1 /\ q[1].n = i
             /\ OldReports(r) \/ One(r, Ready)
             /\ EndsWith(q, "ready") => One(r, Ready)
             /\ EndsWith(q, "report") => OldReports(r) /\ Len(q) > 1
             /\ EndsWith(q, "end") => Len(q) = 1
  <2>1. k = 1
    BY <1>1, <1>2, <1>5 DEF EchoAt, Early
  <2>2. ASSUME \A j \in 1..Len(q) : j > 1 => q[j].type = "report" PROVE OldReports(r)
    BY <1>1, <2>2 DEF OldReports
  <2>3. ASSUME Len(q) = 2, q[2] = Ready PROVE One(r, Ready) /\ EndsWith(q, "ready")
    BY <1>1, <1>3, <2>3 DEF EndsWith, One
  <2>4. \/ \A j \in 1..Len(q) : j > 1 => q[j].type = "report"
        \/ Len(q) = 2 /\ q[2] = Ready
    BY <1>2, <2>1 DEF EchoAt
  <2>5. CASE \A j \in 1..Len(q) : j > 1 => q[j].type = "report"
    <3>1. ~EndsWith(q, "ready") /\ (EndsWith(q, "report") => Len(q) > 1)
      BY <1>1, <1>5, <2>5 DEF EndsWith
    <3>2. EndsWith(q, "end") => Len(q) = 1
      BY <1>1, <2>5 DEF EndsWith
    <3> QED BY <1>2, <2>1, <2>2, <2>5, <3>1, <3>2 DEF EchoAt
  <2>6. CASE Len(q) = 2 /\ q[2] = Ready
    BY <1>2, <1>3, <2>1, <2>3, <2>6 DEF EchoAt, EndsWith
  <2> QED BY <2>4, <2>5, <2>6
<1>6. ASSUME q[1].type # "end"
      PROVE  /\ Early(q[1], i) /\ Echoed(r, i)
             /\ \A type : EndsWith(q, type) => EndsWith(r, type)
  <2>1. k > 1 /\ k - 1 \in 1..Len(r)
    BY <1>1, <1>2, <1>6 DEF EchoAt
  <2>2. \A j \in 1..Len(r) : j < k - 1 => Early(r[j], i)
    BY <1>1, <1>2, <2>1 DEF EchoAt
  <2>3. r[k - 1].type = "end" /\ r[k - 1].n = i
    BY <1>1, <1>2, <2>1 DEF EchoAt
  <2>4. \/ \A j \in 1..Len(r) : j > k - 1 => r[j].type = "report"
        \/ Len(r) = k - 1 + 1 /\ r[k - 1 + 1] = Ready
    <3>1. CASE \A j \in 1..Len(q) : j > k => q[j].type = "report"
      <4>1. \A j \in 1..Len(r) : j > k - 1 => j + 1 \in 1..Len(q) /\ j + 1 > k /\ r[j] = q[j + 1]
        BY <1>1
      <4> QED BY <3>1, <4>1
    <3>2. CASE Len(q) = k + 1 /\ q[k + 1] = Ready
      BY <1>1, <2>1, <3>2
    <3> QED BY <1>2, <3>1, <3>2 DEF EchoAt
  <2>5. Early(q[1], i)
    BY <1>1, <1>2, <2>1 DEF EchoAt
  <2>6. \A type : EndsWith(q, type) => EndsWith(r, type)
    <3>1. Len(r) > 0 /\ Len(r) \in 1..Len(r) /\ r[Len(r)] = q[Len(q)]
      BY <1>1, <2>1
    <3> QED BY <3>1 DEF EndsWith
  <2> QED BY <2>1, <2>2, <2>3, <2>4, <2>5, <2>6 DEF Echoed, EchoAt
<1> QED BY <1>1, <1>5, <1>6 DEF r

\* An echo after what is early, a ready after the echo, a report after either.
LEMMA EchoAppended ==
  ASSUME NEW q \in Seq(Message), NEW m \in Message, NEW i
  PROVE  /\ NoEcho(q, i) /\ m.type = "end" /\ m.n = i => Echoed(Append(q, m), i)
         /\ Echoed(q, i) /\ EndsWith(q, "end") /\ m = Ready => Echoed(Append(q, m), i)
         /\ Echoed(q, i) /\ ~EndsWith(q, "ready") /\ m.type = "report" => Echoed(Append(q, m), i)
         /\ EndsWith(Append(q, m), m.type)
<1> DEFINE r == Append(q, m)
<1>1. /\ Len(r) = Len(q) + 1 /\ r[Len(r)] = m /\ Len(q) \in Nat /\ Len(r) \in 1..Len(r)
      /\ \A k \in 1..Len(q) : r[k] = q[k] /\ k \in 1..Len(r) /\ k < Len(r)
      /\ \A k \in 1..Len(r) : k \in 1..Len(q) \/ k = Len(r)
  BY AppendFacts
<1>2. Ready.type = "ready"
  BY DEF Ready, Serving!Msg
<1> HIDE DEF r
<1>3. ASSUME NoEcho(q, i), m.type = "end", m.n = i PROVE EchoAt(r, i, Len(r))
  BY <1>1, <1>3 DEF NoEcho, EchoAt
<1>4. ASSUME NEW k \in 1..Len(q), EchoAt(q, i, k), m = Ready, EndsWith(q, "end")
      PROVE  EchoAt(r, i, k)
  <2>1. k = Len(q)
    BY <1>1, <1>2, <1>4 DEF EchoAt, EndsWith
  <2> QED BY <1>1, <1>4, <2>1 DEF EchoAt
<1>5. ASSUME NEW k \in 1..Len(q), EchoAt(q, i, k), m.type = "report", ~EndsWith(q, "ready")
      PROVE  EchoAt(r, i, k)
  <2>1. ~(Len(q) = k + 1 /\ q[k + 1] = Ready)
    BY <1>1, <1>2, <1>5 DEF EndsWith
  <2> QED BY <1>1, <1>5, <2>1 DEF EchoAt
<1>6. EndsWith(r, m.type)
  BY <1>1 DEF EndsWith
<1> QED BY <1>1, <1>3, <1>4, <1>5, <1>6 DEF r, Echoed

\* Without the last message it is as well formed.
LEMMA EchoCut ==
  ASSUME NEW q \in Seq(Message), NEW m \in Message, NEW i, Echoed(Append(q, m), i)
  PROVE  NoEcho(q, i) \/ Echoed(q, i)
<1> DEFINE r == Append(q, m)
<1>1. /\ Len(r) = Len(q) + 1 /\ r[Len(r)] = m /\ Len(q) \in Nat
      /\ \A k \in 1..Len(q) : r[k] = q[k] /\ k \in 1..Len(r)
      /\ \A k \in 1..Len(r) : k \in 1..Len(q) \/ k = Len(r)
  BY AppendFacts
<1>2. PICK k \in 1..Len(r) : EchoAt(r, i, k)
  BY DEF Echoed
<1> HIDE DEF r
<1>3. CASE k = Len(r)
  BY <1>1, <1>2, <1>3 DEF EchoAt, NoEcho
<1>4. CASE k \in 1..Len(q)
  <2>1. EchoAt(q, i, k)
    BY <1>1, <1>2, <1>4 DEF EchoAt
  <2> QED BY <1>4, <2>1 DEF Echoed
<1> QED BY <1>1, <1>3, <1>4

-----------------------------------------------------------------------------
(* The server's end reads.                                                 *)

\* What is on its way grows by what an end begins to write, t being what has become of s.
Grows(q, r, s, t) == /\ t.out = s.out => r = q
                     /\ s.out = Serving!Silence => r = With(q, t)

LEMMA Words ==
  /\ Version \in Message /\ Ready \in Message
  /\ \A i \in Nat : \A type \in Types : Serving!Msg(type, i, "none") \in Message
  /\ \A i \in Nat : \A type \in {"good", "bad", "skip"} :
        \A about \in {"offer", "res", "meta"} : Serving!Msg(type, i, about) \in Message
<1>1. \A about \in {"none", "offer", "res", "meta"} : about \in Things
  BY SomeThings
<1>2. \A type \in {"good", "bad", "skip", "version", "ready"} : type \in Types
  BY DEF Types
<1> QED BY <1>1, <1>2, MessageType DEF Version, Ready

\* An end that reads, and a peer that has nothing pending if one message is on its way.
Hears(s, c, go) == s.reading /\ Len(go) > 0 /\ (Serving!WritePending(c) => Len(go) > 1)
Heard(s, m) == Serving!Kept(Serving!AtServer([s EXCEPT !.reading = FALSE], m))

LEMMA GreetingReads ==
  ASSUME NEW s \in End, NEW t, NEW m, Greeting(s), t = Heard(s, m), t # Serving!Closed
  PROVE  Waiting(t) /\ t.out = s.out /\ ~t.ready
BY DEF Greeting, Waiting, Heard, Serving!AtServer, Serving!Kept, Serving!Read, Serving!ReadAgain,
   Serving!SetRead, End

LEMMA WaitingReads ==
  ASSUME NEW s \in End, NEW t, NEW m, Waiting(s), ~s.ready, t = Heard(s, m), n \in Nat
  PROVE  /\ m.type = "report" => Waiting(t) /\ t.out = s.out /\ ~t.ready
         /\ m.type = "ready" /\ ~on => Waiting(t) /\ t.out = s.out /\ t.ready
         /\ m.type = "ready" /\ on => Offering(t) /\ t.n = n /\ t.out = Serving!Msg("offer", n, "none")
<1>1. m.type = "report" => Waiting(t) /\ t.out = s.out /\ ~t.ready
  BY DEF Waiting, Heard, Serving!AtServer, Serving!OnRead, Serving!Kept, Serving!ReadAgain, End
<1>2. m.type = "ready" /\ ~on => Waiting(t) /\ t.out = s.out /\ t.ready
  BY DEF Waiting, Heard, Serving!AtServer, Serving!OnRead, Serving!Kept, Serving!ReadAgain,
     Serving!Queued, End
<1>3. m.type = "ready" /\ on => Offering(t) /\ t.n = n /\ t.out = Serving!Msg("offer", n, "none")
  BY DEF Waiting, Heard, Serving!AtServer, Serving!OnRead, Serving!Kept, Serving!NewProcessingPeer,
     Serving!Write, Serving!WriteAgain, Serving!SetWrite, Serving!TakenOver, Serving!WritePending,
     Offering, Handing, End, Serving!Msg, Serving!Silence
<1> QED BY <1>1, <1>2, <1>3

LEMMA OfferingReads ==
  ASSUME NEW s \in End, NEW t, NEW m, Offering(s), s.out = Serving!Silence, t = Heard(s, m)
  PROVE  /\ m.type = "good" => Resourcing(t) /\ t.n = s.n /\ t.out = Serving!Msg("res", s.n, "none")
         /\ m.type # "good" => Offering(t) /\ t.n = s.n /\ t.out = s.out
<1>1. /\ s.user = "processing_peer" /\ s.wcb = "on_write" /\ ~s.ready /\ ~s.held
      /\ s.rcb = "on_read_offer_response"
  BY DEF Offering, Handing, Serving!Msg, Serving!Silence
<1>2. ASSUME m.type = "good"
      PROVE  Resourcing(t) /\ t.n = s.n /\ t.out = Serving!Msg("res", s.n, "none")
  BY <1>1, <1>2 DEF Heard, Serving!AtServer, Serving!OnReadAnswer, Serving!Kept, Serving!Write,
     Serving!WriteAgain, Serving!SetWrite, Serving!WritePending, Resourcing, Handing, End,
     Serving!Msg, Serving!Silence
<1>3. ASSUME m.type # "good"
      PROVE  Offering(t) /\ t.n = s.n /\ t.out = s.out
  BY <1>1, <1>3 DEF Offering, Handing, Heard, Serving!AtServer, Serving!OnReadAnswer, Serving!Kept,
     Serving!ReadAgain, End
<1> QED BY <1>2, <1>3

LEMMA ResourcingReads ==
  ASSUME NEW s \in End, NEW t, NEW m, Resourcing(s), s.reading, t = Heard(s, m)
  PROVE  /\ s.out = Serving!Silence
         /\ m.type = "good" => Describing(t) /\ t.n = s.n /\ t.out = Serving!Msg("meta", s.n, "none")
         /\ m.type # "good" => Resourcing(t) /\ t.n = s.n /\ t.out = s.out
<1>1. ASSUME m.type = "good"
      PROVE  Describing(t) /\ t.n = s.n /\ t.out = Serving!Msg("meta", s.n, "none")
  BY <1>1 DEF Resourcing, Handing, Heard, Serving!AtServer, Serving!OnReadAnswer, Serving!Kept,
     Serving!Write, Serving!WriteAgain, Serving!SetWrite, Serving!WritePending, Describing, End,
     Serving!Msg, Serving!Silence
<1>2. ASSUME m.type # "good"
      PROVE  Resourcing(t) /\ t.n = s.n /\ t.out = s.out
  BY <1>2, ZenonT(40) DEF Resourcing, Handing, Heard, Serving!AtServer, Serving!OnReadAnswer,
     Serving!Kept, Serving!ReadAgain, End, Serving!Msg, Serving!Silence
<1>3. s.out = Serving!Silence
  BY DEF Resourcing, Handing
<1> QED BY <1>1, <1>2, <1>3

LEMMA DescribingReads ==
  ASSUME NEW s \in End, NEW t, NEW m, Describing(s), s.reading, t = Heard(s, m)
  PROVE  /\ s.out = Serving!Silence
         /\ m.type = "good" => Filling(t) /\ t.n = s.n /\ t.out = Serving!Msg("bulk", s.n, "none")
         /\ m.type = "skip" => Working(t) /\ t.n = s.n /\ t.out = s.out
         /\ m.type \notin {"good", "skip"} => Describing(t) /\ t.n = s.n /\ t.out = s.out
<1>1. ASSUME m.type = "good"
      PROVE  Filling(t) /\ t.n = s.n /\ t.out = Serving!Msg("bulk", s.n, "none")
  BY <1>1 DEF Describing, Handing, Heard, Serving!AtServer, Serving!OnReadAnswer, Serving!Kept,
     Serving!Write, Serving!WriteAgain, Serving!SetWrite, Serving!WritePending, Filling, End,
     Serving!Msg, Serving!Silence
<1>2. ASSUME m.type = "skip"
      PROVE  Working(t) /\ t.n = s.n /\ t.out = s.out
  BY <1>2 DEF Describing, Handing, Heard, Serving!AtServer, Serving!OnReadAnswer,
     Serving!OnWriteBulk, Serving!Kept, Serving!Read, Serving!ReadAgain, Serving!SetRead,
     Serving!SetWrite, Working, End, Serving!Msg, Serving!Silence
<1>3. ASSUME m.type \notin {"good", "skip"}
      PROVE  Describing(t) /\ t.n = s.n /\ t.out = s.out
  BY <1>3, ZenonT(40) DEF Describing, Handing, Heard, Serving!AtServer, Serving!OnReadAnswer,
     Serving!Kept, Serving!ReadAgain, End, Serving!Msg, Serving!Silence
<1>4. s.out = Serving!Silence
  BY DEF Describing, Handing
<1> QED BY <1>1, <1>2, <1>3, <1>4

LEMMA WorkingReads ==
  ASSUME NEW s \in End, NEW t, NEW m, Working(s), m.type = "report", t = Heard(s, m)
  PROVE  Working(t) /\ t.n = s.n /\ t.out = s.out
BY DEF Working, Heard, Serving!AtServer, Serving!OnReadReport, Serving!Kept, Serving!ReadAgain, End

LEMMA EndReads ==
  ASSUME NEW s \in End, NEW t, NEW m, t = Heard(s, m)
  PROVE  /\ Ending(s) /\ m.type # "end" => Ending(t) /\ t.n = s.n /\ t.out = s.out
         /\ Ended(s) /\ m.type # "end" => Ended(t) /\ t.n = s.n /\ t.out = s.out
         /\ Ended(s) /\ m.type = "end" /\ s.out = Serving!Silence =>
              Waiting(t) /\ ~t.ready /\ t.out = s.out
<1>1. Ending(s) /\ m.type # "end" => Ending(t) /\ t.n = s.n /\ t.out = s.out
  BY DEF Ending, Heard, Serving!AtServer, Serving!OnReadEcho, Serving!IsEcho, Serving!Kept,
     Serving!ReadAgain, End
<1>2. Ended(s) /\ m.type # "end" => Ended(t) /\ t.n = s.n /\ t.out = s.out
  BY DEF Ended, Heard, Serving!AtServer, Serving!OnReadEcho, Serving!IsEcho, Serving!Kept,
     Serving!ReadAgain, End
<1>3. Ended(s) /\ m.type = "end" /\ s.out = Serving!Silence => Waiting(t) /\ ~t.ready /\ t.out = s.out
  BY DEF Ended, Waiting, Heard, Serving!AtServer, Serving!OnReadEcho, Serving!IsEcho, Serving!Kept,
     Serving!Read, Serving!ReadAgain, Serving!SetRead, Serving!TakenOver, End
<1> QED BY <1>1, <1>2, <1>3

LEMMA Begins ==
  ASSUME NEW s, NEW t \in End, NEW q \in Seq(Message), NEW r, Grows(q, r, s, t),
         s.out = Serving!Silence, t.out.type # "none"
  PROVE  r = Append(q, t.out) /\ t.out \in Message /\ (Empty(q) => One(r, t.out))
<1>1. t.out \in Message /\ t.out # Serving!Silence
  BY DEF End, Serving!Silence, Serving!Msg
<1>2. r = Append(q, t.out)
  BY <1>1 DEF Grows, With, Serving!WritePending
<1> QED BY <1>1, <1>2, ShortFacts

LEMMA GreetingHears ==
  ASSUME NEW p, NEW s \in End, NEW c \in End, NEW t \in End, NEW in \in Seq(Message),
         NEW r \in Seq(Message), NEW go \in Seq(Message),
         AtGreeting(s, c, in, go), Hears(s, c, go), t = Heard(s, Head(go)), t # Serving!Closed,
         Grows(in, r, s, t)
  PROVE  Session(p, t, c, r, Tail(go))
<1>1. Waiting(t) /\ ~t.ready /\ t.out = s.out
  BY GreetingReads DEF AtGreeting
<1>2. r = in
  BY <1>1 DEF Grows
<1>3. CASE One(go, Version)
  <2>1. Empty(Tail(go)) /\ Len(go) = 1
    BY <1>3, Words, ShortFacts DEF One
  <2>2. ~Greets(c) /\ ~Two(go, Version, Ready)
    BY <2>1 DEF Hears, Greets, Writes, Serving!WritePending, Two, Version, Serving!Silence,
       Serving!Msg
  <2>3. c = Serving!Closed
    BY <2>2 DEF AtGreeting, Greeted
  <2> QED BY <1>1, <2>1, <2>3 DEF Session, AtWaiting
<1>4. CASE Two(go, Version, Ready)
  <2>1. One(Tail(go), Ready)
    BY <1>4, Words, ShortFacts
  <2>2. c # Serving!Closed => Empty(in) /\ (Readies(c) \/ Idles(c))
    BY <1>4 DEF AtGreeting, Greeted, One, Two
  <2> QED BY <1>1, <1>2, <2>1, <2>2 DEF Session, AtWaiting, Waited
<1> QED BY <1>3, <1>4 DEF AtGreeting, Hears, Empty

LEMMA WaitingHears ==
  ASSUME NEW p, NEW s \in End, NEW c \in End, NEW t \in End, NEW in \in Seq(Message),
         NEW r \in Seq(Message), NEW go \in Seq(Message), n \in Nat,
         AtWaiting(s, c, in, go), Hears(s, c, go), t = Heard(s, Head(go)), t # Serving!Closed,
         Grows(in, r, s, t)
  PROVE  Session(p, t, c, r, Tail(go))
<1> DEFINE m == Head(go)
<1>0. /\ Waiting(s) /\ ~s.ready /\ (One(go, Ready) \/ OldReports(go))
      /\ Ready.type = "ready" /\ Ready # Serving!Silence /\ s.out = Serving!Silence
      /\ ~Empty(go)
  BY DEF AtWaiting, Waiting, Hears, Empty, Ready, Serving!Msg, Serving!Silence
<1>1. CASE OldReports(go)
  <2>1. m.type = "report" /\ OldReports(Tail(go))
    BY <1>1, Tails DEF Hears
  <2>2. Waiting(t) /\ ~t.ready /\ t.out = s.out
    BY <1>0, <2>1, WaitingReads
  <2>3. r = in
    BY <2>2 DEF Grows
  <2>4. ~One(go, Ready)
    BY <1>0, <2>1, Words, ShortFacts
  <2>5. c # Serving!Closed => Empty(in) /\ ReportsOn(c)
    BY <1>0, <2>4 DEF AtWaiting, Waited
  <2> QED BY <2>1, <2>2, <2>3, <2>5 DEF Session, AtWaiting, Waited
<1>2. CASE One(go, Ready)
  <2>1. m = Ready /\ Empty(Tail(go)) /\ Len(go) = 1
    BY <1>2, Words, ShortFacts DEF One
  <2>2. c # Serving!Closed => Idles(c) /\ Empty(in)
    <3>1. ~OldReports(go)
      BY <1>0, <2>1, Tails DEF Hears
    <3>2. ~Readies(c)
      BY <1>0, <2>1 DEF Hears, Readies, Writes, Serving!WritePending
    <3> QED BY <1>0, <3>1, <3>2 DEF AtWaiting, Waited
  <2>3. CASE on
    <3>1. Offering(t) /\ t.n = n /\ t.out = Serving!Msg("offer", t.n, "none")
      BY <1>0, <2>1, <2>3, WaitingReads
    <3>2. Empty(in) => One(r, Serving!Msg("offer", t.n, "none"))
      BY <1>0, <3>1, Begins DEF Serving!Msg
    <3> QED BY <2>1, <2>2, <3>1, <3>2 DEF Session, AtOffering, Answered, Offered
  <2>4. CASE ~on
    <3>1. Waiting(t) /\ t.ready /\ t.out = s.out
      BY <1>0, <2>1, <2>4, WaitingReads
    <3>2. r = in
      BY <3>1 DEF Grows
    <3> QED BY <2>1, <2>2, <3>1, <3>2 DEF Session, AtWaiting, Waited
  <2> QED BY <2>3, <2>4
<1> QED BY <1>0, <1>1, <1>2

\* The one answer that is on its way.
LEMMA TheAnswer ==
  ASSUME NEW s \in End, NEW go \in Seq(Message), NEW about \in {"offer", "res", "meta"},
         Answered(s, go, about), Len(go) > 0
  PROVE  /\ s.out = Serving!Silence
         /\ Head(go).type \in {"good", "bad", "skip"} /\ Empty(Tail(go)) /\ Len(go) = 1
         /\ One(go, Head(go)) /\ ~Empty(go)
         /\ \A type \in {"good", "bad", "skip"} : One(go, Serving!Msg(type, s.n, about)) =>
              Head(go).type = type
<1>1. s.n \in Nat
  BY DEF End
<1>2. PICK type \in {"good", "bad", "skip"} : One(go, Serving!Msg(type, s.n, about)) /\ s.out = Serving!Silence
  BY DEF Answered, Empty
<1>3. Head(go) = Serving!Msg(type, s.n, about) /\ Empty(Tail(go))
  BY <1>1, <1>2, Words, ShortFacts
<1>4. \A other \in {"good", "bad", "skip"} : One(go, Serving!Msg(other, s.n, about)) =>
         Head(go).type = other
  BY <1>2, <1>3 DEF One, Serving!Msg
<1> QED BY <1>2, <1>3, <1>4 DEF One, Serving!Msg, Empty

LEMMA OfferingHears ==
  ASSUME NEW p, NEW s \in End, NEW c \in End, NEW t \in End, NEW in \in Seq(Message),
         NEW r \in Seq(Message), NEW go \in Seq(Message),
         AtOffering(s, c, in, go), Hears(s, c, go), t = Heard(s, Head(go)), Grows(in, r, s, t)
  PROVE  Session(p, t, c, r, Tail(go))
<1>1. /\ s.out = Serving!Silence /\ Head(go).type \in {"good", "bad", "skip"} /\ Empty(Tail(go))
      /\ Len(go) = 1 /\ ~Empty(go)
      /\ \A type \in {"good", "bad", "skip"} : One(go, Serving!Msg(type, s.n, "offer")) =>
            Head(go).type = type
  BY TheAnswer DEF AtOffering, Hears
<1>2. ~Accepts(c) /\ ~Declines(c, s.n)
  BY <1>1 DEF Hears, Accepts, Declines, Writes, Serving!WritePending, Serving!Msg, Serving!Silence
<1>3. c # Serving!Closed => /\ Empty(in)
                            /\ \/ Idles(c) /\ Head(go).type = "bad"
                               \/ OnResources(c) /\ c.n = s.n /\ Head(go).type = "good"
  BY <1>1, <1>2 DEF AtOffering, Offered
<1>4. CASE Head(go).type = "good"
  <2>1. Resourcing(t) /\ t.n = s.n /\ t.out = Serving!Msg("res", t.n, "none")
    BY <1>1, <1>4, OfferingReads DEF AtOffering
  <2>2. Empty(in) => One(r, Serving!Msg("res", t.n, "none"))
    BY <1>1, <2>1, Begins DEF Serving!Msg
  <2> QED BY <1>1, <1>3, <1>4, <2>1, <2>2 DEF Session, AtResourcing, Answered, Resourced
<1>5. CASE Head(go).type # "good"
  <2>1. Offering(t) /\ t.n = s.n /\ t.out = s.out
    BY <1>1, <1>5, OfferingReads DEF AtOffering
  <2>2. r = in
    BY <2>1 DEF Grows
  <2> QED BY <1>1, <1>3, <1>5, <2>1, <2>2 DEF Session, AtOffering, Answered, Offered
<1> QED BY <1>4, <1>5

LEMMA ResourcingHears ==
  ASSUME NEW p, NEW s \in End, NEW c \in End, NEW t \in End, NEW in \in Seq(Message),
         NEW r \in Seq(Message), NEW go \in Seq(Message),
         AtResourcing(s, c, in, go), Hears(s, c, go), t = Heard(s, Head(go)), Grows(in, r, s, t)
  PROVE  Session(p, t, c, r, Tail(go))
<1>1. /\ s.out = Serving!Silence /\ Empty(Tail(go)) /\ Len(go) = 1 /\ ~Empty(go)
      /\ One(go, Serving!Msg("good", s.n, "res")) => Head(go).type = "good"
  BY TheAnswer DEF AtResourcing, Hears
<1>2. ~TakesResources(c)
  BY <1>1 DEF Hears, TakesResources, Writes, Serving!WritePending, Serving!Msg, Serving!Silence
<1>3. c # Serving!Closed => Empty(in) /\ c.n = s.n /\ OnMetadata(c) /\ Head(go).type = "good"
  BY <1>1, <1>2 DEF AtResourcing, Resourced
<1>4. CASE Head(go).type = "good"
  <2>1. Describing(t) /\ t.n = s.n /\ t.out = Serving!Msg("meta", t.n, "none")
    BY <1>4, ResourcingReads DEF AtResourcing, Hears
  <2>2. Empty(in) => One(r, Serving!Msg("meta", t.n, "none"))
    BY <1>1, <2>1, Begins DEF Serving!Msg
  <2> QED BY <1>1, <1>3, <2>1, <2>2 DEF Session, AtDescribing, Answered, Described
<1>5. CASE Head(go).type # "good"
  <2>1. Resourcing(t)
    BY <1>5, ResourcingReads DEF AtResourcing, Hears
  <2> QED BY <1>1, <1>3, <1>5, <2>1 DEF Session, AtResourcing, Answered
<1> QED BY <1>4, <1>5

LEMMA DescribingHears ==
  ASSUME NEW p, NEW s \in End, NEW c \in End, NEW t \in End, NEW in \in Seq(Message),
         NEW r \in Seq(Message), NEW go \in Seq(Message),
         AtDescribing(p, s, c, in, go), Hears(s, c, go), t = Heard(s, Head(go)), Grows(in, r, s, t)
  PROVE  Session(p, t, c, r, Tail(go))
<1>1. /\ s.out = Serving!Silence /\ Head(go).type \in {"good", "bad", "skip"} /\ Empty(Tail(go))
      /\ Len(go) = 1 /\ ~Empty(go)
      /\ \A type \in {"good", "bad", "skip"} : One(go, Serving!Msg(type, s.n, "meta")) =>
            Head(go).type = type
  BY TheAnswer DEF AtDescribing, Hears
<1>2. ~Refuses(c) /\ ~Asks(c) /\ ~Skips(p, c)
  BY <1>1 DEF Hears, Refuses, Asks, Skips, Writes, Serving!WritePending, Serving!Msg,
     Serving!Silence
<1>3. c # Serving!Closed => /\ Empty(in) /\ c.n = s.n
                            /\ \/ OnEnd(c) /\ Head(go).type = "bad"
                               \/ OnBulk(c) /\ Head(go).type = "good"
                               \/ OnFirst(p, c) /\ Head(go).type = "skip"
  BY <1>1, <1>2 DEF AtDescribing, Described
<1>4. CASE Head(go).type = "good"
  <2>1. Filling(t) /\ t.n = s.n /\ t.out = Serving!Msg("bulk", t.n, "none")
    BY <1>4, DescribingReads DEF AtDescribing, Hears
  <2>2. Empty(in) => One(r, Serving!Msg("bulk", t.n, "none"))
    BY <1>1, <2>1, Begins DEF Serving!Msg
  <2> QED BY <1>1, <1>3, <1>4, <2>1, <2>2 DEF Session, AtFilling, Filled
<1>5. CASE Head(go).type = "skip"
  <2>1. Working(t) /\ t.n = s.n /\ t.out = s.out
    BY <1>5, DescribingReads DEF AtDescribing, Hears
  <2>2. r = in
    BY <2>1 DEF Grows
  <2>3. Reports(p, Tail(go), t.n) /\ (Empty(in) => Syncs(in, t.n))
    BY <1>1, Nothing
  <2> QED BY <1>3, <1>5, <2>1, <2>2, <2>3 DEF Session, AtWorking, Worked
<1>6. CASE Head(go).type = "bad"
  <2>1. Describing(t) /\ t.n = s.n /\ t.out = s.out
    BY <1>6, DescribingReads DEF AtDescribing, Hears
  <2>2. r = in
    BY <2>1 DEF Grows
  <2> QED BY <1>1, <1>3, <1>6, <2>1, <2>2 DEF Session, AtDescribing, Answered, Described
<1> QED BY <1>1, <1>4, <1>5, <1>6

LEMMA WorkingHears ==
  ASSUME NEW p, NEW s \in End, NEW c \in End, NEW t \in End, NEW in \in Seq(Message),
         NEW r \in Seq(Message), NEW go \in Seq(Message),
         AtWorking(p, s, c, in, go), Hears(s, c, go), t = Heard(s, Head(go)), Grows(in, r, s, t)
  PROVE  Session(p, t, c, r, Tail(go))
<1>1. Head(go).type = "report" /\ Reports(p, Tail(go), s.n) /\ ~Empty(go)
  BY Tails DEF AtWorking, Hears, IsReport, Empty
<1>2. Working(t) /\ t.n = s.n /\ t.out = s.out
  BY <1>1, WorkingReads DEF AtWorking
<1>3. r = in
  BY <1>2 DEF Grows
<1>4. c # Serving!Closed => Worked(p, t.n, c, r, Tail(go))
  BY <1>1, <1>2, <1>3 DEF AtWorking, Worked
<1> QED BY <1>1, <1>2, <1>4 DEF Session, AtWorking

LEMMA EndingHears ==
  ASSUME NEW p, NEW s \in End, NEW c \in End, NEW t \in End, NEW in \in Seq(Message),
         NEW r \in Seq(Message), NEW go \in Seq(Message),
         AtEnding(p, s, c, in, go), Hears(s, c, go), t = Heard(s, Head(go)), Grows(in, r, s, t)
  PROVE  Session(p, t, c, r, Tail(go))
<1>1. Head(go).type # "end" /\ NoEcho(Tail(go), s.n)
  BY Tails DEF AtEnding, Hears, Early
<1>2. Ending(t) /\ t.n = s.n /\ t.out = s.out
  BY <1>1, EndReads DEF AtEnding
<1>3. r = in
  BY <1>2 DEF Grows
<1>4. ~Ended(s) /\ ~Ended(t)
  BY <1>2 DEF AtEnding, Ended, Ending
<1>5. c # Serving!Closed => Unaware(p, t, c, r, Tail(go))
  BY <1>1, <1>2, <1>3, <1>4 DEF AtEnding, Unaware
<1> QED BY <1>1, <1>2, <1>5 DEF Session, AtEnding

LEMMA EndedHears ==
  ASSUME NEW p, NEW s \in End, NEW c \in End, NEW t \in End, NEW in \in Seq(Message),
         NEW r \in Seq(Message), NEW go \in Seq(Message),
         AtEnded(p, s, c, in, go), Hears(s, c, go), t = Heard(s, Head(go)), Grows(in, r, s, t)
  PROVE  Session(p, t, c, r, Tail(go))
<1> DEFINE m == Head(go)
<1>1. NoEcho(go, s.n) => NoEcho(Tail(go), s.n) /\ m.type # "end"
  BY Tails DEF Hears, Early
<1>2. CASE m.type # "end"
  <2>1. Ended(t) /\ t.n = s.n /\ t.out = s.out
    BY <1>2, EndReads DEF AtEnded
  <2>2. r = in
    BY <2>1 DEF Grows
  <2>3. Echoed(go, s.n) => /\ Echoed(Tail(go), s.n)
                           /\ \A type : EndsWith(go, type) => EndsWith(Tail(go), type)
    BY <1>2, EchoNearer DEF Hears
  <2>4. Unaware(p, s, c, in, go) => Unaware(p, t, c, r, Tail(go))
    BY <1>1, <2>1, <2>2 DEF AtEnded, Unaware
  <2>5. Aware(s, c, in, go) => Aware(t, c, r, Tail(go))
    BY <1>1, <2>1, <2>2, <2>3 DEF Aware
  <2> QED BY <1>1, <2>1, <2>3, <2>4, <2>5 DEF Session, AtEnded
<1>3. CASE m.type = "end"
  <2>1. ~NoEcho(go, s.n) /\ s.out = Serving!Silence /\ Echoed(go, s.n)
    BY <1>1, <1>3 DEF AtEnded
  <2>2. Waiting(t) /\ ~t.ready /\ t.out = s.out
    BY <1>3, <2>1, EndReads DEF AtEnded
  <2>3. r = in
    BY <2>2 DEF Grows
  <2>4. /\ OldReports(Tail(go)) \/ One(Tail(go), Ready)
        /\ EndsWith(go, "ready") => One(Tail(go), Ready)
        /\ EndsWith(go, "report") => OldReports(Tail(go))
        /\ EndsWith(go, "end") => Len(go) = 1
    BY <1>3, <2>1, EchoNearer DEF Hears
  <2>5. Echoes(c) => ~EndsWith(go, "end")
    <3>1. Echoes(c) => Serving!WritePending(c)
      BY DEF Echoes, Serving!WritePending, Serving!Silence, Serving!Msg
    <3>2. Serving!WritePending(c) => Len(go) > 1
      BY DEF Hears
    <3>3. ~(Len(go) > 1 /\ Len(go) = 1)
      OBVIOUS
    <3> QED BY <2>4, <3>1, <3>2, <3>3
  <2>6. c # Serving!Closed => Waited(t, c, r, Tail(go))
    BY <2>1, <2>2, <2>3, <2>4, <2>5 DEF AtEnded, Unaware, Aware, Waited
  <2> QED BY <2>2, <2>4, <2>6 DEF Session, AtWaiting
<1> QED BY <1>2, <1>3

\* The conversation goes on when the server's end reads.
LEMMA ServerHears ==
  ASSUME NEW p, NEW s \in End, NEW c \in End, NEW t \in End, NEW in \in Seq(Message),
         NEW r \in Seq(Message), NEW go \in Seq(Message), n \in Nat,
         Session(p, s, c, in, go), Hears(s, c, go), t = Heard(s, Head(go)), t # Serving!Closed,
         Grows(in, r, s, t)
  PROVE  Session(p, t, c, r, Tail(go))
<1>1. ~AtFilling(s, c, in, go)
  BY DEF AtFilling, Filling, Hears
<1> QED BY <1>1, GreetingHears, WaitingHears, OfferingHears, ResourcingHears, DescribingHears,
           WorkingHears, EndingHears, EndedHears DEF Session

-----------------------------------------------------------------------------
(* The server's end writes, and passes from one user to the next.          *)

Wrote(s) == Serving!Kept(Serving!AfterServerWrite([s EXCEPT !.out = Serving!Silence]))

LEMMA HandingWrote ==
  ASSUME NEW s \in End, NEW t, Serving!WritePending(s), t = Wrote(s)
  PROVE  /\ Offering(s) => Offering(t) /\ t.n = s.n /\ t.out = Serving!Silence
         /\ Resourcing(s) => Resourcing(t) /\ t.n = s.n /\ t.out = Serving!Silence
         /\ Describing(s) => Describing(t) /\ t.n = s.n /\ t.out = Serving!Silence
         /\ Filling(s) => Working(t) /\ t.n = s.n /\ t.out = Serving!Silence
<1>1. ASSUME Offering(s) PROVE Offering(t) /\ t.n = s.n /\ t.out = Serving!Silence
  <2>1. /\ s.user = "processing_peer" /\ s.wcb = "on_write" /\ ~s.ready /\ ~s.held
    BY <1>1 DEF Offering, Handing
  <2>2. /\ t.user = "processing_peer" /\ t.wcb = "on_write" /\ ~t.ready /\ ~t.held
        /\ t.rcb = "on_read_offer_response" /\ t.reading /\ t.out = Serving!Silence /\ t.n = s.n
    BY <2>1 DEF Wrote, Serving!AfterServerWrite, Serving!Kept, Serving!Read, Serving!ReadAgain,
       Serving!SetRead, End
  <2> QED BY <2>2 DEF Offering, Handing
<1>2. ASSUME Resourcing(s) PROVE Resourcing(t) /\ t.n = s.n /\ t.out = Serving!Silence
  <2>1. /\ s.user = "processing_peer" /\ s.wcb = "on_write_res" /\ ~s.ready /\ ~s.held
    BY <1>2 DEF Resourcing, Handing
  <2>2. /\ t.user = "processing_peer" /\ t.wcb = "on_write_res" /\ ~t.ready /\ ~t.held
        /\ t.rcb = "on_read_res_response" /\ t.reading /\ t.out = Serving!Silence /\ t.n = s.n
    BY <2>1 DEF Wrote, Serving!AfterServerWrite, Serving!Kept, Serving!Read, Serving!ReadAgain,
       Serving!SetRead, End
  <2> QED BY <2>2 DEF Resourcing, Handing
<1>3. ASSUME Describing(s) PROVE Describing(t) /\ t.n = s.n /\ t.out = Serving!Silence
  <2>1. /\ s.user = "processing_peer" /\ s.wcb = "on_write_meta" /\ ~s.ready /\ ~s.held
    BY <1>3 DEF Describing, Handing
  <2>2. /\ t.user = "processing_peer" /\ t.wcb = "on_write_meta" /\ ~t.ready /\ ~t.held
        /\ t.rcb = "on_read_meta_response" /\ t.reading /\ t.out = Serving!Silence /\ t.n = s.n
    BY <2>1 DEF Wrote, Serving!AfterServerWrite, Serving!Kept, Serving!Read, Serving!ReadAgain,
       Serving!SetRead, End
  <2> QED BY <2>2 DEF Describing, Handing
<1>4. ASSUME Filling(s) PROVE Working(t) /\ t.n = s.n /\ t.out = Serving!Silence
  BY <1>4 DEF Filling, Working, Wrote, Serving!AfterServerWrite, Serving!OnWriteBulk, Serving!Kept,
     Serving!Read, Serving!ReadAgain, Serving!SetRead, Serving!SetWrite, End
<1> QED BY <1>1, <1>2, <1>3, <1>4

LEMMA WorkingWrote ==
  ASSUME NEW s \in End, NEW t, Working(s), t = Wrote(s), t # Serving!Closed
  PROVE  Working(t) /\ t.n = s.n
<1>1. CASE s.wcb = "on_write_sync"
  BY <1>1 DEF Working, Wrote, Serving!AfterServerWrite, Serving!Kept, Serving!WritePending, End,
     Serving!Msg, Serving!Silence
<1>2. CASE s.wcb = "on_late_write_sync"
  BY <1>2, SMTT(30), ZenonT(40) DEF Working, Wrote, Serving!AfterServerWrite, Serving!Kept,
     Serving!Write, Serving!WriteAgain, Serving!SetWrite, Serving!WritePending, End, Serving!Msg,
     Serving!Silence
<1> QED BY <1>1, <1>2 DEF Working

LEMMA EndWrote ==
  ASSUME NEW s \in End, NEW t, t = Wrote(s)
  PROVE  /\ Ending(s) => Ended(t) /\ t.n = s.n /\ t.out = Serving!Msg("end", s.n, "none")
         /\ Ended(s) => Ended(t) /\ t.n = s.n /\ t.out = Serving!Silence
<1>1. Ending(s) => Ended(t) /\ t.n = s.n /\ t.out = Serving!Msg("end", s.n, "none")
  BY SMTT(30), ZenonT(40) DEF Ending, Ended, Wrote, Serving!AfterServerWrite, Serving!Kept,
     Serving!Write, Serving!WriteAgain, Serving!SetWrite, Serving!WritePending, End, Serving!Msg,
     Serving!Silence
<1>2. Ended(s) => Ended(t) /\ t.n = s.n /\ t.out = Serving!Silence
  BY DEF Ended, Wrote, Serving!AfterServerWrite, Serving!OnWriteEndProcess, Serving!Kept,
     Serving!ReadAgain, End
<1> QED BY <1>1, <1>2

LEMMA Given ==
  ASSUME NEW q \in Seq(Message), NEW t \in End
  PROVE  /\ With(q, t) \in Seq(Message)
         /\ t.out = Serving!Silence => With(q, t) = q
         /\ t.out.type # "none" => With(q, t) = Append(q, t.out)
<1>1. t.out \in Message
  BY DEF End
<1>2. t.out = Serving!Silence => t.out.type = "none"
  BY DEF Serving!Silence, Serving!Msg
<1> QED BY <1>1, <1>2, AppendFacts DEF With, Serving!WritePending

\* A sync more is given to a peer that works.
LEMMA OneMoreSync ==
  ASSUME NEW p, NEW s \in End, NEW c, NEW t \in End, NEW in \in Seq(Message), NEW go,
         AtWorking(p, s, c, in, go), Working(t), t.n = s.n
  PROVE  AtWorking(p, t, c, With(in, t), go)
<1>1. CASE t.out = Serving!Silence
  BY <1>1, Given DEF AtWorking
<1>2. CASE t.out = Serving!Msg("sync", t.n, "none")
  <2> DEFINE r == Append(in, t.out)
  <2>1. t.out \in Message /\ t.out.type = "sync" /\ t.out.n = t.n
    BY <1>2 DEF End, Serving!Msg
  <2>2. With(in, t) = r
    BY <2>1, Given
  <2>3. /\ Len(r) = Len(in) + 1 /\ r[Len(in) + 1] = t.out /\ Len(in) \in Nat
        /\ \A k \in 1..Len(in) : r[k] = in[k]
    BY <2>1, AppendFacts
  <2>4. Syncs(in, s.n) => Syncs(r, s.n)
    BY <2>1, Appends
  <2> HIDE DEF r
  <2>5. Worked(p, s.n, c, in, go) => Worked(p, t.n, c, r, go)
    <3>1. ASSUME Len(in) > 0, in[1] = Serving!Msg("bulk", s.n, "none"),
                 \A k \in 2..Len(in) : in[k].type = "sync" /\ in[k].n = s.n
          PROVE  /\ Len(r) > 0 /\ r[1] = Serving!Msg("bulk", t.n, "none")
                 /\ \A k \in 2..Len(r) : r[k].type = "sync" /\ r[k].n = t.n
      BY <2>1, <2>3, <3>1
    <3> QED BY <2>4, <3>1 DEF Worked
  <2> QED BY <2>2, <2>5 DEF AtWorking
<1> QED BY <1>1, <1>2 DEF Working

\* The conversation goes on when the server has written.
LEMMA ServerWrites ==
  ASSUME NEW p, NEW s \in End, NEW c \in End, NEW t \in End, NEW in \in Seq(Message),
         NEW go \in Seq(Message), Session(p, s, c, in, go), Serving!WritePending(s), t = Wrote(s),
         t # Serving!Closed
  PROVE  Session(p, t, c, With(in, t), go)
<1>0. /\ t.out = Serving!Silence => With(in, t) = in
      /\ s.out # Serving!Silence
  BY Given DEF Serving!WritePending
<1>1. CASE AtOffering(s, c, in, go)
  BY <1>0, <1>1, HandingWrote DEF AtOffering, Answered, Session
<1>2. CASE AtResourcing(s, c, in, go)
  BY <1>0, <1>2, HandingWrote DEF AtResourcing, Answered, Session
<1>3. CASE AtDescribing(p, s, c, in, go)
  BY <1>0, <1>3, HandingWrote DEF AtDescribing, Answered, Session
<1>4. CASE AtFilling(s, c, in, go)
  <2>1. Working(t) /\ t.n = s.n /\ t.out = Serving!Silence
    BY <1>4, HandingWrote DEF AtFilling
  <2>2. Reports(p, go, t.n)
    BY <1>4, Nothing DEF AtFilling
  <2>3. c # Serving!Closed => Worked(p, t.n, c, in, go)
    <3>1. One(in, Serving!Msg("bulk", s.n, "none")) =>
             Len(in) > 0 /\ in[1] = Serving!Msg("bulk", s.n, "none") /\ 2..Len(in) = {}
      BY DEF One
    <3> QED BY <1>4, <2>1, <3>1 DEF AtFilling, Filled, Worked
  <2> QED BY <1>0, <2>1, <2>2, <2>3 DEF AtWorking, Session
<1>5. CASE AtWorking(p, s, c, in, go)
  BY <1>5, WorkingWrote, OneMoreSync DEF AtWorking, Session
<1>6. CASE AtEnding(p, s, c, in, go)
  <2> DEFINE r == Append(in, t.out)
  <2>1. Ended(t) /\ t.n = s.n /\ t.out.type = "end" /\ t.out.n = s.n /\ t.out \in Message
        /\ ~Ended(s)
    <3>1. Ending(s) /\ ~Ended(s)
      BY <1>6 DEF AtEnding, Ended, Ending
    <3>2. Ended(t) /\ t.n = s.n /\ t.out = Serving!Msg("end", s.n, "none")
      BY <3>1, EndWrote
    <3>3. t.out.type = "end" /\ t.out.n = s.n
      BY <3>2 DEF Serving!Msg
    <3> QED BY <3>1, <3>2, <3>3 DEF End
  <2>2. With(in, t) = r
    BY <2>1, Given
  <2>3. /\ Len(r) = Len(in) + 1 /\ r[Len(in) + 1] = t.out /\ Len(in) \in Nat
        /\ \A k \in 1..Len(in) : r[k] = in[k]
    BY <2>1, AppendFacts
  <2> HIDE DEF r
  <2>4. c # Serving!Closed => Unaware(p, t, c, r, go)
    BY <1>6, <2>1, <2>3 DEF AtEnding, Unaware
  <2> QED BY <1>6, <2>1, <2>2, <2>4 DEF AtEnding, AtEnded, Session
<1>7. CASE AtEnded(p, s, c, in, go)
  <2>1. Ended(t) /\ t.n = s.n /\ t.out = Serving!Silence
    BY <1>7, EndWrote DEF AtEnded
  <2>2. c # Serving!Closed => Unaware(p, t, c, in, go)
    BY <1>0, <1>7, <2>1 DEF AtEnded, Unaware, Aware
  <2> QED BY <1>0, <1>7, <2>1, <2>2 DEF AtEnded, Session
<1>8. ~AtGreeting(s, c, in, go) /\ ~AtWaiting(s, c, in, go)
  BY <1>0 DEF AtGreeting, AtWaiting, Greeting, Waiting
<1> QED BY <1>1, <1>2, <1>3, <1>4, <1>5, <1>6, <1>7, <1>8 DEF Session

\* A peer that works is given a sync, its report is put off, or read again.
LEMMA OnlyWorking ==
  ASSUME NEW p, NEW s, NEW c, NEW in, NEW go, Session(p, s, c, in, go),
         s.held \/ (s.user = "processing_peer" /\ s.rcb = "on_read_report")
  PROVE  AtWorking(p, s, c, in, go)
BY DEF Session, AtGreeting, AtWaiting, AtOffering, AtResourcing, AtDescribing, AtFilling,
   AtEnding, AtEnded, Greeting, Waiting, Offering, Resourcing, Describing, Handing, Filling,
   Ending, Ended

LEMMA WorkGoesOn ==
  ASSUME NEW s \in End, NEW t, Working(s)
  PROVE  /\ t = (IF Serving!WritePending(s) THEN Serving!SetWrite(s, "on_late_write_sync")
                 ELSE Serving!WriteAgain(s, Serving!Msg("sync", s.n, "none"))) => Working(t) /\ t.n = s.n
         /\ t = [Serving!ReadAgain(s) EXCEPT !.held = FALSE] => Working(t) /\ t.n = s.n /\ t.out = s.out
         /\ t = Serving!Kept([s EXCEPT !.reading = FALSE, !.held = TRUE]) /\ t # Serving!Closed =>
              Working(t) /\ t.n = s.n /\ t.out = s.out
<1>1. t = Serving!SetWrite(s, "on_late_write_sync") => Working(t) /\ t.n = s.n
  BY DEF Working, Serving!SetWrite, End
<1>2. t = Serving!WriteAgain(s, Serving!Msg("sync", s.n, "none")) => Working(t) /\ t.n = s.n
  BY DEF Working, Serving!WriteAgain, End
<1>3. t = [Serving!ReadAgain(s) EXCEPT !.held = FALSE] => Working(t) /\ t.n = s.n /\ t.out = s.out
  BY DEF Working, Serving!ReadAgain, End
<1>4. t = Serving!Kept([s EXCEPT !.reading = FALSE, !.held = TRUE]) /\ t # Serving!Closed =>
        Working(t) /\ t.n = s.n /\ t.out = s.out
  BY DEF Working, Serving!Kept, End
<1> QED BY <1>1, <1>2, <1>3, <1>4

\* A task becomes active: a peer that is ready is offered it.
LEMMA ReadyIsOffered ==
  ASSUME NEW p, NEW s \in End, NEW c \in End, NEW t \in End, NEW in \in Seq(Message),
         NEW r \in Seq(Message), NEW go \in Seq(Message), NEW i \in Nat,
         Session(p, s, c, in, go), s.ready, t = Serving!NewProcessingPeer(s, i), Grows(in, r, s, t)
  PROVE  Session(p, t, c, r, go)
<1>1. AtWaiting(s, c, in, go)
  BY DEF Session, AtGreeting, AtOffering, AtResourcing, AtDescribing, AtFilling, AtWorking,
     AtEnding, AtEnded, Greeting, Offering, Resourcing, Describing, Handing, Filling, Working,
     Ending, Ended
<1>2. Waiting(s) /\ s.out = Serving!Silence /\ Empty(go) /\ (c # Serving!Closed => Idles(c) /\ Empty(in))
  BY <1>1 DEF AtWaiting, Waiting, Waited
<1>3. Offering(t) /\ t.n = i /\ t.out = Serving!Msg("offer", t.n, "none")
  BY <1>2, ZenonT(40) DEF Waiting, Serving!NewProcessingPeer, Serving!Write, Serving!WriteAgain,
     Serving!SetWrite, Serving!TakenOver, Offering, Handing, End
<1>4. Empty(in) => One(r, Serving!Msg("offer", t.n, "none"))
  BY <1>2, <1>3, Begins DEF Serving!Msg
<1> QED BY <1>2, <1>3, <1>4 DEF Session, AtOffering, Answered, Offered

\* The task ends: whatever the peer is doing, it is told, after what is being written.
LEMMA Interrupted ==
  ASSUME NEW p, NEW s \in End, NEW c \in End, NEW in \in Seq(Message), NEW go \in Seq(Message),
         Session(p, s, c, in, go), s.user = "processing_peer"
  PROVE  /\ NoEcho(go, s.n)
         /\ c # Serving!Closed =>
              /\ Idles(c) \/ Declines(c, s.n) \/ (AtTask(p, c) /\ c.n = s.n)
              /\ \A k \in 1..Len(in) : in[k].n = s.n /\ in[k].type # "end"
<1>0. /\ \A q, m, i : One(q, m) /\ Early(m, i) => NoEcho(q, i)
      /\ \A q, i : Empty(q) => NoEcho(q, i)
      /\ \A i, about : \A type \in {"good", "bad", "skip"} : Early(Serving!Msg(type, i, about), i)
  <2>1. \A q, i : Empty(q) => NoEcho(q, i)
    BY Nothing
  <2>2. \A q, m, i : One(q, m) /\ Early(m, i) => NoEcho(q, i)
    BY DEF One, NoEcho
  <2> QED BY <2>1, <2>2 DEF Early, Serving!Msg
<1>1. \A about : Answered(s, go, about) => NoEcho(go, s.n)
  BY <1>0 DEF Answered
<1>2. /\ Empty(in) => \A k \in 1..Len(in) : in[k].n = s.n /\ in[k].type # "end"
      /\ \A type \in {"offer", "res", "meta", "bulk"} : One(in, Serving!Msg(type, s.n, "none")) =>
           \A k \in 1..Len(in) : in[k].n = s.n /\ in[k].type # "end"
  BY DEF Empty, One, Serving!Msg
<1>3. CASE AtOffering(s, c, in, go)
  BY <1>1, <1>2, <1>3 DEF AtOffering, Offered, AtTask
<1>4. CASE AtResourcing(s, c, in, go)
  BY <1>1, <1>2, <1>4 DEF AtResourcing, Resourced, AtTask
<1>5. CASE AtDescribing(p, s, c, in, go)
  BY <1>1, <1>2, <1>5 DEF AtDescribing, Described, AtTask
<1>6. CASE AtFilling(s, c, in, go)
  BY <1>0, <1>2, <1>6 DEF AtFilling, Filled, AtTask
<1>7. CASE AtWorking(p, s, c, in, go)
  <2>1. NoEcho(go, s.n)
    BY <1>7 DEF AtWorking, Reports, IsReport, NoEcho, Early
  <2>2. ASSUME Len(in) > 0, in[1] = Serving!Msg("bulk", s.n, "none"),
               \A k \in 2..Len(in) : in[k].type = "sync" /\ in[k].n = s.n
        PROVE  \A k \in 1..Len(in) : in[k].n = s.n /\ in[k].type # "end"
    <3>1. in[1].n = s.n /\ in[1].type = "bulk" /\ Len(in) \in Nat
      BY <2>2 DEF Serving!Msg
    <3> QED BY <2>2, <3>1
  <2>3. Syncs(in, s.n) => \A k \in 1..Len(in) : in[k].n = s.n /\ in[k].type # "end"
    BY DEF Syncs
  <2> QED BY <1>7, <2>1, <2>2, <2>3 DEF AtWorking, Worked, AtTask
<1>8. /\ ~AtGreeting(s, c, in, go) /\ ~AtWaiting(s, c, in, go)
      /\ ~AtEnding(p, s, c, in, go) /\ ~AtEnded(p, s, c, in, go)
  BY DEF AtGreeting, AtWaiting, AtEnding, AtEnded, Greeting, Waiting, Ending, Ended
<1> QED BY <1>3, <1>4, <1>5, <1>6, <1>7, <1>8 DEF Session

LEMMA PeerIsTold ==
  ASSUME NEW p, NEW s \in End, NEW c \in End, NEW t \in End, NEW in \in Seq(Message),
         NEW r \in Seq(Message), NEW go \in Seq(Message), Session(p, s, c, in, go),
         s.user = "processing_peer", t = Serving!NewEndProcessWriter(s), Grows(in, r, s, t)
  PROVE  Session(p, t, c, r, go)
<1>1. /\ NoEcho(go, s.n)
      /\ c # Serving!Closed =>
           /\ Idles(c) \/ Declines(c, s.n) \/ (AtTask(p, c) /\ c.n = s.n)
           /\ \A k \in 1..Len(in) : in[k].n = s.n /\ in[k].type # "end"
  BY Interrupted
<1>2. CASE Serving!WritePending(s)
  <2>1. s.out.type \in {"offer", "res", "meta", "bulk", "sync"} /\ s.out.n = s.n
    BY <1>2 DEF Session, AtGreeting, AtWaiting, AtOffering, AtResourcing, AtDescribing, AtFilling,
       AtWorking, AtEnding, AtEnded, Greeting, Waiting, Offering, Resourcing, Describing, Handing,
       Filling, Working, Ending, Ended, Serving!WritePending, Serving!Msg
  <2>2. t = Serving!SetWrite(Serving!SetRead(Serving!TakenOver(s, "end_process_writer"), "on_read_echo"),
                     "late_write_end_process")
    BY <1>2 DEF Serving!NewEndProcessWriter, Serving!WritePending, Serving!TakenOver,
       Serving!SetRead, End
  <2>3. Ending(t) /\ t.n = s.n /\ t.out = s.out
    BY <2>1, <2>2 DEF Ending, Serving!SetWrite, Serving!SetRead, Serving!TakenOver, End
  <2>4. r = in /\ ~Ended(t)
    BY <2>3 DEF Grows, Ending, Ended
  <2>5. c # Serving!Closed => Unaware(p, t, c, r, go)
    BY <1>1, <2>3, <2>4 DEF Unaware
  <2> QED BY <1>1, <2>3, <2>5 DEF Session, AtEnding
<1>3. CASE ~Serving!WritePending(s)
  <2>1. t = Serving!Write(Serving!SetRead(Serving!TakenOver(s, "end_process_writer"), "on_read_echo"),
                  Serving!Msg("end", s.n, "none"), "on_write_end_process")
    BY <1>3 DEF Serving!NewEndProcessWriter, Serving!WritePending, Serving!TakenOver,
       Serving!SetRead, End
  <2>2. Ended(t) /\ t.n = s.n /\ t.out = Serving!Msg("end", s.n, "none")
    <3>1. /\ t.user = "end_process_writer" /\ t.rcb = "on_read_echo" /\ t.ready = FALSE
          /\ t.held = FALSE /\ t.wcb = "on_write_end_process" /\ t.n = s.n
          /\ t.out = Serving!Msg("end", s.n, "none")
      BY <2>1 DEF Serving!Write, Serving!WriteAgain, Serving!SetWrite, Serving!SetRead,
         Serving!TakenOver, End
    <3> QED BY <3>1 DEF Ended
  <2>3. t.out.type = "end" /\ t.out.n = s.n /\ s.out = Serving!Silence
    BY <1>3, <2>2 DEF Serving!Msg, Serving!WritePending
  <2>4. r = Append(in, t.out) /\ t.out \in Message
    BY <2>3, Begins
  <2>5. /\ Len(r) = Len(in) + 1 /\ r[Len(in) + 1] = t.out /\ Len(in) \in Nat
        /\ \A k \in 1..Len(in) : r[k] = in[k]
    BY <2>4, AppendFacts
  <2>6. c # Serving!Closed => Unaware(p, t, c, r, go)
    BY <1>1, <2>2, <2>3, <2>5, SMTT(30), ZenonT(40) DEF Unaware
  <2> QED BY <1>1, <2>2, <2>6 DEF Session, AtEnded
<1> QED BY <1>2, <1>3

-----------------------------------------------------------------------------
(* The peer reads.                                                         *)

Understood(p, c, m, news) == Serving!Kept(Serving!AtPeer(p, [c EXCEPT !.reading = FALSE], m, news))

LEMMA IdleReads ==
  ASSUME NEW p, NEW c \in End, NEW d, NEW m \in Message, NEW news, Idles(c),
         d = Understood(p, c, m, news), d # Serving!Closed
  PROVE  /\ m.type = "offer"
         /\ \/ Declines(d, m.n) /\ d.out = Serving!Msg("bad", m.n, "offer")
            \/ Accepts(d) /\ d.n = m.n /\ d.out = Serving!Msg("good", m.n, "offer")
<1>1. d = Serving!Kept(Serving!AtPeerConnection(p, [c EXCEPT !.reading = FALSE], m))
  BY DEF Understood, Serving!AtPeer, Idles, Reads, End
<1>2. m.type = "offer"
  BY <1>1 DEF Serving!AtPeerConnection, Serving!Kept
<1>3. CASE <<p, Serving!TaskOf(m.n)>> \in Serving!Unknown
  <2>1. d = Serving!Kept(Serving!WriteAgain([c EXCEPT !.reading = FALSE], Serving!Msg("bad", m.n, "offer")))
    BY <1>1, <1>2, <1>3 DEF Serving!AtPeerConnection
  <2> QED BY <1>2, <2>1 DEF Serving!Kept, Serving!WriteAgain, Serving!WritePending, Declines,
             Writes, Still, Idles, Reads, End, Serving!Msg, Serving!Silence
<1>4. CASE <<p, Serving!TaskOf(m.n)>> \notin Serving!Unknown
  <2>1. d = Serving!Kept(Serving!Write([Serving!TakenOver([c EXCEPT !.reading = FALSE], "task_processor") EXCEPT !.n = m.n],
                       Serving!Msg("good", m.n, "offer"), "on_written_good_offer"))
    BY <1>1, <1>2, <1>4 DEF Serving!AtPeerConnection
  <2>2. /\ d.out = Serving!Msg("good", m.n, "offer") /\ d.wcb = "on_written_good_offer" /\ ~d.reading
        /\ d.timer = "off" /\ d.load = c.load /\ d.n = m.n
    BY <2>1 DEF Serving!Kept, Serving!Write, Serving!WriteAgain, Serving!SetWrite,
       Serving!TakenOver, Serving!WritePending, End, Serving!Msg, Serving!Silence
  <2> QED BY <1>2, <2>2 DEF Accepts, Writes, Still, Idles, Reads
<1> QED BY <1>3, <1>4

LEMMA OnResourcesReads ==
  ASSUME NEW p, NEW c \in End, NEW d, NEW m \in Message, NEW news, OnResources(c),
         d = Understood(p, c, m, news), d # Serving!Closed
  PROVE  m.type = "res" /\ TakesResources(d) /\ d.n = c.n /\ d.out = Serving!Msg("good", c.n, "res")
<1>1. d = Serving!Kept(Serving!OnRes([c EXCEPT !.reading = FALSE], m))
  BY DEF Understood, Serving!AtPeer, OnResources, Reads, End
<1>2. m.type = "res"
  BY <1>1 DEF Serving!OnRes, Serving!Kept
<1>3. d = Serving!Kept(Serving!Write(Serving!TakenOver([c EXCEPT !.reading = FALSE], "task_processor_detail_meta"),
                     Serving!Msg("good", c.n, "res"), "on_written_good_res"))
  BY <1>1, <1>2 DEF Serving!OnRes, End
<1>4. /\ d.out = Serving!Msg("good", c.n, "res") /\ d.wcb = "on_written_good_res" /\ ~d.reading
      /\ d.timer = "off" /\ d.load = c.load /\ d.n = c.n
  BY <1>3 DEF Serving!Kept, Serving!Write, Serving!WriteAgain, Serving!SetWrite, Serving!TakenOver,
     Serving!WritePending, End, Serving!Msg, Serving!Silence
<1> QED BY <1>2, <1>4 DEF TakesResources, Writes, Still, OnResources, Reads

LEMMA OnMetadataReads ==
  ASSUME NEW p, NEW c \in End, NEW d, NEW m \in Message, NEW news, OnMetadata(c),
         d = Understood(p, c, m, news), d # Serving!Closed
  PROVE  /\ m.type = "meta" /\ d.n = c.n
         /\ \/ Refuses(d) /\ d.out = Serving!Msg("bad", c.n, "meta")
            \/ Loads(d) /\ d.out = c.out
<1>1. d = Serving!Kept(Serving!OnMeta(p, [c EXCEPT !.reading = FALSE], m))
  BY DEF Understood, Serving!AtPeer, OnMetadata, Reads, End
<1>2. m.type = "meta"
  BY <1>1 DEF Serving!OnMeta, Serving!Kept
<1>3. CASE <<p, Serving!TaskOf(m.n)>> \in Serving!Refused
  <2>1. d = Serving!Kept(Serving!Write([c EXCEPT !.reading = FALSE], Serving!Msg("bad", c.n, "meta"),
                       "on_bad_meta_reply_write"))
    BY <1>1, <1>2, <1>3 DEF Serving!OnMeta, End
  <2>2. /\ d.out = Serving!Msg("bad", c.n, "meta") /\ d.wcb = "on_bad_meta_reply_write" /\ ~d.reading
        /\ d.timer = c.timer /\ d.load = c.load /\ d.n = c.n
    BY <2>1 DEF Serving!Kept, Serving!Write, Serving!WriteAgain, Serving!SetWrite,
       Serving!WritePending, End, Serving!Msg, Serving!Silence
  <2> QED BY <1>2, <2>2 DEF Refuses, Writes, Still, OnMetadata, Reads
<1>4. CASE <<p, Serving!TaskOf(m.n)>> \notin Serving!Refused
  <2>1. d = Serving!Kept([Serving!TakenOver([c EXCEPT !.reading = FALSE], "task_processor_detail")
                    EXCEPT !.load = "hash"])
    BY <1>1, <1>2, <1>4 DEF Serving!OnMeta
  <2>2. d.load = "hash" /\ d.timer = "off" /\ d.out = c.out /\ ~d.reading /\ d.n = c.n
    BY <2>1 DEF Serving!Kept, Serving!TakenOver, End
  <2> QED BY <1>2, <2>2 DEF Loads, OnMetadata, Reads
<1> QED BY <1>3, <1>4

\* What a peer that has nothing to write answers to end_process.
LEMMA AnEcho ==
  ASSUME NEW e \in End, NEW d, d = Serving!Kept(Serving!Echo(e)), ~e.reading, e.load = "none"
  PROVE  Echoes(d) /\ d.n = e.n /\ d.out = Serving!Msg("end", e.n, "none")
BY DEF Serving!Kept, Serving!Echo, Serving!Write, Serving!WriteAgain, Serving!SetWrite,
   Serving!WritePending, Echoes, IsDeaf, End, Serving!Msg, Serving!Silence

LEMMA OnEndReads ==
  ASSUME NEW p, NEW c \in End, NEW d, NEW m \in Message, NEW news, OnEnd(c),
         d = Understood(p, c, m, news), d # Serving!Closed
  PROVE  m.type = "end" /\ Echoes(d) /\ d.n = c.n
<1> DEFINE e == [c EXCEPT !.reading = FALSE]
<1>1. e \in End /\ ~e.reading /\ e.load = "none" /\ e.n = c.n /\ e.rcb = "on_end_process_read"
  BY DEF OnEnd, Reads, Still, End
<1> HIDE DEF e
<1>2. d = Serving!Kept(IF m.type = "end" THEN Serving!Echo(e) ELSE Serving!Closed)
  BY <1>1 DEF Understood, Serving!AtPeer, e
<1>3. m.type = "end"
  BY <1>2 DEF Serving!Kept
<1> QED BY <1>1, <1>2, <1>3, AnEcho

BulkTaken(p, c, d, m) ==
  /\ d.n = c.n
  /\ \/ m.type = "end" /\ Echoes(d)
     \/ m.type = "bulk" /\ d.out = c.out /\ Saves(p, d)
     \/ m.type = "bulk" /\ d.out = c.out /\ OnFirst(p, d)

LEMMA OnBulkReads ==
  ASSUME NEW p, NEW c \in End, NEW d, NEW m \in Message, NEW news, OnBulk(c),
         m.n = c.n, d = Understood(p, c, m, news), d # Serving!Closed
  PROVE  BulkTaken(p, c, d, m)
<1> DEFINE e == [c EXCEPT !.reading = FALSE]
<1>1. /\ e \in End /\ ~e.reading /\ e.load = "none" /\ e.n = c.n /\ e.rcb = "on_bulk_read"
      /\ e.out = Serving!Silence /\ c.out = Serving!Silence /\ e.timer = "off"
  BY DEF OnBulk, Reads, Still, End
<1> HIDE DEF e
<1>2. d = Serving!Kept(Serving!OnBulkRead(p, e, m))
  BY <1>1 DEF Understood, Serving!AtPeer, e
<1>3. m.type \in {"end", "bulk"}
  BY <1>2 DEF Serving!OnBulkRead, Serving!Kept
<1>4. CASE m.type = "end"
  <2>1. d = Serving!Kept(Serving!Echo(e))
    BY <1>1, <1>2, <1>4 DEF Serving!OnBulkRead, Serving!RespondToEndProcess, Serving!WritePending
  <2> QED BY <1>1, <1>4, <2>1, AnEcho DEF BulkTaken
<1>5. CASE m.type = "bulk" /\ p \in Serving!Clones
  <2>1. d = Serving!Kept(Serving!Read([e EXCEPT !.loaded = Serving!TaskOf(m.n)], "on_first_sync_read"))
    BY <1>2, <1>5 DEF Serving!OnBulkRead
  <2>2. d.out = Serving!Silence /\ d.n = c.n /\ d.reading /\ d.load = "none" /\ d.timer = "off"
        /\ d.rcb = "on_first_sync_read"
    BY <1>1, <2>1 DEF Serving!Kept, Serving!Read, Serving!ReadAgain, Serving!SetRead, End
  <2> QED BY <1>1, <1>5, <2>2 DEF BulkTaken, OnFirst, Reads, Still, Has
<1>6. CASE m.type = "bulk" /\ p \notin Serving!Clones
  <2>1. d = Serving!Kept([[e EXCEPT !.loaded = Serving!TaskOf(m.n)] EXCEPT !.load = "open"])
    BY <1>2, <1>6 DEF Serving!OnBulkRead
  <2>2. d.out = Serving!Silence /\ d.n = c.n /\ ~d.reading /\ d.load = "open" /\ d.timer = "off"
        /\ d.loaded = Serving!TaskOf(m.n)
    BY <1>1, <2>1 DEF Serving!Kept, End
  <2> QED BY <1>1, <1>6, <2>2 DEF BulkTaken, Saves, Has
<1> QED BY <1>3, <1>4, <1>5, <1>6

LEMMA SyncReads ==
  ASSUME NEW p, NEW e \in End, NEW d, NEW m \in Message, NEW news \in BOOLEAN,
         d = Serving!Kept(Serving!OnSyncRead(e, m, news)), d # Serving!Closed, ~e.reading, e.load = "none",
         e.rcb = "on_sync_read", Has(p, e)
  PROVE  /\ d.n = e.n
         /\ \/ m.type = "end" /\ e.out = Serving!Silence /\ Echoes(d)
            \/ m.type = "end" /\ e.out.type = "report" /\ d.out = e.out /\ ToEcho(d)
            \/ m.type = "end" /\ e.out # Serving!Silence /\ e.out.type # "report"
            \/ /\ m.type = "sync" /\ d.out = e.out /\ d.load = "none" /\ d.rcb = "on_sync_read"
               /\ d.reading /\ Has(p, d) /\ (d.wcb = "on_write" \/ d.wcb = e.wcb)
<1>1. m.type \in {"end", "sync"}
  BY DEF Serving!OnSyncRead, Serving!Kept
<1>2. CASE m.type = "end" /\ e.out = Serving!Silence
  <2>1. d = Serving!Kept(Serving!Echo(e))
    BY <1>2 DEF Serving!OnSyncRead, Serving!RespondToEndProcess, Serving!WritePending
  <2> QED BY <1>2, <2>1, AnEcho
<1>3. CASE m.type = "end" /\ e.out # Serving!Silence
  <2>1. d = Serving!Kept(Serving!SetWrite(e, "respond_to_end_process"))
    BY <1>3 DEF Serving!OnSyncRead, Serving!RespondToEndProcess, Serving!WritePending
  <2>2. d.out = e.out /\ d.n = e.n /\ ~d.reading /\ d.load = "none" /\ d.wcb = "respond_to_end_process"
    BY <1>3, <2>1 DEF Serving!Kept, Serving!SetWrite, Serving!WritePending, End
  <2> QED BY <1>3, <2>2 DEF ToEcho, IsDeaf
<1>4. CASE m.type = "sync" /\ news
  <2>1. d = Serving!Kept([Serving!ReadAgain(Serving!SetWrite(e, "on_write")) EXCEPT !.timer = "on"])
    BY <1>4 DEF Serving!OnSyncRead
  <2>2. /\ d.out = e.out /\ d.n = e.n /\ d.reading /\ d.load = "none" /\ d.wcb = "on_write"
        /\ d.rcb = "on_sync_read" /\ d.loaded = e.loaded
    BY <2>1 DEF Serving!Kept, Serving!ReadAgain, Serving!SetWrite, End
  <2> QED BY <1>4, <2>2 DEF Has
<1>5. CASE m.type = "sync" /\ ~news
  <2>1. d = Serving!Kept([Serving!ReadAgain(e) EXCEPT !.timer = "send"])
    <3>1. m.type # "end" /\ m.type = "sync" /\ news = FALSE
      BY <1>5
    <3> QED BY <3>1 DEF Serving!OnSyncRead
  <2>2. /\ d.out = e.out /\ d.n = e.n /\ d.reading /\ d.load = "none" /\ d.wcb = e.wcb
        /\ d.rcb = "on_sync_read" /\ d.loaded = e.loaded
    BY <2>1 DEF Serving!Kept, Serving!ReadAgain, End
  <2> QED BY <1>5, <2>2 DEF Has
<1> QED BY <1>1, <1>2, <1>3, <1>4, <1>5

LEMMA OnFirstReads ==
  ASSUME NEW p, NEW c \in End, NEW d, NEW m \in Message, NEW news \in BOOLEAN, OnFirst(p, c),
         d = Understood(p, c, m, news), d # Serving!Closed
  PROVE  /\ d.n = c.n
         /\ \/ m.type = "end" /\ Echoes(d)
            \/ m.type = "sync" /\ Computes(p, d) /\ d.out = c.out
<1> DEFINE e == [Serving!SetRead([c EXCEPT !.reading = FALSE], "on_sync_read") EXCEPT !.timer = "on"]
<1>1. /\ e \in End /\ ~e.reading /\ e.load = "none" /\ e.n = c.n /\ e.rcb = "on_sync_read"
      /\ e.out = Serving!Silence /\ c.out = Serving!Silence /\ Has(p, e)
  <2>1. Serving!SetRead([c EXCEPT !.reading = FALSE], "on_sync_read") \in End
    BY OtherField, DriverKeepsTypes DEF ReadCallbacks
  <2>2. e \in End
    BY <2>1, OtherField
  <2> QED BY <2>2 DEF OnFirst, Reads, Still, Serving!SetRead, Has, End
<1>2. d = Serving!Kept(Serving!OnSyncRead(e, m, TRUE))
  BY DEF Understood, Serving!AtPeer, OnFirst, Reads, End
<1> HIDE DEF e
<1>6. TRUE \in BOOLEAN
  OBVIOUS
<1>7. /\ d.n = e.n
      /\ \/ m.type = "end" /\ e.out = Serving!Silence /\ Echoes(d)
         \/ m.type = "end" /\ e.out.type = "report" /\ d.out = e.out /\ ToEcho(d)
         \/ m.type = "end" /\ e.out # Serving!Silence /\ e.out.type # "report"
         \/ /\ m.type = "sync" /\ d.out = e.out /\ d.load = "none" /\ d.rcb = "on_sync_read"
            /\ d.reading /\ Has(p, d) /\ (d.wcb = "on_write" \/ d.wcb = e.wcb)
  BY <1>1, <1>2, <1>6, SyncReads, ZenonT(40)
<1>3. \/ m.type = "end" /\ Echoes(d)
      \/ /\ m.type = "sync" /\ d.out = e.out /\ d.load = "none" /\ d.rcb = "on_sync_read"
         /\ d.reading /\ Has(p, d) /\ (d.wcb = "on_write" \/ d.wcb = e.wcb)
  <2>1. e.out.type # "report"
    BY <1>1 DEF Serving!Silence, Serving!Msg
  <2> QED BY <1>1, <1>7, <2>1
<1>4. d.n = c.n
  BY <1>1, <1>7
<1>5. ASSUME m.type = "sync" PROVE d.wcb = "on_write"
  <2>1. d = Serving!Kept([Serving!ReadAgain(Serving!SetWrite(e, "on_write")) EXCEPT !.timer = "on"])
    BY <1>2, <1>5 DEF Serving!OnSyncRead
  <2> QED BY <1>1, <2>1 DEF Serving!Kept, Serving!ReadAgain, Serving!SetWrite, End
<1> QED BY <1>1, <1>3, <1>4, <1>5 DEF Computes

LEMMA ComputesReads ==
  ASSUME NEW p, NEW c \in End, NEW d, NEW m \in Message, NEW news \in BOOLEAN, Computes(p, c),
         d = Understood(p, c, m, news), d # Serving!Closed
  PROVE  /\ d.n = c.n
         /\ \/ m.type = "end" /\ Echoes(d) /\ c.out = Serving!Silence
            \/ m.type = "end" /\ ToEcho(d) /\ d.out = c.out
            \/ m.type = "sync" /\ Computes(p, d) /\ d.out = c.out
<1> DEFINE e == [c EXCEPT !.reading = FALSE]
<1>1. /\ e \in End /\ ~e.reading /\ e.load = "none" /\ e.n = c.n /\ e.rcb = "on_sync_read"
      /\ e.out = c.out /\ e.wcb = c.wcb /\ Has(p, e)
  BY DEF Computes, Has, End
<1> HIDE DEF e
<1>2. d = Serving!Kept(Serving!OnSyncRead(e, m, news))
  BY <1>1 DEF Understood, Serving!AtPeer, e
<1>3. c.out = Serving!Silence \/ c.out.type = "report"
  BY DEF Computes, IsReport
<1>4. /\ d.n = e.n
      /\ \/ m.type = "end" /\ e.out = Serving!Silence /\ Echoes(d)
         \/ m.type = "end" /\ e.out.type = "report" /\ d.out = e.out /\ ToEcho(d)
         \/ m.type = "end" /\ e.out # Serving!Silence /\ e.out.type # "report"
         \/ /\ m.type = "sync" /\ d.out = e.out /\ d.load = "none" /\ d.rcb = "on_sync_read"
            /\ d.reading /\ Has(p, d) /\ (d.wcb = "on_write" \/ d.wcb = e.wcb)
  BY <1>1, <1>2, SyncReads
<1> QED BY <1>1, <1>3, <1>4 DEF Computes

\* An end that reads, and a server that has nothing pending if one message is on its way.
Attends(s, c, in) == c.reading /\ Len(in) > 0 /\ (Serving!WritePending(s) => Len(in) > 1)

\* The first of what is on its way, and the rest.
HeadAndRest(q, m, rest) ==
  /\ m = q[1] /\ Len(rest) = Len(q) - 1
  /\ \A k \in 1..Len(rest) : k + 1 \in 1..Len(q) /\ rest[k] = q[k + 1]

\* What a peer that has not read end_process makes of what it reads.
Onward(p, i, c, d, m) ==
  \/ /\ m.type # "end"
     /\ Idles(d) \/ Declines(d, i) \/ (AtTask(p, d) /\ d.n = i)
     /\ d.out = c.out \/ (c.out = Serving!Silence /\ Early(d.out, i) /\ d.out.type # "none")
  \/ /\ m.type = "end" /\ d.n = i
     /\ (Echoes(d) /\ c.out = Serving!Silence) \/ (ToEcho(d) /\ d.out = c.out)

LEMMA UnawareReads ==
  ASSUME NEW p, NEW c \in End, NEW d, NEW m \in Message, NEW news \in BOOLEAN, NEW i \in Nat,
         c.reading, m.n = i, Idles(c) \/ Declines(c, i) \/ (AtTask(p, c) /\ c.n = i),
         d = Understood(p, c, m, news), d # Serving!Closed
  PROVE  Onward(p, i, c, d, m)
<1>0. \A type \in {"good", "bad"} : \A about :
        Early(Serving!Msg(type, i, about), i) /\ Serving!Msg(type, i, about).type # "none"
  BY DEF Early, Serving!Msg
<1>1. CASE Idles(c)
  <2>1. c.out = Serving!Silence
    BY <1>1 DEF Idles, Reads
  <2> QED BY <1>0, <1>1, <2>1, IdleReads DEF Onward, AtTask
<1>2. CASE OnResources(c) /\ c.n = i
  <2>1. c.out = Serving!Silence
    BY <1>2 DEF OnResources, Reads
  <2> QED BY <1>0, <1>2, <2>1, OnResourcesReads DEF Onward, AtTask
<1>3. CASE OnMetadata(c) /\ c.n = i
  <2>1. c.out = Serving!Silence
    BY <1>3 DEF OnMetadata, Reads
  <2> QED BY <1>0, <1>3, <2>1, OnMetadataReads DEF Onward, AtTask
<1>4. CASE OnEnd(c) /\ c.n = i
  <2>1. c.out = Serving!Silence
    BY <1>4 DEF OnEnd, Reads
  <2> QED BY <1>4, <2>1, OnEndReads DEF Onward
<1>5. CASE OnBulk(c) /\ c.n = i
  <2>1. c.out = Serving!Silence
    BY <1>5 DEF OnBulk, Reads
  <2>2. m.n = c.n
    BY <1>5
  <2>3. BulkTaken(p, c, d, m)
    BY <1>5, <2>2, OnBulkReads
  <2> QED BY <1>5, <2>1, <2>3 DEF Onward, BulkTaken, AtTask
<1>6. CASE OnFirst(p, c) /\ c.n = i
  <2>1. c.out = Serving!Silence
    BY <1>6 DEF OnFirst, Reads
  <2> QED BY <1>6, <2>1, OnFirstReads DEF Onward, AtTask
<1>7. CASE Computes(p, c) /\ c.n = i
  BY <1>7, ComputesReads DEF Onward, AtTask
<1>8. /\ ~Declines(c, i) /\ ~Accepts(c) /\ ~TakesResources(c) /\ ~Refuses(c) /\ ~Loads(c)
      /\ ~Asks(c) /\ ~Saves(p, c) /\ ~Skips(p, c)
  BY DEF Declines, Accepts, TakesResources, Refuses, Loads, Asks, Saves, Skips, Writes
<1> QED BY <1>1, <1>2, <1>3, <1>4, <1>5, <1>6, <1>7, <1>8 DEF AtTask

LEMMA OfferingAttends ==
  ASSUME NEW p, NEW s \in End, NEW c \in End, NEW d \in End, NEW news \in BOOLEAN,
         NEW in \in Seq(Message), NEW go \in Seq(Message), NEW r \in Seq(Message), c # Serving!Closed,
         AtOffering(s, c, in, go), Attends(s, c, in), d = Understood(p, c, Head(in), news),
         d # Serving!Closed, Grows(go, r, c, d)
  PROVE  Session(p, s, d, Tail(in), r)
<1> DEFINE m == Head(in)
<1>0. s.n \in Nat /\ ~Empty(in) /\ m \in Message
  BY TailFacts DEF Attends, Empty, End
<1>1. Idles(c) /\ One(in, Serving!Msg("offer", s.n, "none")) /\ Empty(go)
  <2>1. ~Accepts(c) /\ ~Declines(c, s.n)
    BY DEF Accepts, Declines, Writes, Attends
  <2> QED BY <1>0 DEF AtOffering, Offered
<1>2. /\ m = Serving!Msg("offer", s.n, "none") /\ Empty(Tail(in)) /\ s.out = Serving!Silence
      /\ c.out = Serving!Silence
  <2>1. Serving!Msg("offer", s.n, "none") \in Message
    BY <1>0, Words DEF Types
  <2>2. s.out = Serving!Silence
    BY <1>1 DEF Attends, Serving!WritePending, One
  <2>3. c.out = Serving!Silence
    BY <1>1 DEF Idles, Reads
  <2> QED BY <1>1, <2>1, <2>2, <2>3, ShortFacts
<1>3. /\ m.n = s.n /\ \A type \in {"good", "bad"} : Serving!Msg(type, s.n, "offer").type # "none"
  BY <1>2 DEF Serving!Msg
<1> HIDE DEF m
<1>4. \/ Declines(d, s.n) /\ d.out = Serving!Msg("bad", s.n, "offer")
      \/ Accepts(d) /\ d.n = s.n /\ d.out = Serving!Msg("good", s.n, "offer")
  BY <1>0, <1>1, <1>3, IdleReads DEF m
<1>5. One(r, d.out)
  BY <1>1, <1>2, <1>3, <1>4, Begins
<1> QED BY <1>2, <1>4, <1>5 DEF Session, AtOffering, Answered, Offered

LEMMA ResourcingAttends ==
  ASSUME NEW p, NEW s \in End, NEW c \in End, NEW d \in End, NEW news \in BOOLEAN,
         NEW in \in Seq(Message), NEW go \in Seq(Message), NEW r \in Seq(Message), c # Serving!Closed,
         AtResourcing(s, c, in, go), Attends(s, c, in), d = Understood(p, c, Head(in), news),
         d # Serving!Closed, Grows(go, r, c, d)
  PROVE  Session(p, s, d, Tail(in), r)
<1> DEFINE m == Head(in)
<1>0. s.n \in Nat /\ ~Empty(in) /\ m \in Message
  BY TailFacts DEF Attends, Empty, End
<1>1. OnResources(c) /\ One(in, Serving!Msg("res", s.n, "none")) /\ Empty(go) /\ c.n = s.n
  BY <1>0 DEF AtResourcing, Resourced
<1>2. Empty(Tail(in)) /\ s.out = Serving!Silence /\ c.out = Serving!Silence
  <2>1. Serving!Msg("res", s.n, "none") \in Message
    BY <1>0, Words DEF Types
  <2>2. s.out = Serving!Silence
    BY <1>1 DEF Attends, Serving!WritePending, One
  <2>3. c.out = Serving!Silence
    BY <1>1 DEF OnResources, Reads
  <2> QED BY <1>1, <2>1, <2>2, <2>3, ShortFacts
<1>3. Serving!Msg("good", s.n, "res").type # "none"
  BY DEF Serving!Msg
<1> HIDE DEF m
<1>4. TakesResources(d) /\ d.n = s.n /\ d.out = Serving!Msg("good", s.n, "res")
  BY <1>0, <1>1, OnResourcesReads, SMTT(30), ZenonT(40) DEF m
<1>5. One(r, d.out)
  BY <1>1, <1>2, <1>3, <1>4, Begins
<1> QED BY <1>2, <1>4, <1>5 DEF Session, AtResourcing, Answered, Resourced

LEMMA DescribingAttends ==
  ASSUME NEW p, NEW s \in End, NEW c \in End, NEW d \in End, NEW news \in BOOLEAN,
         NEW in \in Seq(Message), NEW go \in Seq(Message), NEW r \in Seq(Message), c # Serving!Closed,
         AtDescribing(p, s, c, in, go), Attends(s, c, in), d = Understood(p, c, Head(in), news),
         d # Serving!Closed, Grows(go, r, c, d)
  PROVE  Session(p, s, d, Tail(in), r)
<1> DEFINE m == Head(in)
<1>0. s.n \in Nat /\ ~Empty(in) /\ m \in Message
  BY TailFacts DEF Attends, Empty, End
<1>1. OnMetadata(c) /\ One(in, Serving!Msg("meta", s.n, "none")) /\ Empty(go) /\ c.n = s.n
  BY <1>0 DEF AtDescribing, Described
<1>2. Empty(Tail(in)) /\ s.out = Serving!Silence /\ c.out = Serving!Silence
  <2>1. Serving!Msg("meta", s.n, "none") \in Message
    BY <1>0, Words DEF Types
  <2>2. s.out = Serving!Silence
    BY <1>1 DEF Attends, Serving!WritePending, One
  <2>3. c.out = Serving!Silence
    BY <1>1 DEF OnMetadata, Reads
  <2> QED BY <1>1, <2>1, <2>2, <2>3, ShortFacts
<1>3. Serving!Msg("bad", s.n, "meta").type # "none"
  BY DEF Serving!Msg
<1> HIDE DEF m
<1>4. d.n = s.n /\ \/ Refuses(d) /\ d.out = Serving!Msg("bad", s.n, "meta")
                   \/ Loads(d) /\ d.out = c.out
  BY <1>0, <1>1, OnMetadataReads DEF m
<1>5. CASE Loads(d) /\ d.out = c.out
  <2>1. r = go
    BY <1>5 DEF Grows
  <2> QED BY <1>1, <1>2, <1>4, <1>5, <2>1 DEF Session, AtDescribing, Answered, Described
<1>6. CASE Refuses(d) /\ d.out = Serving!Msg("bad", s.n, "meta")
  <2>1. One(r, d.out)
    BY <1>1, <1>2, <1>3, <1>6, Begins
  <2> QED BY <1>2, <1>4, <1>6, <2>1 DEF Session, AtDescribing, Answered, Described
<1> QED BY <1>4, <1>5, <1>6

LEMMA WorkingAttends ==
  ASSUME NEW p, NEW s \in End, NEW c \in End, NEW d \in End, NEW news \in BOOLEAN,
         NEW in \in Seq(Message), NEW go \in Seq(Message), NEW r \in Seq(Message),
         NEW m \in Message, NEW rest \in Seq(Message), HeadAndRest(in, m, rest), c # Serving!Closed,
         AtWorking(p, s, c, in, go), Attends(s, c, in), d = Understood(p, c, m, news),
         d # Serving!Closed, Grows(go, r, c, d)
  PROVE  Session(p, s, d, rest, r)
<1>0. Len(in) > 0 /\ Len(in) \in Nat /\ c.n = s.n /\ m = in[1]
  BY DEF Attends, AtWorking, Worked, HeadAndRest
<1>1. ~Saves(p, c)
  BY DEF Saves, Attends
<1>2. CASE /\ OnBulk(c) /\ in[1] = Serving!Msg("bulk", s.n, "none") /\ Empty(go)
           /\ \A k \in 2..Len(in) : in[k].type = "sync" /\ in[k].n = s.n
  <2>1. m.type = "bulk" /\ m.n = s.n
    BY <1>0, <1>2 DEF Serving!Msg
  <2>2. Syncs(rest, s.n)
    <3>1. \A k \in 1..Len(rest) : rest[k] = in[k + 1] /\ k + 1 \in 1..Len(in)
      BY DEF HeadAndRest
    <3>2. \A k \in 1..Len(rest) : k + 1 \in 2..Len(in)
      BY <1>0, <3>1
    <3> QED BY <1>2, <3>1, <3>2 DEF Syncs
  <2>6. m.type # "end" /\ m.n = c.n
    BY <1>0, <2>1
  <2>7. BulkTaken(p, c, d, m)
    <3>1. m \in Message /\ OnBulk(c)
      BY <1>0, <1>2
    <3> QED BY <2>6, <3>1, OnBulkReads
  <2>3. d.n = s.n /\ d.out = c.out /\ (Saves(p, d) \/ OnFirst(p, d))
    BY <1>0, <2>6, <2>7 DEF BulkTaken
  <2>4. r = go
    BY <2>3 DEF Grows
  <2> QED BY <2>2, <2>3, <2>4 DEF AtWorking, Worked, Session
<1>3. CASE (OnFirst(p, c) \/ Computes(p, c)) /\ Syncs(in, s.n)
  <2>1. m.type = "sync" /\ Syncs(rest, s.n)
    <3>1. 1 \in 1..Len(in)
      BY <1>0
    <3>2. \A k \in 1..Len(rest) : k + 1 \in 1..Len(in) /\ rest[k] = in[k + 1]
      BY DEF HeadAndRest
    <3>3. \A k \in 1..Len(in) : in[k].type = "sync" /\ in[k].n = s.n
      BY <1>3 DEF Syncs
    <3> QED BY <1>0, <3>1, <3>2, <3>3 DEF Syncs
  <2>5. m.type # "end"
    BY <2>1
  <2>6. OnFirst(p, c) => d.n = c.n /\ d.out = c.out /\ Computes(p, d)
    BY <2>5, OnFirstReads
  <2>7. Computes(p, c) => d.n = c.n /\ d.out = c.out /\ Computes(p, d)
    BY <2>5, ComputesReads, SMTT(30), ZenonT(40)
  <2>2. d.n = s.n /\ d.out = c.out /\ Computes(p, d)
    BY <1>0, <1>3, <2>6, <2>7
  <2>3. r = go
    BY <2>2 DEF Grows
  <2> QED BY <2>1, <2>2, <2>3 DEF AtWorking, Worked, Session
<1> QED BY <1>1, <1>2, <1>3 DEF AtWorking, Worked

\* A peer that has not read end_process reads on, or reads it.
LEMMA UnawareAttends ==
  ASSUME NEW p, NEW s \in End, NEW c \in End, NEW d \in End, NEW news \in BOOLEAN,
         NEW in \in Seq(Message), NEW go \in Seq(Message), NEW r \in Seq(Message),
         NEW m \in Message, NEW rest \in Seq(Message), HeadAndRest(in, m, rest),
         Unaware(p, s, c, in, go), Attends(s, c, in), d = Understood(p, c, m, news),
         d # Serving!Closed, Grows(go, r, c, d)
  PROVE  /\ ~Ended(s) => Unaware(p, s, d, rest, r)
         /\ Unaware(p, s, d, rest, r) \/ Aware(s, d, rest, r)
         /\ NoEcho(r, s.n) \/ (s.out = Serving!Silence /\ Echoed(r, s.n))
<1> DEFINE i == s.n
<1>0. /\ m = in[1] /\ Len(in) \in Nat /\ 1 \in 1..Len(in) /\ i \in Nat
      /\ Len(rest) = Len(in) - 1
      /\ \A k \in 1..Len(rest) : k + 1 \in 1..Len(in) /\ rest[k] = in[k + 1]
  BY DEF Attends, End, HeadAndRest
<1>1. /\ m.n = i /\ (m.type = "end" <=> Ended(s) /\ 1 = Len(in)) /\ NoEcho(go, i)
      /\ Idles(c) \/ Declines(c, i) \/ (AtTask(p, c) /\ c.n = i)
  BY <1>0 DEF Unaware
<1> HIDE DEF i
<1>2. Onward(p, i, c, d, m)
  <2>1. c.reading
    BY DEF Attends
  <2>3. i \in Nat /\ m.n = i
    BY <1>0, <1>1
  <2>4. Idles(c) \/ Declines(c, i) \/ (AtTask(p, c) /\ c.n = i)
    BY <1>1
  <2> QED BY <2>1, <2>3, <2>4, UnawareReads
<1>3. CASE m.type # "end"
  <2>1. NoEcho(r, i)
    <3>1. CASE d.out = c.out
      BY <1>1, <3>1 DEF Grows
    <3>2. CASE c.out = Serving!Silence /\ Early(d.out, i) /\ d.out.type # "none"
      <4>1. r = Append(go, d.out) /\ d.out \in Message
        BY <3>2, Begins
      <4>2. NoEcho(go, i) /\ Early(d.out, i) => NoEcho(Append(go, d.out), i)
        BY <4>1, Appends
      <4> QED BY <1>1, <3>2, <4>1, <4>2
    <3> QED BY <1>2, <1>3, <3>1, <3>2 DEF Onward
  <2>2. \A k \in 1..Len(rest) : rest[k].n = i
    BY <1>0 DEF Unaware, i
  <2>3. Ended(s) => Len(rest) > 0
    <3>1. Ended(s) => Len(in) # 1
      BY <1>1, <1>3
    <3>2. Len(in) # 1 => Len(rest) > 0
      BY <1>0
    <3> QED BY <3>1, <3>2
  <2>4. \A k \in 1..Len(rest) : rest[k].type = "end" <=> Ended(s) /\ k = Len(rest)
    <3>1. \A k \in 1..Len(rest) : k + 1 = Len(in) <=> k = Len(rest)
      BY <1>0
    <3>2. \A k \in 1..Len(in) : in[k].type = "end" <=> Ended(s) /\ k = Len(in)
      BY DEF Unaware
    <3> QED BY <1>0, <3>1, <3>2
  <2>5. Unaware(p, s, d, rest, r)
    BY <1>2, <1>3, <2>1, <2>2, <2>3, <2>4 DEF Onward, Unaware, i
  <2> QED BY <2>1, <2>5 DEF i
<1>4. CASE m.type = "end"
  <2>1. Ended(s) /\ Empty(rest) /\ s.out = Serving!Silence
    <3>1. Ended(s) /\ Len(in) = 1
      BY <1>1, <1>4
    <3>2. ~(Len(in) > 1)
      BY <3>1
    <3> QED BY <1>0, <3>1, <3>2 DEF Empty, Attends, Serving!WritePending
  <2>2. CASE Echoes(d) /\ c.out = Serving!Silence
    <3>1. d.out.type = "end" /\ d.out.n = d.n
      BY <2>2 DEF Echoes
    <3>2. r = Append(go, d.out) /\ d.out \in Message
      BY <2>2, <3>1, Begins
    <3>3. Echoed(r, i) /\ EndsWith(r, "end")
      <4>1. d.out.n = i
        BY <1>2, <1>4, <3>1 DEF Onward
      <4>2. EndsWith(Append(go, d.out), d.out.type)
        BY <3>2, EchoAppended
      <4>3. Echoed(Append(go, d.out), i)
        BY <1>1, <3>1, <3>2, <4>1, EchoAppended
      <4> QED BY <3>1, <3>2, <4>2, <4>3
    <3> QED BY <1>2, <1>4, <2>1, <2>2, <3>3 DEF Onward, Aware, i
  <2>3. CASE ToEcho(d) /\ d.out = c.out
    <3>1. r = go
      BY <2>3 DEF Grows
    <3> QED BY <1>1, <1>2, <1>4, <2>1, <2>3, <3>1 DEF Onward, Aware, i
  <2> QED BY <1>2, <1>4, <2>1, <2>2, <2>3 DEF Onward
<1> QED BY <1>3, <1>4

\* The conversation goes on when the peer reads.
LEMMA PeerAttends ==
  ASSUME NEW p, NEW s \in End, NEW c \in End, NEW d \in End, NEW news \in BOOLEAN,
         NEW in \in Seq(Message), NEW go \in Seq(Message), NEW r \in Seq(Message),
         Session(p, s, c, in, go), Attends(s, c, in), d = Understood(p, c, Head(in), news),
         d # Serving!Closed, Grows(go, r, c, d)
  PROVE  Session(p, s, d, Tail(in), r)
<1>1. c # Serving!Closed /\ ~Empty(in) /\ Len(in) > 0
  BY DEF Attends, Serving!Closed, Empty
<1> DEFINE m == Head(in)
           rest == Tail(in)
<1>6. m \in Message /\ rest \in Seq(Message) /\ HeadAndRest(in, m, rest) /\ d = Understood(p, c, m, news)
  BY <1>1, TailFacts DEF HeadAndRest
<1> HIDE DEF m, rest
<1>2. ~AtGreeting(s, c, in, go) /\ ~AtWaiting(s, c, in, go)
  BY <1>1 DEF AtGreeting, AtWaiting, Greeted, Waited
<1>3. ~AtFilling(s, c, in, go)
  <2>1. Filling(s) => Serving!WritePending(s)
    BY DEF Filling, Serving!WritePending, Serving!Silence, Serving!Msg
  <2>2. One(in, Serving!Msg("bulk", s.n, "none")) => ~(Len(in) > 1)
    BY DEF One
  <2> QED BY <1>1, <2>1, <2>2 DEF AtFilling, Filled, Attends
<1>4. CASE AtEnding(p, s, c, in, go)
  <2>1. ~Ended(s)
    BY <1>4 DEF AtEnding, Ending, Ended
  <2>2. Unaware(p, s, d, rest, r)
    BY <1>1, <1>4, <1>6, <2>1, UnawareAttends DEF AtEnding
  <2> QED BY <1>4, <2>2 DEF rest, AtEnding, Session, Unaware
<1>5. CASE AtEnded(p, s, c, in, go)
  <2>1. Unaware(p, s, c, in, go)
    BY <1>1, <1>5 DEF AtEnded, Aware
  <2>2. /\ Unaware(p, s, d, rest, r) \/ Aware(s, d, rest, r)
        /\ NoEcho(r, s.n) \/ (s.out = Serving!Silence /\ Echoed(r, s.n))
    BY <1>6, <2>1, UnawareAttends
  <2> QED BY <1>5, <2>2 DEF rest, AtEnded, Session
<1>7. CASE AtWorking(p, s, c, in, go)
  <2>1. Session(p, s, d, rest, r)
    BY <1>1, <1>6, <1>7, WorkingAttends
  <2> QED BY <2>1 DEF rest
<1> QED BY <1>1, <1>2, <1>3, <1>4, <1>5, <1>7, OfferingAttends, ResourcingAttends, DescribingAttends
        DEF Session

-----------------------------------------------------------------------------
(* The peer has written.                                                   *)

Delivered(c) == Serving!Kept(Serving!AfterPeerWrite([c EXCEPT !.out = Serving!Silence]))

LEMMA GreetsWrote ==
  ASSUME NEW c \in End, NEW d, d = Delivered(c)
  PROVE  /\ Greets(c) => Readies(d) /\ d.out = Ready
         /\ Readies(c) => Idles(d) /\ d.out = Serving!Silence
         /\ \A i : Declines(c, i) => Idles(d) /\ d.out = Serving!Silence
<1>1. ASSUME Greets(c) PROVE Readies(d) /\ d.out = Ready
  <2>1. c.wcb = "on_version_write" /\ ~c.reading /\ c.timer = "off" /\ c.load = "none"
    BY <1>1 DEF Greets, Writes, Still
  <2>2. /\ d.out = Ready /\ d.wcb = "on_ready_to_process_write" /\ ~d.reading
        /\ d.timer = "off" /\ d.load = "none"
    BY <2>1 DEF Delivered, Serving!AfterPeerWrite, Serving!Kept, Serving!Write, Serving!WriteAgain,
       Serving!SetWrite, Serving!WritePending, Ready, Serving!Silence, Serving!Msg, End
  <2> QED BY <2>2 DEF Readies, Writes, Still
<1>2. ASSUME c.wcb = "on_ready_to_process_write", c.timer = "off", c.load = "none"
      PROVE  Idles(d) /\ d.out = Serving!Silence
  <2>1. /\ d.out = Serving!Silence /\ d.wcb = "on_ready_to_process_write" /\ d.reading
        /\ d.timer = "off" /\ d.load = "none" /\ d.rcb = "on_read"
    BY <1>2 DEF Delivered, Serving!AfterPeerWrite, Serving!Kept, Serving!Read, Serving!ReadAgain,
       Serving!SetRead, End
  <2> QED BY <2>1 DEF Idles, Reads, Still
<1>3. Readies(c) => Idles(d) /\ d.out = Serving!Silence
  BY <1>2 DEF Readies, Writes, Still
<1>4. \A i : Declines(c, i) => Idles(d) /\ d.out = Serving!Silence
  BY <1>2 DEF Declines, Writes, Still
<1> QED BY <1>1, <1>3, <1>4

LEMMA TaskWrote ==
  ASSUME NEW p, NEW c \in End, NEW d, d = Delivered(c)
  PROVE  /\ Accepts(c) => OnResources(d) /\ d.n = c.n /\ d.out = Serving!Silence
         /\ TakesResources(c) => OnMetadata(d) /\ d.n = c.n /\ d.out = Serving!Silence
         /\ Refuses(c) => OnEnd(d) /\ d.n = c.n /\ d.out = Serving!Silence
         /\ Asks(c) => OnBulk(d) /\ d.n = c.n /\ d.out = Serving!Silence
         /\ Skips(p, c) => OnFirst(p, d) /\ d.n = c.n /\ d.out = Serving!Silence
<1>1. ASSUME NEW wcb \in {"on_written_good_offer", "on_written_good_res", "on_bad_meta_reply_write",
                          "on_meta_reply_write", "on_skip_bulk_reply_write"},
             c.wcb = wcb, Still(c)
      PROVE  /\ Still(d) /\ d.out = Serving!Silence /\ d.reading /\ d.n = c.n /\ d.loaded = c.loaded
             /\ wcb = "on_written_good_offer" => d.rcb = "on_res"
             /\ wcb = "on_written_good_res" => d.rcb = "on_meta"
             /\ wcb = "on_bad_meta_reply_write" => d.rcb = "on_end_process_read"
             /\ wcb = "on_meta_reply_write" => d.rcb = "on_bulk_read"
             /\ wcb = "on_skip_bulk_reply_write" => d.rcb = "on_first_sync_read"
  BY <1>1 DEF Delivered, Serving!AfterPeerWrite, Serving!Kept, Serving!Read, Serving!ReadAgain,
     Serving!SetRead, Still, End
<1>2. Accepts(c) => OnResources(d) /\ d.n = c.n /\ d.out = Serving!Silence
  BY <1>1 DEF Accepts, OnResources, Writes, Reads
<1>3. TakesResources(c) => OnMetadata(d) /\ d.n = c.n /\ d.out = Serving!Silence
  BY <1>1 DEF TakesResources, OnMetadata, Writes, Reads
<1>4. Refuses(c) => OnEnd(d) /\ d.n = c.n /\ d.out = Serving!Silence
  BY <1>1 DEF Refuses, OnEnd, Writes, Reads
<1>5. Asks(c) => OnBulk(d) /\ d.n = c.n /\ d.out = Serving!Silence
  BY <1>1 DEF Asks, OnBulk, Writes, Reads
<1>6. Skips(p, c) => OnFirst(p, d) /\ d.n = c.n /\ d.out = Serving!Silence
  BY <1>1 DEF Skips, OnFirst, Has, Writes, Reads
<1> QED BY <1>2, <1>3, <1>4, <1>5, <1>6

LEMMA ReportIsWritten ==
  ASSUME NEW c \in End, NEW d, d = Delivered(c), c.wcb = "on_peer_report_write"
  PROVE  /\ d.out = Serving!Msg("report", c.n, c.loaded) /\ d.out.type = "report" /\ d.out # Serving!Silence
         /\ d.wcb = "on_write" /\ d.n = c.n /\ d.loaded = c.loaded /\ d.reading = c.reading
         /\ d.load = c.load /\ d.rcb = c.rcb /\ d.timer = c.timer
BY DEF Delivered, Serving!AfterPeerWrite, Serving!Kept, Serving!Write, Serving!WriteAgain,
   Serving!SetWrite, Serving!WritePending, Serving!Silence, Serving!Msg, End

LEMMA ComputesWrote ==
  ASSUME NEW p, NEW c \in End, NEW d, d = Delivered(c), Computes(p, c)
  PROVE  Computes(p, d) /\ d.n = c.n /\ (d.out = Serving!Silence \/ d.out.type = "report")
<1>1. CASE c.wcb = "on_write"
  <2>1. d = [c EXCEPT !.out = Serving!Silence]
    BY <1>1 DEF Computes, Delivered, Serving!AfterPeerWrite, Serving!Kept, End
  <2> QED BY <1>1, <2>1 DEF Computes, Has, End
<1>2. CASE c.wcb = "on_peer_report_write"
  <2>1. /\ d.out = Serving!Msg("report", c.n, c.loaded) /\ d.out.type = "report" /\ d.wcb = "on_write"
        /\ d.n = c.n /\ d.loaded = c.loaded /\ d.reading = c.reading /\ d.load = c.load
        /\ d.rcb = c.rcb
    BY <1>2, ReportIsWritten
  <2>2. IsReport(p, d.out, d.n)
    BY <2>1 DEF IsReport, Serving!Msg, Computes, Has
  <2> QED BY <2>1, <2>2 DEF Computes, Has
<1> QED BY <1>1, <1>2 DEF Computes

LEMMA DeafWrote ==
  ASSUME NEW c \in End, NEW d, d = Delivered(c)
  PROVE  /\ ToEcho(c) => Echoes(d) /\ d.n = c.n
         /\ Echoes(c) => \/ Readies(d) /\ d.out = Ready
                         \/ ReportsOn(d) /\ d.n = c.n /\ d.out.type = "report"
         /\ ReportsOn(c) /\ d # Serving!Closed => ReportsOn(d) /\ d.n = c.n /\ d.out.type = "report"
<1> DEFINE e == [c EXCEPT !.out = Serving!Silence]
<1>0. e \in End /\ e.reading = c.reading /\ e.load = c.load /\ e.n = c.n /\ e.wcb = c.wcb
      /\ e.out = Serving!Silence
  BY SomeThings DEF End
<1>1. ASSUME ToEcho(c) PROVE Echoes(d) /\ d.n = c.n
  <2>1. d = Serving!Kept(Serving!Echo(e))
    BY <1>1 DEF ToEcho, Delivered, Serving!AfterPeerWrite, End
  <2>2. ~e.reading /\ e.load = "none"
    BY <1>0, <1>1 DEF ToEcho, IsDeaf
  <2> HIDE DEF e
  <2> QED BY <1>0, <2>1, <2>2, AnEcho
<1>2. ASSUME Echoes(c), c.wcb = "on_end_process_replied_write"
      PROVE  Readies(d) /\ d.out = Ready
  <2>1. d = Serving!Kept(Serving!NewPeerConnection(e))
    BY <1>2 DEF Delivered, Serving!AfterPeerWrite, End
  <2>2. ~e.reading /\ e.load = "none"
    BY <1>0, <1>2 DEF Echoes, IsDeaf
  <2> HIDE DEF e
  <2>3. /\ d.out = Ready /\ d.wcb = "on_ready_to_process_write" /\ ~d.reading /\ d.timer = "off"
        /\ d.load = "none"
    BY <1>0, <2>1, <2>2 DEF Serving!Kept, Serving!NewPeerConnection, Serving!Write,
       Serving!WriteAgain, Serving!SetWrite, Serving!TakenOver, Serving!WritePending, Ready,
       Serving!Silence, Serving!Msg, End
  <2> QED BY <2>3 DEF Readies, Writes, Still
<1>3. ASSUME IsDeaf(c), c.wcb = "on_peer_report_write"
      PROVE  ReportsOn(d) /\ d.n = c.n /\ d.out.type = "report"
  BY <1>3, ReportIsWritten DEF ReportsOn, IsDeaf
<1>4. ASSUME IsDeaf(c), c.wcb = "on_write" PROVE d = Serving!Closed
  <2>1. d = Serving!Kept(e)
    BY <1>4 DEF Delivered, Serving!AfterPeerWrite, End
  <2> HIDE DEF e
  <2> QED BY <1>0, <1>4, <2>1 DEF IsDeaf, Serving!Kept, Serving!WritePending
<1> QED BY <1>1, <1>2, <1>3, <1>4 DEF Echoes, ReportsOn

\* What has become of a peer that has not read end_process.
OnItsWay(p, i, d) == /\ Idles(d) \/ Declines(d, i) \/ (AtTask(p, d) /\ d.n = i)
                     /\ d.out = Serving!Silence \/ d.out.type = "report"

LEMMA UnawareWrote ==
  ASSUME NEW p, NEW c \in End, NEW d, NEW i \in Nat, d = Delivered(c), Serving!WritePending(c),
         Idles(c) \/ Declines(c, i) \/ (AtTask(p, c) /\ c.n = i)
  PROVE  OnItsWay(p, i, d)
<1>1. CASE Declines(c, i)
  BY <1>1, GreetsWrote DEF OnItsWay
<1>2. CASE /\ c.n = i
           /\ Accepts(c) \/ TakesResources(c) \/ Refuses(c) \/ Asks(c) \/ Skips(p, c)
  BY <1>2, TaskWrote DEF OnItsWay, AtTask
<1>3. CASE Computes(p, c) /\ c.n = i
  BY <1>3, ComputesWrote DEF OnItsWay, AtTask
<1>4. /\ ~Idles(c) /\ ~OnResources(c) /\ ~OnMetadata(c) /\ ~OnEnd(c) /\ ~OnBulk(c)
      /\ ~OnFirst(p, c) /\ ~Loads(c) /\ ~Saves(p, c)
  BY DEF Serving!WritePending, Idles, OnResources, OnMetadata, OnEnd, OnBulk, OnFirst, Loads, Saves,
     Reads
<1> QED BY <1>1, <1>2, <1>3, <1>4 DEF AtTask

LEMMA GreetingWrites ==
  ASSUME NEW p, NEW s \in End, NEW c \in End, NEW d \in End, NEW in \in Seq(Message),
         NEW go \in Seq(Message), NEW r \in Seq(Message), c # Serving!Closed,
         AtGreeting(s, c, in, go), Serving!WritePending(c), d = Delivered(c), r = With(go, d)
  PROVE  Session(p, s, d, in, r)
<1>1. CASE Greets(c) /\ One(go, Version)
  <2>1. Readies(d) /\ d.out = Ready
    BY <1>1, GreetsWrote
  <2>2. Ready.type # "none"
    BY DEF Ready, Serving!Msg
  <2>3. Two(r, Version, Ready)
    <3>1. r = Append(go, Ready)
      BY <2>1, <2>2, Given
    <3>2. One(go, Version) => Two(Append(go, Ready), Version, Ready)
      BY Words, ShortFacts
    <3> QED BY <1>1, <3>1, <3>2
  <2> QED BY <2>1, <2>3 DEF AtGreeting, Greeted, Session
<1>2. CASE Readies(c) /\ Two(go, Version, Ready)
  <2>1. Idles(d) /\ r = go
    BY <1>2, GreetsWrote, Given
  <2> QED BY <1>2, <2>1 DEF AtGreeting, Greeted, Session
<1>3. ~Idles(c)
  BY DEF Idles, Reads, Serving!WritePending
<1> QED BY <1>1, <1>2, <1>3 DEF AtGreeting, Greeted

LEMMA WaitingWrites ==
  ASSUME NEW p, NEW s \in End, NEW c \in End, NEW d \in End, NEW in \in Seq(Message),
         NEW go \in Seq(Message), NEW r \in Seq(Message), c # Serving!Closed, d # Serving!Closed,
         AtWaiting(s, c, in, go), Serving!WritePending(c), d = Delivered(c), r = With(go, d)
  PROVE  Session(p, s, d, in, r)
<1>1. CASE Readies(c) /\ One(go, Ready) /\ ~s.ready
  <2>1. Idles(d) /\ r = go
    BY <1>1, GreetsWrote, Given
  <2> QED BY <1>1, <2>1 DEF AtWaiting, Waited, Session
<1>2. CASE ReportsOn(c) /\ OldReports(go) /\ ~s.ready
  <2>1. ReportsOn(d) /\ d.out.type = "report"
    BY <1>2, DeafWrote
  <2>2. r = Append(go, d.out) /\ d.out \in Message
    BY <2>1, Given DEF End
  <2>3. OldReports(r)
    BY <1>2, <2>1, <2>2, Appends
  <2> QED BY <1>2, <2>1, <2>3 DEF AtWaiting, Waited, Session
<1>3. ~Idles(c)
  BY DEF Idles, Reads, Serving!WritePending
<1> QED BY <1>1, <1>2, <1>3 DEF AtWaiting, Waited

LEMMA HandingWrites ==
  ASSUME NEW p, NEW s \in End, NEW c \in End, NEW d \in End, NEW in \in Seq(Message),
         NEW go \in Seq(Message), NEW r \in Seq(Message), c # Serving!Closed,
         Serving!WritePending(c), d = Delivered(c), r = With(go, d)
  PROVE  /\ AtOffering(s, c, in, go) => Session(p, s, d, in, r)
         /\ AtResourcing(s, c, in, go) => Session(p, s, d, in, r)
         /\ AtDescribing(p, s, c, in, go) => Session(p, s, d, in, r)
         /\ ~AtFilling(s, c, in, go)
<1>0. /\ ~Idles(c) /\ ~OnResources(c) /\ ~OnMetadata(c) /\ ~OnEnd(c) /\ ~OnBulk(c)
      /\ ~OnFirst(p, c) /\ ~Loads(c)
      /\ d.out = Serving!Silence => r = go
  BY Given DEF Serving!WritePending, Idles, OnResources, OnMetadata, OnEnd, OnBulk, OnFirst, Loads,
     Reads
<1>1. ASSUME AtOffering(s, c, in, go) PROVE AtOffering(s, d, in, r)
  <2>1. /\ Declines(c, s.n) => Idles(d) /\ r = go
        /\ Accepts(c) => OnResources(d) /\ d.n = c.n /\ r = go
    BY <1>0, GreetsWrote, TaskWrote
  <2> QED BY <1>0, <1>1, <2>1 DEF AtOffering, Offered
<1>2. ASSUME AtResourcing(s, c, in, go) PROVE AtResourcing(s, d, in, r)
  <2>1. TakesResources(c) => OnMetadata(d) /\ d.n = c.n /\ r = go
    BY <1>0, TaskWrote
  <2> QED BY <1>0, <1>2, <2>1 DEF AtResourcing, Resourced
<1>3. ASSUME AtDescribing(p, s, c, in, go) PROVE AtDescribing(p, s, d, in, r)
  <2>1. /\ Refuses(c) => OnEnd(d) /\ d.n = c.n /\ r = go
        /\ Asks(c) => OnBulk(d) /\ d.n = c.n /\ r = go
        /\ Skips(p, c) => OnFirst(p, d) /\ d.n = c.n /\ r = go
    BY <1>0, TaskWrote
  <2> QED BY <1>0, <1>3, <2>1 DEF AtDescribing, Described
<1>4. ~AtFilling(s, c, in, go)
  BY <1>0 DEF AtFilling, Filled
<1> QED BY <1>1, <1>2, <1>3, <1>4 DEF Session

LEMMA WorkingWrites ==
  ASSUME NEW p, NEW s \in End, NEW c \in End, NEW d \in End, NEW in \in Seq(Message),
         NEW go \in Seq(Message), NEW r \in Seq(Message), c # Serving!Closed,
         AtWorking(p, s, c, in, go), Serving!WritePending(c), d = Delivered(c), r = With(go, d)
  PROVE  Session(p, s, d, in, r)
<1>1. ~OnBulk(c) /\ ~OnFirst(p, c) /\ ~Saves(p, c)
  BY DEF Serving!WritePending, OnBulk, OnFirst, Saves, Reads
<1>2. Computes(p, c) /\ Syncs(in, s.n) /\ c.n = s.n /\ Reports(p, go, s.n)
  BY <1>1 DEF AtWorking, Worked
<1>3. Computes(p, d) /\ d.n = s.n /\ (d.out = Serving!Silence \/ d.out.type = "report")
  BY <1>2, ComputesWrote, SMTT(30), ZenonT(40)
<1>4. Reports(p, r, s.n)
  <2>1. CASE d.out = Serving!Silence
    BY <1>2, <2>1, Given
  <2>2. CASE d.out.type = "report"
    <3>1. r = Append(go, d.out) /\ d.out \in Message
      BY <2>2, Given DEF End
    <3>2. d.out # Serving!Silence
      BY <2>2 DEF Serving!Silence, Serving!Msg
    <3>3. IsReport(p, d.out, s.n)
      BY <1>3, <3>2 DEF Computes
    <3> QED BY <1>2, <3>1, <3>3, Appends
  <2> QED BY <1>3, <2>1, <2>2
<1> QED BY <1>2, <1>3, <1>4 DEF AtWorking, Worked, Session

LEMMA UnawareWrites ==
  ASSUME NEW p, NEW s \in End, NEW c \in End, NEW d \in End, NEW in \in Seq(Message),
         NEW go \in Seq(Message), NEW r \in Seq(Message),
         Unaware(p, s, c, in, go), Serving!WritePending(c), d = Delivered(c), r = With(go, d)
  PROVE  Unaware(p, s, d, in, r)
<1>1. s.n \in Nat /\ NoEcho(go, s.n)
  BY DEF End, Unaware
<1>2. OnItsWay(p, s.n, d)
  BY <1>1, UnawareWrote DEF Unaware
<1>3. NoEcho(r, s.n)
  <2>1. CASE d.out = Serving!Silence
    BY <1>1, <2>1, Given
  <2>2. CASE d.out.type = "report"
    <3>1. r = Append(go, d.out) /\ d.out \in Message /\ Early(d.out, s.n)
      BY <2>2, Given DEF End, Early
    <3>2. NoEcho(go, s.n) /\ Early(d.out, s.n) => NoEcho(Append(go, d.out), s.n)
      BY <3>1, Appends
    <3> QED BY <1>1, <3>1, <3>2
  <2> QED BY <1>2, <2>1, <2>2 DEF OnItsWay
<1> QED BY <1>2, <1>3 DEF OnItsWay, Unaware

LEMMA AwareWrites ==
  ASSUME NEW s \in End, NEW c \in End, NEW d \in End, NEW in \in Seq(Message),
         NEW go \in Seq(Message), NEW r \in Seq(Message), d # Serving!Closed,
         Aware(s, c, in, go), Serving!WritePending(c), d = Delivered(c), r = With(go, d)
  PROVE  Aware(s, d, in, r) /\ (NoEcho(r, s.n) \/ (s.out = Serving!Silence /\ Echoed(r, s.n)))
<1>0. /\ Empty(in) /\ s.out = Serving!Silence /\ d.out \in Message
      /\ d.out.type # "none" => r = Append(go, d.out)
      /\ d.out = Serving!Silence => r = go
  BY Given DEF Aware, End
<1>1. CASE ToEcho(c) /\ c.n = s.n /\ NoEcho(go, s.n)
  <2>1. Echoes(d) /\ d.n = s.n /\ d.out.type = "end" /\ d.out.n = s.n
    BY <1>1, DeafWrote DEF Echoes
  <2>2. Echoed(r, s.n) /\ EndsWith(r, "end")
    <3>1. r = Append(go, d.out)
      BY <1>0, <2>1
    <3>2. Echoed(Append(go, d.out), s.n) /\ EndsWith(Append(go, d.out), d.out.type)
      BY <1>0, <1>1, <2>1, EchoAppended
    <3> QED BY <2>1, <3>1, <3>2
  <2> QED BY <1>0, <2>1, <2>2 DEF Aware
<1>2. CASE ReportsOn(c) /\ c.n = s.n
  <2>1. ReportsOn(d) /\ d.n = s.n /\ d.out.type = "report"
    BY <1>2, DeafWrote
  <2>2. r = Append(go, d.out)
    BY <1>0, <2>1
  <2>3. CASE NoEcho(go, s.n)
    <3>1. Early(d.out, s.n)
      BY <2>1 DEF Early
    <3>2. NoEcho(Append(go, d.out), s.n)
      BY <1>0, <2>3, <3>1, Appends
    <3> QED BY <1>0, <2>1, <2>2, <3>2 DEF Aware
  <2>4. CASE Echoed(go, s.n) /\ EndsWith(go, "report")
    <3>1. ~EndsWith(go, "ready")
      BY <2>4 DEF EndsWith
    <3>2. Echoed(Append(go, d.out), s.n) /\ EndsWith(Append(go, d.out), d.out.type)
      BY <1>0, <2>1, <2>4, <3>1, EchoAppended
    <3> QED BY <1>0, <2>1, <2>2, <3>2 DEF Aware
  <2>5. ~Echoes(c) /\ ~Readies(c) /\ ~Idles(c)
    BY <1>2 DEF ReportsOn, Echoes, Readies, Idles, Writes, Reads, Ready, Serving!Msg,
       Serving!WritePending
  <2>6. NoEcho(go, s.n) \/ (Echoed(go, s.n) /\ EndsWith(go, "report"))
    BY <2>5 DEF Aware
  <2> QED BY <2>3, <2>4, <2>6
<1>3. CASE Echoes(c) /\ c.n = s.n /\ Echoed(go, s.n) /\ EndsWith(go, "end")
  <2>1. CASE Readies(d) /\ d.out = Ready
    <3>1. d.out.type = "ready"
      BY <2>1 DEF Ready, Serving!Msg
    <3>2. r = Append(go, d.out)
      BY <1>0, <3>1
    <3>3. Echoed(Append(go, d.out), s.n) /\ EndsWith(Append(go, d.out), d.out.type)
      BY <1>0, <1>3, <2>1, EchoAppended
    <3> QED BY <1>0, <2>1, <3>1, <3>2, <3>3 DEF Aware
  <2>2. CASE ReportsOn(d) /\ d.n = c.n /\ d.out.type = "report"
    <3>1. ~EndsWith(go, "ready")
      BY <1>3 DEF EndsWith
    <3>2. r = Append(go, d.out)
      BY <1>0, <2>2
    <3>3. Echoed(Append(go, d.out), s.n) /\ EndsWith(Append(go, d.out), d.out.type)
      BY <1>0, <1>3, <2>2, <3>1, EchoAppended
    <3> QED BY <1>0, <1>3, <2>2, <3>2, <3>3 DEF Aware
  <2> QED BY <1>3, <2>1, <2>2, DeafWrote
<1>4. CASE Readies(c) /\ Echoed(go, s.n) /\ EndsWith(go, "ready")
  <2>1. Idles(d) /\ d.out = Serving!Silence
    BY <1>4, GreetsWrote
  <2> QED BY <1>0, <1>4, <2>1 DEF Aware
<1>5. ~Idles(c)
  BY DEF Idles, Reads, Serving!WritePending
<1> QED BY <1>1, <1>2, <1>3, <1>4, <1>5 DEF Aware

\* The conversation goes on when the peer has written.
LEMMA PeerWrites ==
  ASSUME NEW p, NEW s \in End, NEW c \in End, NEW d \in End, NEW in \in Seq(Message),
         NEW go \in Seq(Message), NEW r \in Seq(Message),
         Session(p, s, c, in, go), Serving!WritePending(c), d = Delivered(c), d # Serving!Closed, r = With(go, d)
  PROVE  Session(p, s, d, in, r)
<1>1. c # Serving!Closed
  BY DEF Serving!Closed, Serving!WritePending
<1>2. CASE AtEnding(p, s, c, in, go)
  <2>1. Unaware(p, s, d, in, r)
    BY <1>1, <1>2, UnawareWrites DEF AtEnding
  <2> QED BY <1>2, <2>1 DEF AtEnding, Unaware, Session
<1>3. CASE AtEnded(p, s, c, in, go)
  <2>1. CASE Unaware(p, s, c, in, go)
    <3>1. Unaware(p, s, d, in, r)
      BY <2>1, UnawareWrites
    <3> QED BY <1>3, <3>1 DEF AtEnded, Unaware, Session
  <2>2. CASE Aware(s, c, in, go)
    <3>1. Aware(s, d, in, r) /\ (NoEcho(r, s.n) \/ (s.out = Serving!Silence /\ Echoed(r, s.n)))
      BY <2>2, AwareWrites
    <3> QED BY <1>3, <3>1 DEF AtEnded, Session
  <2> QED BY <1>1, <1>3, <2>1, <2>2 DEF AtEnded
<1> QED BY <1>1, <1>2, <1>3, GreetingWrites, WaitingWrites, HandingWrites, WorkingWrites DEF Session

-----------------------------------------------------------------------------
(* The peer reports, and has to do with its file.                          *)

Reporting(c, word) ==
  [IF Serving!WritePending(c) THEN Serving!SetWrite(c, "on_peer_report_write")
   ELSE Serving!WriteAgain(c, Serving!Msg("report", c.n, c.loaded)) EXCEPT !.timer = word]

LEMMA ReportIsBegun ==
  ASSUME NEW c \in End, NEW d, NEW word, d = Reporting(c, word)
  PROVE  /\ d.n = c.n /\ d.load = c.load /\ d.loaded = c.loaded /\ d.rcb = c.rcb
         /\ d.reading = c.reading
         /\ c.out # Serving!Silence => d.out = c.out /\ d.wcb = "on_peer_report_write"
         /\ c.out = Serving!Silence =>
              d.out = Serving!Msg("report", c.n, c.loaded) /\ d.out.type = "report" /\ d.wcb = c.wcb
BY DEF Reporting, Serving!SetWrite, Serving!WriteAgain, Serving!WritePending, Serving!Silence,
   Serving!Msg, End

LEMMA ComputesReports ==
  ASSUME NEW p, NEW c \in End, NEW d, NEW word, d = Reporting(c, word), Computes(p, c)
  PROVE  /\ Computes(p, d) /\ d.n = c.n
         /\ d.out = c.out \/ (c.out = Serving!Silence /\ d.out.type = "report")
<1>1. CASE c.out # Serving!Silence
  <2>1. /\ d.n = c.n /\ d.load = c.load /\ d.loaded = c.loaded /\ d.rcb = c.rcb
        /\ d.reading = c.reading /\ d.out = c.out /\ d.wcb = "on_peer_report_write"
    BY <1>1, ReportIsBegun
  <2> QED BY <1>1, <2>1 DEF Computes, Has
<1>2. CASE c.out = Serving!Silence
  <2>1. /\ d.n = c.n /\ d.load = c.load /\ d.loaded = c.loaded /\ d.rcb = c.rcb
        /\ d.reading = c.reading /\ d.out = Serving!Msg("report", c.n, c.loaded)
        /\ d.out.type = "report" /\ d.wcb = c.wcb
    BY <1>2, ReportIsBegun
  <2>2. IsReport(p, d.out, d.n)
    BY <2>1 DEF IsReport, Serving!Msg, Computes, Has
  <2> QED BY <1>2, <2>1, <2>2 DEF Computes, Has
<1> QED BY <1>1, <1>2

LEMMA DeafReports ==
  ASSUME NEW c \in End, NEW d, NEW word, d = Reporting(c, word)
  PROVE  /\ ToEcho(c) \/ ReportsOn(c) => ReportsOn(d) /\ d.n = c.n /\ d.out = c.out
         /\ Echoes(c) => Echoes(d) /\ d.n = c.n /\ d.out = c.out
<1>1. ASSUME IsDeaf(c), c.out.type \in {"report", "end"}
      PROVE  /\ IsDeaf(d) /\ d.n = c.n /\ d.out = c.out /\ d.wcb = "on_peer_report_write"
  <2>1. c.out # Serving!Silence
    BY <1>1 DEF Serving!Silence, Serving!Msg
  <2> QED BY <1>1, <2>1, ReportIsBegun DEF IsDeaf
<1> QED BY <1>1 DEF ToEcho, Echoes, ReportsOn

LEMMA TimersAreOff ==
  ASSUME NEW p, NEW c, c.timer # "off"
  PROVE  /\ ~Greets(c) /\ ~Readies(c) /\ ~Idles(c) /\ (\A i : ~Declines(c, i))
         /\ ~Accepts(c) /\ ~OnResources(c) /\ ~TakesResources(c) /\ ~OnMetadata(c)
         /\ ~Refuses(c) /\ ~OnEnd(c) /\ ~Loads(c) /\ ~Asks(c) /\ ~OnBulk(c) /\ ~Saves(p, c)
         /\ ~Skips(p, c) /\ ~OnFirst(p, c)
BY DEF Greets, Readies, Idles, Declines, Accepts, OnResources, TakesResources, OnMetadata, Refuses,
       OnEnd, Loads, Asks, OnBulk, Saves, Skips, OnFirst, Writes, Reads, Still

\* The conversation goes on when the peer reports.
LEMMA PeerReports ==
  ASSUME NEW p, NEW s \in End, NEW c \in End, NEW d \in End, NEW word, NEW in \in Seq(Message),
         NEW go \in Seq(Message), NEW r \in Seq(Message), Session(p, s, c, in, go),
         c.timer # "off", d = Reporting(c, word), Grows(go, r, c, d)
  PROVE  Session(p, s, d, in, r)
<1>0. c # Serving!Closed /\ s.n \in Nat
  BY DEF Serving!Closed, End
<1>1. CASE AtWaiting(s, c, in, go)
  <2>1. ReportsOn(c) /\ Empty(in) /\ OldReports(go) /\ ~s.ready
    BY <1>0, <1>1, TimersAreOff DEF AtWaiting, Waited
  <2>2. ReportsOn(d) /\ d.out = c.out
    BY <2>1, DeafReports
  <2>3. r = go
    BY <2>2 DEF Grows
  <2> QED BY <1>1, <2>1, <2>2, <2>3 DEF AtWaiting, Waited, Session
<1>2. CASE AtWorking(p, s, c, in, go)
  <2>1. Computes(p, c) /\ Syncs(in, s.n) /\ c.n = s.n /\ Reports(p, go, s.n)
    BY <1>0, <1>2, TimersAreOff DEF AtWorking, Worked
  <2>2. /\ Computes(p, d) /\ d.n = s.n
        /\ d.out = c.out \/ (c.out = Serving!Silence /\ d.out.type = "report")
    BY <2>1, ComputesReports
  <2>3. Reports(p, r, s.n)
    <3>1. CASE d.out = c.out
      BY <2>1, <3>1 DEF Grows
    <3>2. CASE c.out = Serving!Silence /\ d.out.type = "report"
      <4>1. r = Append(go, d.out) /\ d.out \in Message
        BY <3>2, Begins
      <4>2. d.out # Serving!Silence
        BY <3>2 DEF Serving!Silence, Serving!Msg
      <4>3. IsReport(p, d.out, s.n)
        BY <2>2, <4>2 DEF Computes
      <4> QED BY <2>1, <4>1, <4>3, Appends
    <3> QED BY <2>2, <3>1, <3>2
  <2> QED BY <1>2, <2>1, <2>2, <2>3 DEF AtWorking, Worked, Session
<1>3. ASSUME Unaware(p, s, c, in, go) PROVE Unaware(p, s, d, in, r)
  <2>1. Computes(p, c) /\ c.n = s.n /\ NoEcho(go, s.n)
    BY <1>3, TimersAreOff DEF Unaware, AtTask
  <2>2. /\ Computes(p, d) /\ d.n = s.n
        /\ d.out = c.out \/ (c.out = Serving!Silence /\ d.out.type = "report")
    BY <2>1, ComputesReports
  <2>3. NoEcho(r, s.n)
    <3>1. CASE d.out = c.out
      BY <2>1, <3>1 DEF Grows
    <3>2. CASE c.out = Serving!Silence /\ d.out.type = "report"
      <4>1. r = Append(go, d.out) /\ d.out \in Message /\ Early(d.out, s.n)
        BY <3>2, Begins DEF Early
      <4>2. NoEcho(go, s.n) /\ Early(d.out, s.n) => NoEcho(Append(go, d.out), s.n)
        BY <4>1, Appends
      <4> QED BY <2>1, <4>1, <4>2
    <3> QED BY <2>2, <3>1, <3>2
  <2> QED BY <1>3, <2>2, <2>3 DEF Unaware, AtTask
<1>4. ASSUME Aware(s, c, in, go) PROVE Aware(s, d, in, r) /\ r = go
  <2>1. ToEcho(c) \/ ReportsOn(c) \/ Echoes(c)
    BY <1>4, TimersAreOff DEF Aware
  <2>2. d.out = c.out /\ d.n = c.n
    BY <2>1, DeafReports
  <2>3. r = go
    BY <2>2 DEF Grows
  <2> QED BY <1>4, <2>2, <2>3, TimersAreOff, DeafReports DEF Aware
<1>5. CASE AtEnding(p, s, c, in, go)
  BY <1>0, <1>3, <1>5 DEF AtEnding, Unaware, Session
<1>6. CASE AtEnded(p, s, c, in, go)
  <2>1. CASE Unaware(p, s, c, in, go)
    BY <1>3, <1>6, <2>1 DEF AtEnded, Unaware, Session
  <2>2. CASE Aware(s, c, in, go)
    BY <1>4, <1>6, <2>2 DEF AtEnded, Session
  <2> QED BY <1>0, <1>6, <2>1, <2>2 DEF AtEnded
<1>7. /\ ~AtGreeting(s, c, in, go) /\ ~AtOffering(s, c, in, go) /\ ~AtResourcing(s, c, in, go)
      /\ ~AtDescribing(p, s, c, in, go) /\ ~AtFilling(s, c, in, go)
  BY <1>0, TimersAreOff DEF AtGreeting, Greeted, AtOffering, Offered, AtResourcing, Resourced,
     AtDescribing, Described, AtFilling, Filled
<1> QED BY <1>1, <1>2, <1>5, <1>6, <1>7 DEF Session

\* A peer that has to do with its file loads it, or saves it.
LEMMA FileIsIdle ==
  ASSUME NEW p, NEW c, c.load # "none"
  PROVE  /\ ~Greets(c) /\ ~Readies(c) /\ ~Idles(c) /\ (\A i : ~Declines(c, i))
         /\ ~Accepts(c) /\ ~OnResources(c) /\ ~TakesResources(c) /\ ~OnMetadata(c)
         /\ ~Refuses(c) /\ ~OnEnd(c) /\ ~Asks(c) /\ ~OnBulk(c)
         /\ ~Skips(p, c) /\ ~OnFirst(p, c) /\ ~Computes(p, c) /\ ~ToEcho(c) /\ ~Echoes(c)
         /\ ~ReportsOn(c)
BY DEF Greets, Readies, Idles, Declines, Accepts, OnResources, TakesResources, OnMetadata, Refuses,
       OnEnd, Asks, OnBulk, Skips, OnFirst, Computes, ToEcho, Echoes, ReportsOn, IsDeaf, Writes,
       Reads, Still

\* What becomes of a peer that loads its file.
Loaded(p, c, d) ==
  /\ d.n = c.n
  /\ \/ Loads(d) /\ d.out = c.out
     \/ Asks(d) /\ d.out = Serving!Msg("good", c.n, "meta")
     \/ Skips(p, d) /\ d.out = Serving!Msg("skip", c.n, "meta")

LEMMA LoadGoesOn ==
  ASSUME NEW p, NEW s \in End, NEW c \in End, NEW d \in End, NEW in \in Seq(Message),
         NEW go \in Seq(Message), NEW r \in Seq(Message), Session(p, s, c, in, go),
         c.load \in {"hash", "read"}, Loaded(p, c, d), Grows(go, r, c, d),
         Empty(in) => s.out = Serving!Silence
  PROVE  Session(p, s, d, in, r)
<1>0. c # Serving!Closed /\ s.n \in Nat /\ ~Saves(p, c)
  BY DEF Serving!Closed, End, Saves
<1>1. c.load # "none"
  OBVIOUS
<1>2. /\ Loads(c) /\ c.out = Serving!Silence
      /\ \/ AtDescribing(p, s, c, in, go) /\ c.n = s.n /\ Empty(in) /\ Empty(go)
         \/ (AtEnding(p, s, c, in, go) \/ AtEnded(p, s, c, in, go)) /\ Unaware(p, s, c, in, go)
            /\ c.n = s.n
  <2>1. AtDescribing(p, s, c, in, go) => Loads(c) /\ c.n = s.n /\ Empty(in) /\ Empty(go)
    BY <1>0, <1>1, FileIsIdle DEF AtDescribing, Described
  <2>2. Unaware(p, s, c, in, go) => Loads(c) /\ c.n = s.n
    BY <1>0, <1>1, FileIsIdle DEF Unaware, AtTask
  <2>3. ~Aware(s, c, in, go)
    BY <1>1, FileIsIdle DEF Aware
  <2>4. /\ ~AtGreeting(s, c, in, go) /\ ~AtWaiting(s, c, in, go) /\ ~AtOffering(s, c, in, go)
        /\ ~AtResourcing(s, c, in, go) /\ ~AtFilling(s, c, in, go) /\ ~AtWorking(p, s, c, in, go)
    BY <1>0, <1>1, FileIsIdle DEF AtGreeting, Greeted, AtWaiting, Waited, AtOffering, Offered,
       AtResourcing, Resourced, AtFilling, Filled, AtWorking, Worked
  <2>5. AtEnding(p, s, c, in, go) \/ AtEnded(p, s, c, in, go) => Unaware(p, s, c, in, go)
    BY <1>0, <2>3 DEF AtEnding, AtEnded
  <2>6. Loads(c) => c.out = Serving!Silence
    BY DEF Loads
  <2> QED BY <2>1, <2>2, <2>4, <2>5, <2>6 DEF Session
<1>3. \A type \in {"good", "skip"} :
        Serving!Msg(type, s.n, "meta").type # "none" /\ Early(Serving!Msg(type, s.n, "meta"), s.n)
  BY DEF Serving!Msg, Early
<1>4. CASE AtDescribing(p, s, c, in, go) /\ c.n = s.n /\ Empty(in) /\ Empty(go)
  <2>2. CASE Loads(d) /\ d.out = c.out
    <3>1. r = go
      BY <2>2 DEF Grows
    <3> QED BY <1>4, <2>2, <3>1 DEF Loaded, AtDescribing, Described, Session
  <2>3. CASE Asks(d) /\ d.out = Serving!Msg("good", c.n, "meta")
    <3>1. One(r, Serving!Msg("good", s.n, "meta"))
      BY <1>2, <1>3, <1>4, <2>3, Begins
    <3> QED BY <1>4, <2>3, <3>1 DEF Loaded, AtDescribing, Answered, Described, Session
  <2>4. CASE Skips(p, d) /\ d.out = Serving!Msg("skip", c.n, "meta")
    <3>1. One(r, Serving!Msg("skip", s.n, "meta"))
      BY <1>2, <1>3, <1>4, <2>4, Begins
    <3> QED BY <1>4, <2>4, <3>1 DEF Loaded, AtDescribing, Answered, Described, Session
  <2> QED BY <2>2, <2>3, <2>4 DEF Loaded
<1>5. CASE /\ AtEnding(p, s, c, in, go) \/ AtEnded(p, s, c, in, go)
           /\ Unaware(p, s, c, in, go) /\ c.n = s.n
  <2>1. NoEcho(r, s.n)
    <3>1. NoEcho(go, s.n)
      BY <1>5 DEF Unaware
    <3>2. CASE d.out = c.out
      BY <3>1, <3>2 DEF Grows
    <3>3. CASE d.out.type # "none" /\ Early(d.out, s.n)
      <4>1. r = Append(go, d.out) /\ d.out \in Message
        BY <1>2, <3>3, Begins
      <4>2. NoEcho(go, s.n) /\ Early(d.out, s.n) => NoEcho(Append(go, d.out), s.n)
        BY <4>1, Appends
      <4> QED BY <3>1, <3>3, <4>1, <4>2
    <3> QED BY <1>3, <1>5, <3>2, <3>3 DEF Loaded
  <2>2. AtTask(p, d) /\ d.n = s.n
    BY <1>5 DEF Loaded, AtTask
  <2>3. Unaware(p, s, d, in, r)
    BY <1>5, <2>1, <2>2 DEF Unaware
  <2> QED BY <1>5, <2>1, <2>3 DEF AtEnding, AtEnded, Session
<1> QED BY <1>2, <1>4, <1>5

LEMMA SaveGoesOn ==
  ASSUME NEW p, NEW s \in End, NEW c \in End, NEW d \in End, NEW in \in Seq(Message),
         NEW go \in Seq(Message), Session(p, s, c, in, go),
         c.load \in {"open", "write"}, d.n = c.n, Saves(p, c) => Saves(p, d) \/ OnFirst(p, d)
  PROVE  Saves(p, c) /\ Session(p, s, d, in, go)
<1>0. c # Serving!Closed /\ ~Loads(c)
  BY DEF Serving!Closed, Loads
<1>1. c.load # "none"
  OBVIOUS
<1>2. AtWorking(p, s, c, in, go) => Saves(p, c) /\ c.n = s.n /\ Syncs(in, s.n)
  BY <1>0, <1>1, FileIsIdle DEF AtWorking, Worked
<1>3. Unaware(p, s, c, in, go) => Saves(p, c) /\ c.n = s.n
  BY <1>0, <1>1, FileIsIdle DEF Unaware, AtTask
<1>4. ~Aware(s, c, in, go)
  BY <1>1, FileIsIdle DEF Aware
<1>5. /\ ~AtGreeting(s, c, in, go) /\ ~AtWaiting(s, c, in, go) /\ ~AtOffering(s, c, in, go)
      /\ ~AtResourcing(s, c, in, go) /\ ~AtFilling(s, c, in, go)
      /\ ~AtDescribing(p, s, c, in, go)
  BY <1>0, <1>1, FileIsIdle DEF AtGreeting, Greeted, AtWaiting, Waited, AtOffering, Offered,
     AtResourcing, Resourced, AtFilling, Filled, AtDescribing, Described
<1>6. CASE AtWorking(p, s, c, in, go)
  BY <1>2, <1>6 DEF AtWorking, Worked, Session
<1>7. CASE AtEnding(p, s, c, in, go)
  <2>1. Saves(p, c) /\ Unaware(p, s, d, in, go)
    BY <1>0, <1>3, <1>7 DEF AtEnding, Unaware, AtTask
  <2> QED BY <1>7, <2>1 DEF AtEnding, Session
<1>8. CASE AtEnded(p, s, c, in, go)
  <2>1. Saves(p, c) /\ Unaware(p, s, d, in, go)
    BY <1>0, <1>3, <1>4, <1>8 DEF AtEnded, Unaware, AtTask
  <2> QED BY <1>8, <2>1 DEF AtEnded, Session
<1> QED BY <1>5, <1>6, <1>7, <1>8 DEF Session

\* What loading the file makes of the peer.
LEMMA FileLoads ==
  ASSUME NEW p, NEW c \in End, NEW d, Loads(c)
  PROVE  /\ \A word \in {"hash", "read"} : d = [c EXCEPT !.load = word] => Loaded(p, c, d)
         /\ d = Serving!AskForBulk(c) => Loaded(p, c, d)
         /\ \A thing : d = Serving!SkipBulk([c EXCEPT !.loaded = thing])
                       /\ (p \notin Serving!Clones => thing = Serving!TaskOf(c.n)) => Loaded(p, c, d)
<1>1. \A word \in {"hash", "read"} : d = [c EXCEPT !.load = word] => Loads(d) /\ d.n = c.n /\ d.out = c.out
  BY DEF Loads, End
<1>2. d = Serving!AskForBulk(c) => Asks(d) /\ d.n = c.n /\ d.out = Serving!Msg("good", c.n, "meta")
  BY DEF Loads, Serving!AskForBulk, Serving!Write, Serving!WriteAgain, Serving!SetWrite, Asks,
     Writes, Still, End
<1>3. ASSUME NEW thing, d = Serving!SkipBulk([c EXCEPT !.loaded = thing]),
             p \notin Serving!Clones => thing = Serving!TaskOf(c.n)
      PROVE  Skips(p, d) /\ d.n = c.n /\ d.out = Serving!Msg("skip", c.n, "meta")
  <2>1. /\ d.n = c.n /\ d.out = Serving!Msg("skip", c.n, "meta") /\ d.wcb = "on_skip_bulk_reply_write"
        /\ ~d.reading /\ d.timer = "off" /\ d.load = "none" /\ d.loaded = thing
    BY <1>3 DEF Loads, Serving!SkipBulk, Serving!Write, Serving!WriteAgain, Serving!SetWrite, End
  <2> QED BY <1>3, <2>1 DEF Skips, Writes, Still, Has
<1> QED BY <1>1, <1>2, <1>3 DEF Loaded

LEMMA FileSaves ==
  ASSUME NEW p, NEW c \in End, NEW d, Saves(p, c)
  PROVE  /\ d = [c EXCEPT !.load = "write"] => d.n = c.n /\ d.out = c.out /\ Saves(p, d)
         /\ d = Serving!Read([c EXCEPT !.load = "none"], "on_first_sync_read") =>
              d.n = c.n /\ d.out = c.out /\ OnFirst(p, d)
<1>1. d = [c EXCEPT !.load = "write"] => d.n = c.n /\ d.out = c.out /\ Saves(p, d)
  BY DEF Saves, Has, End
<1>2. d = Serving!Read([c EXCEPT !.load = "none"], "on_first_sync_read") =>
        d.n = c.n /\ d.out = c.out /\ OnFirst(p, d)
  BY DEF Saves, OnFirst, Has, Reads, Still, Serving!Read, Serving!ReadAgain, Serving!SetRead, End
<1> QED BY <1>1, <1>2

\* The peer is gone, and with it what it was writing.
LEMMA PeerIsGone ==
  ASSUME NEW p, NEW s \in End, NEW c \in End, NEW in, NEW go \in Seq(Message), NEW in2,
         NEW r \in Seq(Message), Session(p, s, c, in, go),
         r = go \/ (\E m \in Message : go = Append(r, m))
  PROVE  Session(p, s, Serving!Closed, in2, r)
<1>1. CASE r = go
  BY <1>1 DEF Session, AtGreeting, AtWaiting, AtOffering, AtResourcing, AtDescribing, AtFilling,
     AtWorking, AtEnding, AtEnded
<1>2. CASE \E m \in Message : go = Append(r, m)
  <2>1. PICK m \in Message : go = Append(r, m)
    BY <1>2
  <2>2. Len(go) = Len(r) + 1 /\ Len(r) \in Nat /\ \A k \in 1..Len(r) : go[k] = r[k]
    BY <2>1, AppendFacts
  <2>3. /\ \A a : One(go, a) => Empty(r)
        /\ Two(go, Version, Ready) => One(r, Version)
        /\ ~Empty(go)
    BY <2>2, SMTT(30), ZenonT(40) DEF One, Two, Empty
  <2>4. /\ OldReports(go) => OldReports(r)
        /\ Reports(p, go, s.n) => Reports(p, r, s.n)
        /\ NoEcho(go, s.n) => NoEcho(r, s.n)
    BY <2>1, Appends
  <2>5. Echoed(go, s.n) => NoEcho(r, s.n) \/ Echoed(r, s.n)
    BY <2>1, EchoCut
  <2>6. \A about : Answered(s, go, about) => Answered(s, r, about)
    BY <2>3 DEF Answered
  <2> QED BY <2>3, <2>4, <2>5, <2>6 DEF Session, AtGreeting, AtWaiting, AtOffering, AtResourcing,
             AtDescribing, AtFilling, AtWorking, AtEnding, AtEnded
<1> QED BY <1>1, <1>2

\* A connection begins.
LEMMA Connected ==
  ASSUME NEW p, NEW s, NEW c, NEW in, NEW go,
         s = Serving!Read([Serving!Closed EXCEPT !.user = "peer_connection"], "on_version"),
         c = Serving!Write([Serving!Closed EXCEPT !.user = "peer_connection"], Serving!Msg("version", 0, "none"),
                   "on_version_write"),
         in = With(<<>>, s), go = With(<<>>, c)
  PROVE  Session(p, s, c, in, go)
<1>1. Greeting(s)
  BY DEF Greeting, Serving!Closed, Serving!Read, Serving!ReadAgain, Serving!SetRead
<1>2. Greets(c) /\ c.out = Version
  BY DEF Greets, Writes, Still, Serving!Closed, Serving!Write, Serving!WriteAgain, Serving!SetWrite,
     Version
<1>3. s.out = Serving!Silence
  BY <1>1 DEF Greeting
<1>4. Empty(in)
  BY <1>3 DEF With, Serving!WritePending, Empty
<1>5. One(go, Version)
  <2>1. Version # Serving!Silence
    BY DEF Version, Serving!Silence, Serving!Msg
  <2> QED BY <1>2, <2>1 DEF With, Serving!WritePending, One
<1> QED BY <1>1, <1>2, <1>4, <1>5 DEF Session, AtGreeting, Greeted

-----------------------------------------------------------------------------
(* The steps.                                                              *)

\* What is written is the last that is on its way.
LEMMA OnTheWay ==
  ASSUME NEW h \in Seq(Message), NEW e \in End
  PROVE  /\ With(h, e) \in Seq(Message)
         /\ h # <<>> => /\ Len(With(h, e)) > 0 /\ (Serving!WritePending(e) => Len(With(h, e)) > 1)
                        /\ Head(With(h, e)) = Head(h) /\ Tail(With(h, e)) = With(Tail(h), e)
                        /\ Tail(h) \in Seq(Message) /\ Head(h) \in Message
         /\ Empty(With(h, e)) => e.out = Serving!Silence
         /\ Serving!WritePending(e) => With(h, e) = Append(h, e.out) /\ e.out \in Message
         /\ ~Serving!WritePending(e) => With(h, e) = h
<1>1. e.out \in Message
  BY DEF End
<1>2. CASE Serving!WritePending(e)
  <2>1. With(h, e) = Append(h, e.out)
    BY <1>2 DEF With
  <2>2. h # <<>> => Head(Append(h, e.out)) = Head(h) /\ Tail(Append(h, e.out)) = Append(Tail(h), e.out)
    BY HeadTailAppend
  <2>3. Len(Append(h, e.out)) = Len(h) + 1 /\ Append(h, e.out) \in Seq(Message) /\ Len(h) \in Nat
    BY <1>1, AppendFacts
  <2>4. h # <<>> => Len(h) > 0 /\ Tail(h) \in Seq(Message) /\ Head(h) \in Message
    BY HeadTailProperties, EmptySeq
  <2>5. With(Tail(h), e) = Append(Tail(h), e.out)
    BY <1>2 DEF With
  <2> QED BY <1>1, <1>2, <2>1, <2>2, <2>3, <2>4, <2>5 DEF Empty
<1>3. CASE ~Serving!WritePending(e)
  <2>1. With(h, e) = h /\ With(Tail(h), e) = Tail(h) /\ e.out = Serving!Silence
    BY <1>3 DEF With, Serving!WritePending
  <2>2. h # <<>> => Len(h) > 0 /\ Tail(h) \in Seq(Message) /\ Head(h) \in Message
    BY HeadTailProperties, EmptySeq
  <2> QED BY <1>3, <2>1, <2>2
<1> QED BY <1>2, <1>3

LEMMA ItGrows ==
  ASSUME NEW q \in Seq(Message), NEW s, NEW t
  PROVE  Grows(With(q, s), With(q, t), s, t)
BY DEF Grows, With, Serving!WritePending

\* The machine stays, and what is said of it.
LEMMA SameMachine ==
  ASSUME machine' = machine
  PROVE  /\ Serving!Peers' = Serving!Peers /\ Serving!Clones' = Serving!Clones
         /\ Things' = Things /\ Message' = Message
         /\ End' = End /\ \A i : Serving!TaskOf(i)' = Serving!TaskOf(i)
         /\ \A p, s, c, in, go : Session(p, s, c, in, go)' <=> Session(p, s, c, in, go)
<1>1. /\ Serving!Peers' = Serving!Peers /\ Serving!Clones' = Serving!Clones
      /\ \A i : Serving!TaskOf(i)' = Serving!TaskOf(i)
  BY DEF Serving!Peers, Serving!Clones, Serving!TaskOf, Serving!Schedule
<1>2. Things' = Things
  BY <1>1 DEF Things
<1>3. Message' = Message
  BY <1>2 DEF Message
<1>4. End' = End
  BY <1>2, <1>3 DEF End
<1>5. \A p, c : Has(p, c)' <=> Has(p, c)
  BY <1>1 DEF Has
<1>6. \A p, m, i : IsReport(p, m, i)' <=> IsReport(p, m, i)
  BY <1>1 DEF IsReport
<1>7. \A p, c : /\ Saves(p, c)' <=> Saves(p, c)
                /\ Skips(p, c)' <=> Skips(p, c)
                /\ OnFirst(p, c)' <=> OnFirst(p, c)
                /\ Computes(p, c)' <=> Computes(p, c)
  BY <1>5, <1>6 DEF Saves, Skips, OnFirst, Computes
<1>8. \A p, c : AtTask(p, c)' <=> AtTask(p, c)
  BY <1>7 DEF AtTask
<1>9. \A p, q, i : Reports(p, q, i)' <=> Reports(p, q, i)
  BY <1>6 DEF Reports
<1>10. /\ \A p, i, c, in, go : Described(p, i, c, in, go)' <=> Described(p, i, c, in, go)
       /\ \A p, i, c, in, go : Worked(p, i, c, in, go)' <=> Worked(p, i, c, in, go)
       /\ \A p, s, c, in, go : Unaware(p, s, c, in, go)' <=> Unaware(p, s, c, in, go)
  BY <1>7, <1>8 DEF Described, Worked, Unaware
<1>11. \A p, s, c, in, go :
         /\ AtDescribing(p, s, c, in, go)' <=> AtDescribing(p, s, c, in, go)
         /\ AtWorking(p, s, c, in, go)' <=> AtWorking(p, s, c, in, go)
         /\ AtEnding(p, s, c, in, go)' <=> AtEnding(p, s, c, in, go)
         /\ AtEnded(p, s, c, in, go)' <=> AtEnded(p, s, c, in, go)
  BY <1>9, <1>10 DEF AtDescribing, AtWorking, AtEnding, AtEnded
<1>12. \A p, s, c, in, go : Session(p, s, c, in, go)' <=> Session(p, s, c, in, go)
  BY <1>11 DEF Session
<1> QED BY <1>1, <1>2, <1>3, <1>4, <1>12

\* A machine has at most one peer that is no clone.
OneKeeper == \A m \in Machines : \A p, q \in m.peers \ m.clones : p = q

\* What the invariant says of a peer and its connection.
LEMMA OfThePeer ==
  ASSUME SessionsInv, NEW p \in Serving!Peers
  PROVE  /\ srv[p] \in End /\ cli[p] \in End /\ toC[p] \in Seq(Message) /\ toS[p] \in Seq(Message)
         /\ n \in Nat /\ file \in Things
         /\ srv[p] # Serving!Closed => Session(p, srv[p], cli[p], With(toC[p], srv[p]), With(toS[p], cli[p]))
         /\ FileIsKept(p)
         /\ srv = [srv EXCEPT ![p] = srv[p]] /\ cli = [cli EXCEPT ![p] = cli[p]]
         /\ toC = [toC EXCEPT ![p] = toC[p]] /\ toS = [toS EXCEPT ![p] = toS[p]]
<1>1. SessionTypes /\ InSession(p) /\ FileIsKept(p)
  BY DEF SessionsInv
<1>2. /\ srv[p] \in End /\ cli[p] \in End /\ toC[p] \in Seq(Message) /\ toS[p] \in Seq(Message)
      /\ n \in Nat /\ file \in Things
  BY <1>1 DEF SessionTypes
<1>3. /\ srv = [srv EXCEPT ![p] = srv[p]] /\ cli = [cli EXCEPT ![p] = cli[p]]
      /\ toC = [toC EXCEPT ![p] = toC[p]] /\ toS = [toS EXCEPT ![p] = toS[p]]
  BY <1>1 DEF SessionTypes
<1> QED BY <1>1, <1>2, <1>3 DEF InSession, Coming, Going

\* A step of the ends of one connection, and of the file if the peer is the one that keeps it.
LEMMA OneConnection ==
  ASSUME SessionsInv, OneKeeper, NEW p \in Serving!Peers, machine' = machine, n' = n,
         file' \in Things, file' = file \/ p \notin Serving!Clones,
         NEW s \in End, NEW c \in End, NEW q \in Seq(Message), NEW h \in Seq(Message),
         srv' = [srv EXCEPT ![p] = s], cli' = [cli EXCEPT ![p] = c],
         toC' = [toC EXCEPT ![p] = q], toS' = [toS EXCEPT ![p] = h],
         s # Serving!Closed => Session(p, s, c, With(q, s), With(h, c)),
         c.reading => c.rcb \in PeerReads, c.load \in {"open", "write"} => p \notin Serving!Clones,
         c.load = "read" /\ p \notin Serving!Clones /\ s # Serving!Closed => file' = Serving!TaskOf(c.n)
  PROVE  SessionsInv'
<1>0. /\ SessionTypes /\ Serving!Peers' = Serving!Peers /\ Serving!Clones' = Serving!Clones /\ Things' = Things
      /\ Message' = Message /\ End' = End /\ \A i : Serving!TaskOf(i)' = Serving!TaskOf(i)
      /\ \A o, t, d, in, go : Session(o, t, d, in, go)' <=> Session(o, t, d, in, go)
  BY SameMachine DEF SessionsInv
<1>1. SessionTypes'
  BY <1>0 DEF SessionTypes
<1>2. /\ srv'[p] = s /\ cli'[p] = c /\ toC'[p] = q /\ toS'[p] = h
      /\ \A o \in Serving!Peers \ {p} : /\ srv'[o] = srv[o] /\ cli'[o] = cli[o]
                                        /\ toC'[o] = toC[o] /\ toS'[o] = toS[o]
  BY <1>0 DEF SessionTypes
<1>3. InSession(p)' /\ FileIsKept(p)'
  <2>1. InSession(p)'
    BY <1>0, <1>2 DEF InSession, Coming, Going, With, Serving!WritePending
  <2>2. FileIsKept(p)'
    BY <1>0, <1>2 DEF FileIsKept
  <2> QED BY <2>1, <2>2
<1>4. ASSUME NEW o \in Serving!Peers \ {p} PROVE InSession(o)' /\ FileIsKept(o)'
  <2>1. InSession(o) /\ FileIsKept(o)
    BY DEF SessionsInv
  <2>2. InSession(o)'
    BY <1>0, <1>2, <2>1 DEF InSession, Coming, Going, With, Serving!WritePending
  <2>3. file' = file \/ o \in Serving!Clones
    <3>1. machine \in Machines
      BY <1>0 DEF SessionTypes
    <3> QED BY <3>1 DEF OneKeeper, Serving!Peers, Serving!Clones
  <2>4. FileIsKept(o)'
    BY <1>0, <1>2, <2>1, <2>3 DEF FileIsKept
  <2> QED BY <2>2, <2>4
<1>5. \A o \in Serving!Peers' : InSession(o)' /\ FileIsKept(o)'
  BY <1>0, <1>3, <1>4
<1> QED BY <1>1, <1>5 DEF SessionsInv

\* A step of the server's end.
LEMMA TheServersEnd ==
  ASSUME SessionsInv, OneKeeper, NEW p \in Serving!Peers, UNCHANGED <<machine, n, cli, file>>,
         NEW s \in End, NEW q \in Seq(Message), NEW h \in Seq(Message),
         srv' = [srv EXCEPT ![p] = s], toC' = [toC EXCEPT ![p] = q], toS' = [toS EXCEPT ![p] = h],
         s # Serving!Closed => srv[p] # Serving!Closed /\ Session(p, s, cli[p], With(q, s), With(h, cli[p]))
  PROVE  SessionsInv'
<1>1. /\ cli[p] \in End /\ file \in Things /\ FileIsKept(p) /\ cli = [cli EXCEPT ![p] = cli[p]]
  BY OfThePeer
<1>2. /\ cli[p].reading => cli[p].rcb \in PeerReads
      /\ cli[p].load \in {"open", "write"} => p \notin Serving!Clones
      /\ cli[p].load = "read" /\ p \notin Serving!Clones /\ s # Serving!Closed => file' = Serving!TaskOf(cli[p].n)
  BY <1>1 DEF FileIsKept
<1>3. /\ machine' = machine /\ n' = n /\ file' = file /\ cli' = [cli EXCEPT ![p] = cli[p]]
      /\ s # Serving!Closed => Session(p, s, cli[p], With(q, s), With(h, cli[p]))
  BY <1>1
<1> QED BY <1>1, <1>2, <1>3, OneConnection

\* A step of the peer's end; what is on its way to it may become less.
LEMMA ThePeersEnd ==
  ASSUME SessionsInv, OneKeeper, NEW p \in Serving!Peers, UNCHANGED <<machine, n, srv>>,
         file' \in Things, file' = file \/ p \notin Serving!Clones,
         NEW c \in End, NEW q \in Seq(Message), NEW h \in Seq(Message),
         cli' = [cli EXCEPT ![p] = c], toC' = [toC EXCEPT ![p] = q], toS' = [toS EXCEPT ![p] = h],
         srv[p] # Serving!Closed => Session(p, srv[p], c, With(q, srv[p]), With(h, c)),
         c.reading => c.rcb \in PeerReads, c.load \in {"open", "write"} => p \notin Serving!Clones,
         c.load = "read" /\ p \notin Serving!Clones /\ srv[p] # Serving!Closed => file' = Serving!TaskOf(c.n)
  PROVE  SessionsInv'
<1>1. srv[p] \in End /\ srv = [srv EXCEPT ![p] = srv[p]]
  BY OfThePeer
<1>2. srv' = [srv EXCEPT ![p] = srv[p]] /\ machine' = machine /\ n' = n
  BY <1>1
<1> QED BY <1>1, <1>2, OneConnection

-----------------------------------------------------------------------------
(* The server's steps.                                                     *)

LEMMA SessionServerReads ==
  ASSUME SessionsInv, OneKeeper, NEW p \in Serving!Peers, Serving!ServerRead(p)
  PROVE  SessionsInv'
<1> DEFINE s == srv[p]
           c == cli[p]
           q == toC[p]
           h == toS[p]
           t == Heard(s, Head(h))
<1>1. /\ s \in End /\ c \in End /\ q \in Seq(Message) /\ h \in Seq(Message) /\ n \in Nat
      /\ s # Serving!Closed => Session(p, s, c, With(q, s), With(h, c))
      /\ toC = [toC EXCEPT ![p] = q]
  BY OfThePeer
<1>2. /\ s.reading /\ h # <<>> /\ srv' = [srv EXCEPT ![p] = t] /\ toS' = [toS EXCEPT ![p] = Tail(h)]
      /\ UNCHANGED <<machine, n, cli, file>> /\ toC' = [toC EXCEPT ![p] = q]
  BY <1>1 DEF Serving!ServerRead, Heard, Serving!Taken
<1>3. s # Serving!Closed
  BY <1>2 DEF Serving!Closed
<1>4. t \in End
  <2>1. [s EXCEPT !.reading = FALSE] \in End /\ Head(h) \in Message
    BY <1>1, <1>2, OtherField, OnTheWay
  <2> QED BY <1>1, <2>1, ServerTypes, DriverKeepsTypes DEF Heard
<1>5. /\ With(h, c) \in Seq(Message) /\ Len(With(h, c)) > 0
      /\ Serving!WritePending(c) => Len(With(h, c)) > 1
      /\ Head(With(h, c)) = Head(h) /\ Tail(With(h, c)) = With(Tail(h), c)
      /\ Tail(h) \in Seq(Message) /\ With(q, s) \in Seq(Message) /\ With(q, t) \in Seq(Message)
  BY <1>1, <1>2, <1>4, OnTheWay
<1>6. Hears(s, c, With(h, c)) /\ Grows(With(q, s), With(q, t), s, t)
  BY <1>1, <1>2, <1>5, ItGrows DEF Hears
<1>7. t = Heard(s, Head(With(h, c)))
  BY <1>5
<1> HIDE DEF s, c, q, h, t
<1>8. t # Serving!Closed => Session(p, t, c, With(q, t), With(Tail(h), c))
  <2> DEFINE in == With(q, s)
             r == With(q, t)
             go == With(h, c)
  <2>1. /\ in \in Seq(Message) /\ r \in Seq(Message) /\ go \in Seq(Message)
        /\ Session(p, s, c, in, go) /\ Hears(s, c, go) /\ t = Heard(s, Head(go))
        /\ Grows(in, r, s, t) /\ Tail(go) = With(Tail(h), c)
    BY <1>1, <1>3, <1>5, <1>6, <1>7
  <2>2. s \in End /\ c \in End /\ t \in End /\ n \in Nat
    BY <1>1, <1>4
  <2> HIDE DEF in, r, go
  <2>3. t # Serving!Closed => Session(p, t, c, r, Tail(go))
    BY <2>1, <2>2, ServerHears
  <2>4. t # Serving!Closed => Session(p, t, c, r, With(Tail(h), c))
    BY <2>1, <2>3
  <2> QED BY <2>4 DEF r
<1>9. t # Serving!Closed => srv[p] # Serving!Closed /\ Session(p, t, cli[p], With(q, t), With(Tail(h), cli[p]))
  BY <1>3, <1>8 DEF s, c
<1> QED BY <1>1, <1>2, <1>4, <1>5, <1>9, TheServersEnd

LEMMA SessionServerWrites ==
  ASSUME SessionsInv, OneKeeper, NEW p \in Serving!Peers, Serving!ServerWritten(p)
  PROVE  SessionsInv'
<1> DEFINE s == srv[p]
           c == cli[p]
           q == toC[p]
           h == toS[p]
           t == Wrote(s)
           r == With(q, s)
<1>1. /\ s \in End /\ c \in End /\ q \in Seq(Message) /\ h \in Seq(Message)
      /\ s # Serving!Closed => Session(p, s, c, With(q, s), With(h, c))
      /\ toS = [toS EXCEPT ![p] = h]
  BY OfThePeer
<1>2. /\ Serving!WritePending(s) /\ srv' = [srv EXCEPT ![p] = t]
      /\ toC' = [toC EXCEPT ![p] = Append(q, s.out)]
      /\ UNCHANGED <<machine, n, cli, file>> /\ toS' = [toS EXCEPT ![p] = h]
  BY <1>1 DEF Serving!ServerWritten, Wrote, Serving!Sent
<1>3. s # Serving!Closed
  BY <1>2 DEF Serving!Closed, Serving!WritePending
<1>4. t \in End
  <2>1. [s EXCEPT !.out = Serving!Silence] \in End
    BY <1>1, SomeThings, OtherField
  <2>2. n \in Nat
    BY OfThePeer
  <2> QED BY <2>1, <2>2, ServerTypes, DriverKeepsTypes DEF Wrote
<1>5. r = Append(q, s.out) /\ r \in Seq(Message) /\ With(h, c) \in Seq(Message)
  BY <1>1, <1>2, OnTheWay
<1>6. toC' = [toC EXCEPT ![p] = r]
  BY <1>2, <1>5
<1> HIDE DEF s, c, q, h, t, r
<1>8. t # Serving!Closed => Session(p, t, c, With(r, t), With(h, c))
  <2>1. Session(p, s, c, r, With(h, c)) /\ t = Wrote(s)
    BY <1>1, <1>3 DEF r, t
  <2> QED BY <1>1, <1>2, <1>4, <1>5, <2>1, ServerWrites
<1>9. t # Serving!Closed => srv[p] # Serving!Closed /\ Session(p, t, cli[p], With(r, t), With(h, cli[p]))
  BY <1>3, <1>8 DEF s, c
<1> QED BY <1>1, <1>2, <1>4, <1>5, <1>6, <1>9, TheServersEnd

\* A sync is begun, a report put off, or the server's end reads again.
LEMMA WorkKeeps ==
  ASSUME SessionsInv, OneKeeper, NEW p \in Serving!Peers, Serving!Hold(p) \/ Serving!RetryOnRead(p) \/ Serving!Sync(p)
  PROVE  SessionsInv'
<1> DEFINE s == srv[p]
           c == cli[p]
           q == toC[p]
           h == toS[p]
           in == With(q, s)
           go == With(h, c)
<1>1. /\ s \in End /\ c \in End /\ q \in Seq(Message) /\ h \in Seq(Message)
      /\ s # Serving!Closed => Session(p, s, c, in, go)
      /\ toC = [toC EXCEPT ![p] = q] /\ toS = [toS EXCEPT ![p] = h]
  BY OfThePeer
<1>2. s # Serving!Closed /\ (s.held \/ (s.user = "processing_peer" /\ s.rcb = "on_read_report"))
  BY DEF Serving!Hold, Serving!RetryOnRead, Serving!Sync, Serving!IsProcessing, Serving!Closed
<1>3. AtWorking(p, s, c, in, go)
  BY <1>1, <1>2, OnlyWorking
<1>4. Working(s) /\ in \in Seq(Message) /\ go \in Seq(Message)
  BY <1>1, <1>3, OnTheWay DEF AtWorking
<1>5. CASE Serving!Hold(p)
  <2> DEFINE t == Serving!Kept([s EXCEPT !.reading = FALSE, !.held = TRUE])
  <2>1. /\ h # <<>> /\ srv' = [srv EXCEPT ![p] = t] /\ toS' = [toS EXCEPT ![p] = Tail(h)]
        /\ UNCHANGED <<machine, n, cli, file>> /\ toC' = [toC EXCEPT ![p] = q]
    BY <1>1, <1>5 DEF Serving!Hold, Serving!Taken
  <2>2. t \in End
    <3>1. [s EXCEPT !.reading = FALSE] \in End
      BY <1>1, OtherField
    <3>2. [[s EXCEPT !.reading = FALSE] EXCEPT !.held = TRUE] \in End
      BY <3>1, OtherField
    <3> QED BY <3>2, DriverKeepsTypes
  <2>3. Tail(go) = With(Tail(h), c) /\ Len(go) > 0 /\ Tail(h) \in Seq(Message)
    BY <1>1, <2>1, OnTheWay
  <2>4. t # Serving!Closed => Working(t) /\ t.n = s.n /\ t.out = s.out
    BY <1>1, <1>4, WorkGoesOn
  <2>5. Reports(p, Tail(go), s.n)
    BY <1>3, <1>4, <2>3, Tails DEF AtWorking
  <2>6. t # Serving!Closed => With(q, t) = in
    BY <2>4 DEF With, Serving!WritePending
  <2> HIDE DEF s, c, q, h, in, go, t
  <2>7. t # Serving!Closed => Session(p, t, c, in, Tail(go))
    <3> SUFFICES ASSUME t # Serving!Closed PROVE Session(p, t, c, in, Tail(go))
      OBVIOUS
    <3>1. c # Serving!Closed => Worked(p, s.n, c, in, go)
      BY <1>3 DEF AtWorking
    <3>2. c # Serving!Closed => Worked(p, t.n, c, in, Tail(go))
      <4>1. ~Empty(go)
        BY <2>3 DEF Empty
      <4>2. c # Serving!Closed => /\ c.n = s.n /\ Syncs(in, s.n)
                                  /\ Saves(p, c) \/ OnFirst(p, c) \/ Computes(p, c)
        BY <3>1, <4>1 DEF Worked
      <4> QED BY <2>4, <4>2 DEF Worked
    <3>3. AtWorking(p, t, c, in, Tail(go))
      BY <2>4, <2>5, <3>2 DEF AtWorking
    <3> QED BY <3>3 DEF Session
  <2>8. t # Serving!Closed => srv[p] # Serving!Closed /\ Session(p, t, cli[p], With(q, t), With(Tail(h), cli[p]))
    BY <1>2, <2>3, <2>6, <2>7 DEF s, c
  <2> QED BY <1>1, <2>1, <2>2, <2>3, <2>8, TheServersEnd
<1>6. CASE Serving!RetryOnRead(p)
  <2> DEFINE t == [Serving!ReadAgain(s) EXCEPT !.held = FALSE]
  <2>1. /\ srv' = [srv EXCEPT ![p] = t] /\ UNCHANGED <<machine, n, cli, file>>
        /\ toC' = [toC EXCEPT ![p] = q] /\ toS' = [toS EXCEPT ![p] = h]
    BY <1>1, <1>6 DEF Serving!RetryOnRead
  <2>2. t \in End
    BY <1>1, OtherField, DriverKeepsTypes
  <2>4. Working(t) /\ t.n = s.n /\ t.out = s.out
    BY <1>1, <1>4, WorkGoesOn
  <2>6. With(q, t) = in
    BY <2>4 DEF With, Serving!WritePending
  <2> HIDE DEF s, c, q, h, in, go, t
  <2>7. Session(p, t, c, in, go)
    BY <1>3, <2>4 DEF AtWorking, Worked, Session
  <2>8. t # Serving!Closed => srv[p] # Serving!Closed /\ Session(p, t, cli[p], With(q, t), With(h, cli[p]))
    BY <1>2, <2>6, <2>7 DEF s, c, go
  <2> QED BY <1>1, <2>1, <2>2, <2>8, TheServersEnd
<1>7. CASE Serving!Sync(p)
  <2> DEFINE t == IF Serving!WritePending(s) THEN Serving!SetWrite(s, "on_late_write_sync")
                  ELSE Serving!WriteAgain(s, Serving!Msg("sync", s.n, "none"))
  <2>1. /\ srv' = [srv EXCEPT ![p] = t] /\ UNCHANGED <<machine, n, cli, file>>
        /\ toC' = [toC EXCEPT ![p] = q] /\ toS' = [toS EXCEPT ![p] = h]
    BY <1>1, <1>7 DEF Serving!Sync
  <2>2. t \in End
    <3>1. Serving!SetWrite(s, "on_late_write_sync") \in End
      BY <1>1, DriverKeepsTypes DEF WriteCallbacks
    <3>2. Serving!Msg("sync", s.n, "none") \in Message
      BY <1>1, Words DEF Types, End
    <3>3. Serving!WriteAgain(s, Serving!Msg("sync", s.n, "none")) \in End
      BY <1>1, <3>2, DriverKeepsTypes
    <3> QED BY <3>1, <3>3
  <2>4. Working(t) /\ t.n = s.n
    BY <1>1, <1>4, WorkGoesOn
  <2>5. CASE Serving!WritePending(s)
    <3>1. t = Serving!SetWrite(s, "on_late_write_sync")
      BY <2>5
    <3>2. t.out = s.out
      BY <1>1, <3>1 DEF Serving!SetWrite, End
    <3>3. With(q, t) = in
      BY <3>2 DEF With, Serving!WritePending
    <3> HIDE DEF s, c, q, h, in, go, t
    <3>4. Session(p, t, c, in, go)
      BY <1>3, <2>4 DEF AtWorking, Worked, Session
    <3>5. t # Serving!Closed => srv[p] # Serving!Closed /\ Session(p, t, cli[p], With(q, t), With(h, cli[p]))
      BY <1>2, <3>3, <3>4 DEF s, c, go
    <3> QED BY <1>1, <2>1, <2>2, <3>5, TheServersEnd
  <2>6. CASE ~Serving!WritePending(s)
    <3>1. in = q
      BY <2>6 DEF With
    <3> HIDE DEF s, c, q, h, in, go, t
    <3>2. AtWorking(p, t, c, With(in, t), go)
      BY <1>1, <1>3, <1>4, <2>2, <2>4, OneMoreSync
    <3>3. Session(p, t, c, With(q, t), go)
      BY <3>1, <3>2 DEF Session
    <3>5. t # Serving!Closed => srv[p] # Serving!Closed /\ Session(p, t, cli[p], With(q, t), With(h, cli[p]))
      BY <1>2, <3>3 DEF s, c, go
    <3> QED BY <1>1, <2>1, <2>2, <3>5, TheServersEnd
  <2> QED BY <2>5, <2>6
<1> QED BY <1>5, <1>6, <1>7

\* The server gives a connection up.
LEMMA GivenUp ==
  ASSUME SessionsInv, OneKeeper, NEW p \in Serving!Peers, Serving!StaleEcho(p) \/ Serving!ServerError(p)
  PROVE  SessionsInv'
<1>1. /\ toC[p] \in Seq(Message) /\ toS[p] \in Seq(Message)
      /\ toC = [toC EXCEPT ![p] = toC[p]] /\ toS = [toS EXCEPT ![p] = toS[p]]
  BY OfThePeer
<1>2. /\ srv' = [srv EXCEPT ![p] = Serving!Closed] /\ UNCHANGED <<machine, n, cli, file>>
      /\ toC' = [toC EXCEPT ![p] = toC[p]] /\ toS' = [toS EXCEPT ![p] = toS[p]]
  BY <1>1 DEF Serving!StaleEcho, Serving!ServerError
<1>3. Serving!Closed # Serving!Closed =>
        /\ srv[p] # Serving!Closed
        /\ Session(p, Serving!Closed, cli[p], With(toC[p], Serving!Closed), With(toS[p], cli[p]))
  OBVIOUS
<1> QED BY <1>1, <1>2, <1>3, ClosedType, TheServersEnd

\* Every connection at once: a task begins, or ends.
LEMMA TasksComeAndGo ==
  ASSUME SessionsInv, Serving!Activate \/ Serving!Deactivate
  PROVE  SessionsInv'
<1>0. /\ machine' = machine /\ cli' = cli /\ toC' = toC /\ toS' = toS /\ file' = file
      /\ n \in Nat /\ n' \in Nat
  BY DEF Serving!Activate, Serving!Deactivate, SessionsInv, SessionTypes
<1>1. /\ SessionTypes /\ Serving!Peers' = Serving!Peers /\ Serving!Clones' = Serving!Clones /\ Things' = Things
      /\ Message' = Message /\ End' = End /\ \A i : Serving!TaskOf(i)' = Serving!TaskOf(i)
      /\ \A o, t, d, in, go : Session(o, t, d, in, go)' <=> Session(o, t, d, in, go)
  BY <1>0, SameMachine DEF SessionsInv
<1>2. ASSUME NEW p \in Serving!Peers
      PROVE  /\ srv'[p] \in End
             /\ srv'[p] # Serving!Closed => /\ srv[p] # Serving!Closed
                                            /\ Session(p, srv'[p], cli[p], With(toC[p], srv'[p]),
                                                       With(toS[p], cli[p]))
  <2> DEFINE s == srv[p]
             c == cli[p]
             t == srv'[p]
             in == With(toC[p], s)
             r == With(toC[p], t)
             go == With(toS[p], c)
  <2>1. /\ s \in End /\ c \in End /\ toC[p] \in Seq(Message) /\ toS[p] \in Seq(Message)
        /\ s # Serving!Closed => Session(p, s, c, in, go)
    BY OfThePeer
  <2>2. in \in Seq(Message) /\ go \in Seq(Message)
    BY <2>1, OnTheWay
  <2>3. CASE t = s
    BY <2>1, <2>3
  <2>4. CASE s.ready /\ t = Serving!NewProcessingPeer(s, n')
    <3>1. t \in End
      BY <1>0, <2>1, <2>4, ServerTypes
    <3>2. s # Serving!Closed
      BY <2>4 DEF Serving!Closed
    <3>3. Grows(in, r, s, t) /\ r \in Seq(Message)
      BY <2>1, <3>1, ItGrows, OnTheWay
    <3> HIDE DEF s, c, t, in, r, go
    <3>4. Session(p, t, c, r, go)
      BY <1>0, <2>1, <2>2, <2>4, <3>1, <3>2, <3>3, ReadyIsOffered
    <3> QED BY <3>1, <3>2, <3>4 DEF s, c, t, r, go
  <2>5. CASE s.user = "processing_peer" /\ t = Serving!NewEndProcessWriter(s)
    <3>1. t \in End
      BY <1>0, <2>1, <2>5, ServerTypes
    <3>2. s # Serving!Closed
      BY <2>5 DEF Serving!Closed
    <3>3. Grows(in, r, s, t) /\ r \in Seq(Message)
      BY <2>1, <3>1, ItGrows, OnTheWay
    <3> HIDE DEF s, c, t, in, r, go
    <3>4. Session(p, t, c, r, go)
      BY <2>1, <2>2, <2>5, <3>1, <3>2, <3>3, PeerIsTold
    <3> QED BY <3>1, <3>2, <3>4 DEF s, c, t, r, go
  <2>6. t = s \/ (s.ready /\ t = Serving!NewProcessingPeer(s, n'))
        \/ (s.user = "processing_peer" /\ t = Serving!NewEndProcessWriter(s))
    BY DEF Serving!Activate, Serving!Deactivate
  <2> QED BY <2>3, <2>4, <2>5, <2>6
<1>3. SessionTypes'
  <2>1. srv' \in [Serving!Peers -> End]
    BY <1>2 DEF Serving!Activate, Serving!Deactivate
  <2> QED BY <1>0, <1>1, <2>1 DEF SessionTypes
<1>4. ASSUME NEW p \in Serving!Peers PROVE InSession(p)' /\ FileIsKept(p)'
  <2>1. InSession(p)'
    BY <1>0, <1>1, <1>2 DEF InSession, Coming, Going, With, Serving!WritePending
  <2>2. FileIsKept(p)
    BY DEF SessionsInv
  <2>3. FileIsKept(p)'
    BY <1>0, <1>1, <1>2, <2>2 DEF FileIsKept
  <2> QED BY <2>1, <2>3
<1>5. \A p \in Serving!Peers' : InSession(p)' /\ FileIsKept(p)'
  BY <1>1, <1>4
<1> QED BY <1>3, <1>5 DEF SessionsInv

-----------------------------------------------------------------------------
(* The peer's steps.                                                       *)

\* A peer in a session is in one of its places.
Placed(p, c) ==
  \/ Greets(c) \/ Readies(c) \/ Idles(c) \/ (\E i : Declines(c, i)) \/ AtTask(p, c)
  \/ ToEcho(c) \/ Echoes(c) \/ ReportsOn(c)

LEMMA Places ==
  ASSUME NEW p, NEW s, NEW c, NEW in, NEW go, Session(p, s, c, in, go), c # Serving!Closed
  PROVE  Placed(p, c)
<1>1. AtGreeting(s, c, in, go) \/ AtWaiting(s, c, in, go) => Placed(p, c)
  BY DEF AtGreeting, AtWaiting, Greeted, Waited, Placed
<1>2. AtOffering(s, c, in, go) \/ AtResourcing(s, c, in, go) => Placed(p, c)
  BY DEF AtOffering, AtResourcing, Offered, Resourced, Placed, AtTask
<1>3. AtDescribing(p, s, c, in, go) \/ AtFilling(s, c, in, go) => Placed(p, c)
  BY DEF AtDescribing, AtFilling, Described, Filled, Placed, AtTask
<1>4. AtWorking(p, s, c, in, go) => Placed(p, c)
  BY DEF AtWorking, Worked, Placed, AtTask
<1>5. AtEnding(p, s, c, in, go) \/ AtEnded(p, s, c, in, go) => Placed(p, c)
  BY DEF AtEnding, AtEnded, Unaware, Aware, Placed
<1> QED BY <1>1, <1>2, <1>3, <1>4, <1>5 DEF Session

LEMMA PlacesLoad ==
  ASSUME NEW p, NEW c, Placed(p, c)
  PROVE  /\ c.load \in {"hash", "read"} => Loads(c)
         /\ c.wcb = "on_end_process_replied_write" /\ c.out # Serving!Silence => ~c.reading
<1>1. c.load \in {"hash", "read"} => Loads(c)
  <2> SUFFICES ASSUME c.load \in {"hash", "read"} PROVE Loads(c)
    OBVIOUS
  <2>1. c.load # "none" /\ ~Saves(p, c)
    BY DEF Saves
  <2> QED BY <2>1, FileIsIdle DEF Placed, AtTask
<1>2. c.wcb = "on_end_process_replied_write" /\ c.out # Serving!Silence => ~c.reading
  BY DEF Placed, AtTask, Greets, Readies, Idles, Declines, Accepts, OnResources, TakesResources,
     OnMetadata, Refuses, OnEnd, Loads, Asks, OnBulk, Saves, Skips, OnFirst, Computes, ToEcho,
     Echoes, ReportsOn, IsDeaf, Writes, Reads
<1> QED BY <1>1, <1>2

\* What a peer reads leaves its callback one of those it reads with, and its file alone, unless
\* it is to be looked for or written.
KeptInOrder(p, c, d) ==
  /\ d.reading => d.rcb \in PeerReads
  /\ d.load \in {"open", "write"} => p \notin Serving!Clones \/ c.load = d.load
  /\ d.load = "read" => c.load = "read"

LEMMA ReadsKeep ==
  ASSUME NEW p, NEW c \in End, NEW m, NEW news \in BOOLEAN, NEW d, c.rcb \in PeerReads,
         d = Understood(p, c, m, news)
  PROVE  KeptInOrder(p, c, d)
<1> DEFINE e == [c EXCEPT !.reading = FALSE]
           f == Serving!AtPeer(p, e, m, news)
           Good(x) == KeptInOrder(p, c, x)
<1>1. e \in End /\ e.rcb = c.rcb /\ e.load = c.load /\ ~e.reading
  BY DEF End
<1>2. Good(Serving!Closed)
  BY DEF Serving!Closed, KeptInOrder
<1>3. ASSUME NEW x \in End, x.rcb = c.rcb, x.load = c.load
      PROVE  /\ \A w : \A cb : /\ Serving!Write(x, w, cb).reading = x.reading
                               /\ Serving!Write(x, w, cb).rcb = c.rcb /\ Serving!Write(x, w, cb).load = c.load
             /\ \A w : /\ Serving!WriteAgain(x, w).reading = x.reading
                       /\ Serving!WriteAgain(x, w).rcb = c.rcb /\ Serving!WriteAgain(x, w).load = c.load
             /\ \A cb : /\ Serving!SetWrite(x, cb).reading = x.reading
                        /\ Serving!SetWrite(x, cb).rcb = c.rcb /\ Serving!SetWrite(x, cb).load = c.load
  BY <1>3 DEF Serving!Write, Serving!WriteAgain, Serving!SetWrite, End
<1>4. Good(Serving!Echo(e)) /\ Good(Serving!RespondToEndProcess(e))
  BY <1>1 DEF KeptInOrder, Serving!Echo, Serving!RespondToEndProcess, Serving!Write,
     Serving!WriteAgain, Serving!SetWrite, End
<1>5. Good(Serving!AtPeerConnection(p, e, m))
  BY <1>1, <1>2, <1>3 DEF KeptInOrder, Serving!AtPeerConnection, Serving!TakenOver, Serving!Write,
     Serving!WriteAgain, Serving!SetWrite, End
<1>6. Good(Serving!OnRes(e, m))
  BY <1>1, <1>2 DEF KeptInOrder, Serving!OnRes, Serving!TakenOver, Serving!Write,
     Serving!WriteAgain, Serving!SetWrite, End
<1>7. Good(Serving!OnMeta(p, e, m))
  BY <1>1, <1>2, <1>3 DEF KeptInOrder, Serving!OnMeta, Serving!TakenOver, End
<1>8. Good(Serving!OnBulkRead(p, e, m))
  <2>1. Good(Serving!Read([e EXCEPT !.loaded = Serving!TaskOf(m.n)], "on_first_sync_read"))
    BY <1>1 DEF KeptInOrder, Serving!Read, Serving!ReadAgain, Serving!SetRead, End, PeerReads
  <2>2. p \notin Serving!Clones => Good([e EXCEPT !.loaded = Serving!TaskOf(m.n), !.load = "open"])
    BY <1>1 DEF KeptInOrder, End
  <2> QED BY <1>2, <1>4, <2>1, <2>2 DEF Serving!OnBulkRead
<1>9. ASSUME NEW x \in End, x.rcb \in PeerReads, x.load = c.load, ~x.reading, NEW new \in BOOLEAN
      PROVE  Good(Serving!OnSyncRead(x, m, new))
  <2>1. Good(Serving!Echo(x)) /\ Good(Serving!RespondToEndProcess(x))
    BY <1>9 DEF KeptInOrder, Serving!Echo, Serving!RespondToEndProcess, Serving!Write,
       Serving!WriteAgain, Serving!SetWrite, End
  <2>2. Good([Serving!ReadAgain(Serving!SetWrite(x, "on_write")) EXCEPT !.timer = "on"])
    BY <1>9 DEF KeptInOrder, Serving!ReadAgain, Serving!SetWrite, End
  <2>3. Good([Serving!ReadAgain(x) EXCEPT !.timer = "send"])
    BY <1>9 DEF KeptInOrder, Serving!ReadAgain, End
  <2> QED BY <1>2, <2>1, <2>2, <2>3 DEF Serving!OnSyncRead
<1>10. Good(Serving!OnSyncRead(e, m, news))
  BY <1>1, <1>9
<1>11. Good(Serving!OnSyncRead([Serving!SetRead(e, "on_sync_read") EXCEPT !.timer = "on"], m, TRUE))
  <2>1. Serving!SetRead(e, "on_sync_read") \in End
    BY <1>1, DriverKeepsTypes DEF ReadCallbacks
  <2>2. [Serving!SetRead(e, "on_sync_read") EXCEPT !.timer = "on"] \in End
    BY <2>1, OtherField
  <2>3. LET x == [Serving!SetRead(e, "on_sync_read") EXCEPT !.timer = "on"]
        IN  x.rcb \in PeerReads /\ x.load = c.load /\ ~x.reading
    BY <1>1 DEF Serving!SetRead, End, PeerReads
  <2> QED BY <1>9, <2>2, <2>3
<1> HIDE DEF Good
<1>12. Good(f)
  BY <1>1, <1>2, <1>4, <1>5, <1>6, <1>7, <1>8, <1>10, <1>11 DEF Serving!AtPeer, PeerReads
<1>13. d = f \/ d = Serving!Closed
  BY DEF Understood, Serving!Kept
<1> QED BY <1>2, <1>12, <1>13 DEF Good

\* Nor does what it writes.
LEMMA WritesKeep ==
  ASSUME NEW c \in End, NEW d, d = Delivered(c), c.reading => c.rcb \in PeerReads,
         c.wcb = "on_end_process_replied_write" => ~c.reading
  PROVE  /\ d.reading => d.rcb \in PeerReads
         /\ d.load # "none" => d.load = c.load
<1> DEFINE e == [c EXCEPT !.out = Serving!Silence]
           f == Serving!AfterPeerWrite(e)
           Good(x) == (x.reading => x.rcb \in PeerReads) /\ (x.load # "none" => x.load = c.load)
<1>1. /\ e \in End /\ e.rcb = c.rcb /\ e.load = c.load /\ e.reading = c.reading /\ e.wcb = c.wcb
  BY SomeThings, OtherField DEF End
<1>2. Good(Serving!Closed)
  BY DEF Serving!Closed
<1>3. \A m, cb : Good(Serving!Write(e, m, cb)) /\ Good(Serving!WriteAgain(e, m)) /\ Good(Serving!SetWrite(e, cb))
  BY <1>1 DEF Serving!Write, Serving!WriteAgain, Serving!SetWrite, End
<1>4. \A cb \in PeerReads : Good(Serving!Read(e, cb))
  BY <1>1 DEF Serving!Read, Serving!ReadAgain, Serving!SetRead, End
<1>5. c.wcb = "on_end_process_replied_write" => Good(Serving!NewPeerConnection(e))
  BY <1>1 DEF Serving!NewPeerConnection, Serving!TakenOver, Serving!Write, Serving!WriteAgain,
     Serving!SetWrite, End
<1>6. Good(Serving!Echo(e)) /\ Good(e)
  BY <1>1, <1>3 DEF Serving!Echo
<1> HIDE DEF Good
<1>7. Good(f)
  BY <1>1, <1>3, <1>4, <1>5, <1>6 DEF Serving!AfterPeerWrite, PeerReads
<1>8. d = f \/ d = Serving!Closed
  BY DEF Delivered, Serving!Kept
<1> QED BY <1>2, <1>7, <1>8 DEF Good

\* The peer is gone; what it was writing may have got through.
LEMMA PeerVanishes ==
  ASSUME SessionsInv, OneKeeper, NEW p \in Serving!Peers, UNCHANGED <<machine, n, srv, file>>,
         NEW q \in Seq(Message), NEW h \in Seq(Message), h = toS[p] \/ h = With(toS[p], cli[p]),
         cli' = [cli EXCEPT ![p] = Serving!Closed], toC' = [toC EXCEPT ![p] = q],
         toS' = [toS EXCEPT ![p] = h]
  PROVE  SessionsInv'
<1> DEFINE s == srv[p]
           c == cli[p]
           in == With(toC[p], s)
           go == With(toS[p], c)
<1>1. /\ s \in End /\ c \in End /\ toC[p] \in Seq(Message) /\ toS[p] \in Seq(Message)
      /\ s # Serving!Closed => Session(p, s, c, in, go) /\ file \in Things
  BY OfThePeer
<1>2. go \in Seq(Message) /\ (h = go \/ \E m \in Message : go = Append(h, m))
  BY <1>1, OnTheWay, ZenonT(40)
<1>3. With(h, Serving!Closed) = h
  BY DEF With, Serving!WritePending, Serving!Closed
<1>4. s # Serving!Closed => Session(p, s, Serving!Closed, With(q, s), h)
  <2> HIDE DEF s, c, in, go
  <2> QED BY <1>1, <1>2, PeerIsGone
<1>5. s # Serving!Closed => Session(p, s, Serving!Closed, With(q, s), With(h, Serving!Closed))
  BY <1>3, <1>4
<1>6. ~Serving!Closed.reading /\ Serving!Closed.load = "none"
  BY DEF Serving!Closed
<1>7. file' \in Things /\ file' = file
  BY OfThePeer
<1> QED BY <1>5, <1>6, <1>7, ClosedType, ThePeersEnd

LEMMA PeerReadKeeps ==
  ASSUME SessionsInv, OneKeeper, NEW p \in Serving!Peers, Serving!PeerRead(p)
  PROVE  SessionsInv'
<1> DEFINE s == srv[p]
           c == cli[p]
           q == toC[p]
           h == toS[p]
<1>0. PICK news \in BOOLEAN :
        cli' = [cli EXCEPT ![p] = Understood(p, c, Head(q), news)]
  BY DEF Serving!PeerRead, Understood
<1> DEFINE d == Understood(p, c, Head(q), news)
<1>1. /\ s \in End /\ c \in End /\ q \in Seq(Message) /\ h \in Seq(Message)
      /\ s # Serving!Closed => Session(p, s, c, With(q, s), With(h, c))
      /\ toS = [toS EXCEPT ![p] = h] /\ FileIsKept(p) /\ file \in Things
  BY OfThePeer
<1>2. /\ c.reading /\ q # <<>> /\ cli' = [cli EXCEPT ![p] = d] /\ toC' = [toC EXCEPT ![p] = Tail(q)]
      /\ UNCHANGED <<machine, n, srv, file>> /\ toS' = [toS EXCEPT ![p] = h]
  BY <1>0, <1>1 DEF Serving!PeerRead, Serving!Taken
<1>3. c.rcb \in PeerReads /\ c # Serving!Closed
  BY <1>1, <1>2 DEF FileIsKept, Serving!Closed
<1>4. /\ With(q, s) \in Seq(Message) /\ Len(With(q, s)) > 0
      /\ Serving!WritePending(s) => Len(With(q, s)) > 1
      /\ Head(With(q, s)) = Head(q) /\ Tail(With(q, s)) = With(Tail(q), s)
      /\ Tail(q) \in Seq(Message) /\ Head(q) \in Message /\ With(h, c) \in Seq(Message)
  BY <1>1, <1>2, OnTheWay
<1>5. d \in End
  <2> DEFINE e == [c EXCEPT !.reading = FALSE]
  <2>1. e \in End
    BY <1>1, OtherField
  <2>3. e.rcb = c.rcb
    BY <1>1 DEF End
  <2>2. Serving!AtPeer(p, e, Head(q), news) \in End
    <3>1. e.rcb \in PeerReads => \A m \in Message : \A new \in BOOLEAN : Serving!AtPeer(p, e, m, new) \in End
      BY <2>1, PeerTypes
    <3> QED BY <1>3, <1>4, <2>3, <3>1
  <2> QED BY <2>2, DriverKeepsTypes DEF Understood
<1>6. With(h, d) \in Seq(Message) /\ Grows(With(h, c), With(h, d), c, d)
  BY <1>1, <1>5, OnTheWay, ItGrows
<1>7. CASE d = Serving!Closed
  <2>1. cli' = [cli EXCEPT ![p] = Serving!Closed]
    BY <1>2, <1>7
  <2> QED BY <1>1, <1>2, <1>4, <2>1, PeerVanishes
<1>8. CASE d # Serving!Closed
  <2>1. s # Serving!Closed => Session(p, s, d, With(Tail(q), s), With(h, d))
    <3> DEFINE in == With(q, s)
               r == With(h, d)
               go == With(h, c)
    <3>1. /\ in \in Seq(Message) /\ r \in Seq(Message) /\ go \in Seq(Message)
          /\ s # Serving!Closed => Session(p, s, c, in, go)
          /\ Attends(s, c, in) /\ d = Understood(p, c, Head(in), news)
          /\ Grows(go, r, c, d) /\ Tail(in) = With(Tail(q), s)
      BY <1>1, <1>2, <1>4, <1>6 DEF Attends
    <3>2. s \in End /\ c \in End /\ d \in End
      BY <1>1, <1>5
    <3> HIDE DEF s, c, q, h, d, in, r, go
    <3>3. s # Serving!Closed => Session(p, s, d, Tail(in), r)
      BY <1>8, <3>1, <3>2, PeerAttends
    <3> QED BY <3>1, <3>3 DEF r
  <2>2. /\ d.reading => d.rcb \in PeerReads
        /\ d.load \in {"open", "write"} => p \notin Serving!Clones \/ c.load = d.load
        /\ d.load = "read" => c.load = "read"
    <3> DEFINE m == Head(q)
    <3>1. d = Understood(p, c, m, news) /\ c \in End /\ c.rcb \in PeerReads
      BY <1>1, <1>3
    <3> HIDE DEF s, c, q, h, d, m
    <3>2. KeptInOrder(p, c, d)
      BY <3>1, ReadsKeep
    <3> QED BY <3>2 DEF KeptInOrder
  <2>3. s # Serving!Closed => d.load # "read"
    <3> SUFFICES ASSUME s # Serving!Closed PROVE d.load # "read"
      OBVIOUS
    <3>1. Session(p, s, c, With(q, s), With(h, c))
      BY <1>1
    <3>2. Placed(p, c)
      BY <1>3, <3>1, Places
    <3>3. c.load # "read"
      BY <1>2, <3>2, PlacesLoad DEF Loads
    <3> QED BY <2>2, <3>3
  <2>4. d.load \in {"open", "write"} => p \notin Serving!Clones
    BY <1>1, <2>2 DEF FileIsKept
  <2>5. file' \in Things /\ file' = file
    BY <1>1, <1>2
  <2> HIDE DEF d
  <2> QED BY <1>1, <1>2, <1>4, <1>5, <2>1, <2>2, <2>3, <2>4, <2>5, ThePeersEnd
<1> QED BY <1>7, <1>8

LEMMA PeerWrittenKeeps ==
  ASSUME SessionsInv, OneKeeper, NEW p \in Serving!Peers, Serving!PeerWritten(p)
  PROVE  SessionsInv'
<1> DEFINE s == srv[p]
           c == cli[p]
           q == toC[p]
           h == toS[p]
           d == Delivered(c)
           go == With(h, c)
           in == With(q, s)
<1>1. /\ s \in End /\ c \in End /\ q \in Seq(Message) /\ h \in Seq(Message)
      /\ s # Serving!Closed => Session(p, s, c, in, go)
      /\ toC = [toC EXCEPT ![p] = q] /\ FileIsKept(p) /\ file \in Things
  BY OfThePeer
<1>2. /\ Serving!WritePending(c) /\ s # Serving!Closed /\ cli' = [cli EXCEPT ![p] = d]
      /\ toS' = [toS EXCEPT ![p] = Append(h, c.out)]
      /\ UNCHANGED <<machine, n, srv, file>> /\ toC' = [toC EXCEPT ![p] = q]
  BY <1>1 DEF Serving!PeerWritten, Delivered, Serving!Sent
<1>3. c # Serving!Closed
  BY <1>2 DEF Serving!Closed, Serving!WritePending
<1>4. go = Append(h, c.out) /\ go \in Seq(Message) /\ in \in Seq(Message)
  BY <1>1, <1>2, OnTheWay
<1>5. d \in End
  <2>1. [c EXCEPT !.out = Serving!Silence] \in End
    BY <1>1, SomeThings, OtherField
  <2> QED BY <2>1, PeerTypes, DriverKeepsTypes DEF Delivered
<1>6. Placed(p, c)
  BY <1>1, <1>2, <1>3, Places
<1>7. /\ d.reading => d.rcb \in PeerReads
      /\ d.load # "none" => d.load = c.load
  <2>1. c.wcb = "on_end_process_replied_write" => ~c.reading
    BY <1>2, <1>6, PlacesLoad DEF Serving!WritePending
  <2>2. c.reading => c.rcb \in PeerReads
    BY <1>1 DEF FileIsKept
  <2> QED BY <1>1, <2>1, <2>2, WritesKeep
<1>8. d.load # "read" /\ (d.load \in {"open", "write"} => p \notin Serving!Clones)
  <2>1. c.load # "read"
    BY <1>2, <1>6, PlacesLoad DEF Loads, Serving!WritePending
  <2> QED BY <1>1, <1>7, <2>1 DEF FileIsKept
<1>9. toS' = [toS EXCEPT ![p] = go] /\ file' \in Things /\ file' = file
  BY <1>1, <1>2, <1>4
<1>10. CASE d = Serving!Closed
  <2>1. cli' = [cli EXCEPT ![p] = Serving!Closed]
    BY <1>2, <1>10
  <2> QED BY <1>1, <1>2, <1>4, <1>9, <2>1, PeerVanishes
<1>11. CASE d # Serving!Closed
  <2> DEFINE r == With(go, d)
  <2>1. Session(p, s, d, in, r)
    <3>1. Session(p, s, c, in, go) /\ d = Delivered(c)
      BY <1>1, <1>2
    <3>2. r \in Seq(Message)
      BY <1>4, <1>5, OnTheWay
    <3> HIDE DEF s, c, q, h, d, in, go
    <3> QED BY <1>1, <1>2, <1>4, <1>5, <1>11, <3>1, <3>2, PeerWrites
  <2>2. Session(p, srv[p], d, With(q, srv[p]), With(go, d))
    BY <2>1
  <2> HIDE DEF d, go
  <2> QED BY <1>1, <1>2, <1>4, <1>5, <1>7, <1>8, <1>9, <2>2, ThePeersEnd
<1> QED BY <1>10, <1>11

\* A step of the peer that leaves the channels alone; what it writes may be new.
LEMMA PeerGoesOn ==
  ASSUME SessionsInv, OneKeeper, NEW p \in Serving!Peers, UNCHANGED <<machine, n, srv, toC, toS>>,
         file' \in Things, file' = file \/ p \notin Serving!Clones,
         NEW d \in End, cli' = [cli EXCEPT ![p] = d],
         srv[p] # Serving!Closed => Session(p, srv[p], d, With(toC[p], srv[p]), With(toS[p], d)),
         d.reading => d.rcb \in PeerReads, d.load \in {"open", "write"} => p \notin Serving!Clones,
         d.load = "read" /\ p \notin Serving!Clones /\ srv[p] # Serving!Closed => file' = Serving!TaskOf(d.n)
  PROVE  SessionsInv'
<1>1. /\ toC[p] \in Seq(Message) /\ toS[p] \in Seq(Message)
      /\ toC = [toC EXCEPT ![p] = toC[p]] /\ toS = [toS EXCEPT ![p] = toS[p]]
  BY OfThePeer
<1>2. /\ toC' = [toC EXCEPT ![p] = toC[p]] /\ toS' = [toS EXCEPT ![p] = toS[p]]
      /\ UNCHANGED <<machine, n, srv>>
  BY <1>1
<1> QED BY <1>1, <1>2, ThePeersEnd

LEMMA ReportKeeps ==
  ASSUME SessionsInv, OneKeeper, NEW p \in Serving!Peers, Serving!Report(p)
  PROVE  SessionsInv'
<1> DEFINE s == srv[p]
           c == cli[p]
           q == toC[p]
           h == toS[p]
           word == IF c.timer = "send" THEN "on" ELSE "off"
           d == Reporting(c, word)
           in == With(q, s)
           go == With(h, c)
           r == With(h, d)
<1>1. /\ s \in End /\ c \in End /\ q \in Seq(Message) /\ h \in Seq(Message)
      /\ s # Serving!Closed => Session(p, s, c, in, go)
      /\ FileIsKept(p) /\ file \in Things
  BY OfThePeer
<1>2. /\ c.timer # "off" /\ cli' = [cli EXCEPT ![p] = d]
      /\ UNCHANGED <<machine, n, srv, toC, toS, file>>
  BY DEF Serving!Report, Reporting
<1>3. d \in End
  <2>1. c.n \in Nat /\ c.loaded \in Things /\ "report" \in Types
    BY <1>1 DEF End, Types
  <2>2. Serving!Msg("report", c.n, c.loaded) \in Message
    BY <2>1, MessageType
  <2>3. /\ Serving!SetWrite(c, "on_peer_report_write") \in End
        /\ Serving!WriteAgain(c, Serving!Msg("report", c.n, c.loaded)) \in End
    BY <1>1, <2>2, DriverKeepsTypes DEF WriteCallbacks
  <2>4. word \in {"off", "on", "send"}
    OBVIOUS
  <2> HIDE DEF word
  <2> QED BY <2>3, <2>4, OtherField DEF Reporting
<1>4. d.n = c.n /\ d.load = c.load /\ d.rcb = c.rcb /\ d.reading = c.reading
  <2>1. d = Reporting(c, word)
    OBVIOUS
  <2> HIDE DEF d, word, c
  <2> QED BY <1>1, <2>1, ReportIsBegun
<1>5. s # Serving!Closed => Session(p, s, d, in, r)
  <2>1. in \in Seq(Message) /\ go \in Seq(Message) /\ r \in Seq(Message) /\ Grows(go, r, c, d)
    BY <1>1, <1>3, OnTheWay, ItGrows
  <2>2. d = Reporting(c, word)
    OBVIOUS
  <2> HIDE DEF s, c, q, h, word, d, in, go, r
  <2> QED BY <1>1, <1>2, <1>3, <2>1, <2>2, PeerReports
<1>6. srv[p] # Serving!Closed => Session(p, srv[p], d, With(toC[p], srv[p]), With(toS[p], d))
  BY <1>5
<1>7. /\ d.reading => d.rcb \in PeerReads
      /\ d.load \in {"open", "write"} => p \notin Serving!Clones
      /\ d.load = "read" /\ p \notin Serving!Clones /\ srv[p] # Serving!Closed => file' = Serving!TaskOf(d.n)
  BY <1>1, <1>2, <1>4 DEF FileIsKept
<1>8. file' \in Things /\ file' = file
  BY <1>1, <1>2
<1> HIDE DEF d
<1> QED BY <1>2, <1>3, <1>6, <1>7, <1>8, PeerGoesOn

\* The peer loads its file.
LEMMA LoadKeeps ==
  ASSUME SessionsInv, OneKeeper, NEW p \in Serving!Peers, UNCHANGED <<machine, n, srv, toC, toS>>,
         file' \in Things, file' = file \/ p \notin Serving!Clones, cli[p].load \in {"hash", "read"},
         NEW d \in End, cli' = [cli EXCEPT ![p] = d], d.n = cli[p].n,
         d.load \in {"none", "hash", "read"}, d.reading = cli[p].reading, d.rcb = cli[p].rcb,
         Loads(cli[p]) => Loaded(p, cli[p], d),
         d.load = "read" /\ p \notin Serving!Clones => file' = Serving!TaskOf(d.n)
  PROVE  SessionsInv'
<1> DEFINE s == srv[p]
           c == cli[p]
           q == toC[p]
           h == toS[p]
           in == With(q, s)
           go == With(h, c)
           r == With(h, d)
<1>1. /\ s \in End /\ c \in End /\ q \in Seq(Message) /\ h \in Seq(Message)
      /\ s # Serving!Closed => Session(p, s, c, in, go)
      /\ FileIsKept(p)
  BY OfThePeer
<1>2. c # Serving!Closed
  BY DEF Serving!Closed
<1>3. s # Serving!Closed => Session(p, s, d, in, r)
  <2>1. /\ in \in Seq(Message) /\ go \in Seq(Message) /\ r \in Seq(Message) /\ Grows(go, r, c, d)
        /\ Empty(in) => s.out = Serving!Silence
    BY <1>1, OnTheWay, ItGrows
  <2>2. s # Serving!Closed => Loads(c)
    BY <1>1, <1>2, Places, PlacesLoad
  <2>3. s # Serving!Closed => Loaded(p, c, d)
    BY <2>2
  <2>4. c.load \in {"hash", "read"}
    OBVIOUS
  <2> HIDE DEF s, c, q, h, in, go, r
  <2> QED BY <1>1, <2>1, <2>3, <2>4, LoadGoesOn
<1>4. srv[p] # Serving!Closed => Session(p, srv[p], d, With(toC[p], srv[p]), With(toS[p], d))
  BY <1>3
<1>5. d.reading => d.rcb \in PeerReads
  BY <1>1 DEF FileIsKept
<1> QED BY <1>4, <1>5, PeerGoesOn

\* It saves it.
LEMMA SaveKeeps ==
  ASSUME SessionsInv, OneKeeper, NEW p \in Serving!Peers, UNCHANGED <<machine, n, srv, toC, toS>>,
         file' \in Things, cli[p].load \in {"open", "write"},
         NEW d \in End, cli' = [cli EXCEPT ![p] = d], d.n = cli[p].n, d.load # "read",
         d.reading => d.rcb \in PeerReads, d.out = cli[p].out,
         Saves(p, cli[p]) => Saves(p, d) \/ OnFirst(p, d)
  PROVE  SessionsInv'
<1> DEFINE s == srv[p]
           c == cli[p]
           q == toC[p]
           h == toS[p]
           in == With(q, s)
           go == With(h, c)
<1>1. /\ s \in End /\ c \in End /\ q \in Seq(Message) /\ h \in Seq(Message)
      /\ s # Serving!Closed => Session(p, s, c, in, go)
      /\ FileIsKept(p)
  BY OfThePeer
<1>2. p \notin Serving!Clones
  BY <1>1 DEF FileIsKept
<1>3. s # Serving!Closed => Session(p, s, d, in, go)
  <2>1. in \in Seq(Message) /\ go \in Seq(Message)
    BY <1>1, OnTheWay
  <2>2. c.load \in {"open", "write"} /\ d.n = c.n /\ (Saves(p, c) => Saves(p, d) \/ OnFirst(p, d))
    OBVIOUS
  <2> HIDE DEF s, c, q, h, in, go
  <2> QED BY <1>1, <2>1, <2>2, SaveGoesOn
<1>4. With(h, d) = go
  BY DEF With, Serving!WritePending
<1>5. srv[p] # Serving!Closed => Session(p, srv[p], d, With(toC[p], srv[p]), With(toS[p], d))
  BY <1>3, <1>4
<1> QED BY <1>2, <1>5, PeerGoesOn

LEMMA FileStepKeeps ==
  ASSUME SessionsInv, OneKeeper, NEW p \in Serving!Peers, Serving!FileStep(p)
  PROVE  SessionsInv'
<1> DEFINE c == cli[p]
<1>1. /\ c \in End /\ FileIsKept(p) /\ file \in Things /\ toC[p] \in Seq(Message)
      /\ toS[p] \in Seq(Message) /\ c.loaded \in Things /\ c.n \in Nat
      /\ toC = [toC EXCEPT ![p] = toC[p]] /\ toS = [toS EXCEPT ![p] = toS[p]]
  BY OfThePeer DEF End
<1>2. ASSUME UNCHANGED <<machine, n, srv, toC, toS, file>>, cli' = [cli EXCEPT ![p] = Serving!Closed]
      PROVE  SessionsInv'
  <2>1. /\ toC' = [toC EXCEPT ![p] = toC[p]] /\ toS' = [toS EXCEPT ![p] = toS[p]]
        /\ UNCHANGED <<machine, n, srv, file>>
    BY <1>1, <1>2
  <2> QED BY <1>1, <1>2, <2>1, PeerVanishes
<1>3. CASE Serving!Hashed(p)
  <2> DEFINE d == [c EXCEPT !.load = "read"]
  <2>1. /\ cli' = [cli EXCEPT ![p] = d] /\ UNCHANGED <<machine, n, srv, toC, toS, file>>
        /\ c.load = "hash" /\ file = Serving!TaskOf(c.n)
    BY <1>3 DEF Serving!Hashed, Serving!HashAgrees
  <2>2. d \in End /\ d.n = c.n /\ d.load = "read" /\ d.reading = c.reading /\ d.rcb = c.rcb
    BY <1>1 DEF End
  <2>3. Loads(c) => Loaded(p, c, d)
    BY <1>1, FileLoads
  <2>4. file' \in Things /\ file' = file /\ file' = Serving!TaskOf(d.n) /\ UNCHANGED <<machine, n, srv, toC, toS>>
    BY <1>1, <2>1, <2>2
  <2> HIDE DEF d
  <2> QED BY <2>1, <2>2, <2>3, <2>4, LoadKeeps
<1>4. CASE Serving!Stale(p)
  <2>1. c.load \in {"hash", "read"} /\ UNCHANGED <<machine, n, srv, toC, toS>>
    BY <1>4 DEF Serving!Stale
  <2>2. CASE p \in Serving!Clones /\ c.load = "hash"
    <3>1. cli' = [cli EXCEPT ![p] = Serving!Closed] /\ UNCHANGED <<machine, n, srv, toC, toS, file>>
      BY <1>4, <2>2 DEF Serving!Stale
    <3> QED BY <1>2, <3>1
  <2>3. CASE p \in Serving!Clones /\ c.load = "read"
    <3> DEFINE d == [c EXCEPT !.load = "hash"]
    <3>1. cli' = [cli EXCEPT ![p] = d] /\ file' = file
      BY <1>4, <2>3 DEF Serving!Stale
    <3>2. d \in End /\ d.n = c.n /\ d.load = "hash" /\ d.reading = c.reading /\ d.rcb = c.rcb
      BY <1>1 DEF End
    <3>3. Loads(c) => Loaded(p, c, d)
      BY <1>1, FileLoads
    <3>4. file' \in Things
      BY <1>1, <3>1
    <3> HIDE DEF d
    <3> QED BY <2>1, <3>1, <3>2, <3>3, <3>4, LoadKeeps
  <2>4. CASE p \notin Serving!Clones
    <3> DEFINE d == Serving!AskForBulk(c)
    <3>1. cli' = [cli EXCEPT ![p] = d] /\ file' = Missing
      BY <1>4, <2>4 DEF Serving!Stale
    <3>2. d \in End
      <4>1. [c EXCEPT !.load = "none"] \in End
        BY <1>1, OtherField
      <4>2. Serving!Msg("good", c.n, "meta") \in Message
        BY <1>1, Words
      <4> QED BY <4>1, <4>2, DriverKeepsTypes DEF Serving!AskForBulk, WriteCallbacks
    <3>3. d.n = c.n /\ d.load = "none" /\ d.reading = c.reading /\ d.rcb = c.rcb
      BY <1>1 DEF Serving!AskForBulk, Serving!Write, Serving!WriteAgain, Serving!SetWrite, End
    <3>4. Loads(c) => Loaded(p, c, d)
      BY <1>1, FileLoads
    <3>5. file' \in Things
      BY <3>1, SomeThings
    <3> HIDE DEF d
    <3> QED BY <2>1, <2>4, <3>1, <3>2, <3>3, <3>4, <3>5, LoadKeeps
  <2> QED BY <2>1, <2>2, <2>3, <2>4
<1>5. CASE Serving!ReadFile(p)
  <2>1. UNCHANGED <<machine, n, srv, toC, toS, file>> /\ c.load = "read"
    BY <1>5 DEF Serving!ReadFile
  <2>2. CASE file = Partial
    <3>1. cli' = [cli EXCEPT ![p] = Serving!Closed]
      BY <1>5, <2>2 DEF Serving!ReadFile
    <3> QED BY <1>2, <2>1, <3>1
  <2>3. CASE file # Partial
    <3> DEFINE d == Serving!SkipBulk([c EXCEPT !.loaded = file])
    <3>1. cli' = [cli EXCEPT ![p] = d]
      BY <1>5, <2>3 DEF Serving!ReadFile
    <3>2. d \in End
      <4>1. [c EXCEPT !.loaded = file] \in End
        BY <1>1, OtherField
      <4>2. [[c EXCEPT !.loaded = file] EXCEPT !.load = "none"] \in End
        BY <4>1, OtherField
      <4>3. [c EXCEPT !.loaded = file].n = c.n
        BY <1>1 DEF End
      <4>4. Serving!Msg("skip", [c EXCEPT !.loaded = file].n, "meta") \in Message
        BY <1>1, <4>3, Words
      <4> QED BY <4>2, <4>4, DriverKeepsTypes DEF Serving!SkipBulk, WriteCallbacks
    <3>3. d.n = c.n /\ d.load = "none" /\ d.reading = c.reading /\ d.rcb = c.rcb
      BY <1>1 DEF Serving!SkipBulk, Serving!Write, Serving!WriteAgain, Serving!SetWrite, End
    <3>4. CASE srv[p] # Serving!Closed
      <4>1. p \notin Serving!Clones => file = Serving!TaskOf(c.n)
        BY <1>1, <2>1, <3>4 DEF FileIsKept
      <4>2. Loads(c) => Loaded(p, c, d)
        BY <1>1, <4>1, FileLoads
      <4>3. /\ file' \in Things /\ file' = file /\ c.load \in {"hash", "read"}
            /\ UNCHANGED <<machine, n, srv, toC, toS>>
        BY <1>1, <2>1
      <4> HIDE DEF d
      <4> QED BY <3>1, <3>2, <3>3, <4>2, <4>3, LoadKeeps
    <3>5. CASE srv[p] = Serving!Closed
      <4>1. /\ file' \in Things /\ file' = file /\ UNCHANGED <<machine, n, srv, toC, toS>>
        BY <1>1, <2>1
      <4>2. d.reading => d.rcb \in PeerReads
        BY <1>1, <3>3 DEF FileIsKept
      <4> HIDE DEF d
      <4> QED BY <3>1, <3>2, <3>3, <3>5, <4>1, <4>2, PeerGoesOn
    <3> QED BY <3>4, <3>5
  <2> QED BY <2>2, <2>3
<1>6. CASE Serving!OpenFile(p)
  <2> DEFINE d == [c EXCEPT !.load = "write"]
  <2>1. /\ cli' = [cli EXCEPT ![p] = d] /\ UNCHANGED <<machine, n, srv, toC, toS>>
        /\ c.load \in {"open", "write"} /\ file' = Partial
    BY <1>6 DEF Serving!OpenFile
  <2>2. /\ d \in End /\ d.n = c.n /\ d.load = "write" /\ d.reading = c.reading /\ d.rcb = c.rcb
        /\ d.out = c.out
    BY <1>1 DEF End
  <2>3. Saves(p, c) => Saves(p, d)
    BY <1>1, FileSaves
  <2>4. file' \in Things /\ (d.reading => d.rcb \in PeerReads) /\ d.load # "read"
    BY <1>1, <2>1, <2>2, SomeThings DEF FileIsKept
  <2> HIDE DEF d
  <2> QED BY <2>1, <2>2, <2>3, <2>4, SaveKeeps
<1>7. CASE Serving!WriteFile(p)
  <2> DEFINE d == Serving!Read([c EXCEPT !.load = "none"], "on_first_sync_read")
  <2>1. /\ cli' = [cli EXCEPT ![p] = d] /\ UNCHANGED <<machine, n, srv, toC, toS>>
        /\ c.load \in {"open", "write"} /\ file' = c.loaded
    BY <1>7 DEF Serving!WriteFile
  <2>2. d \in End
    <3>1. [c EXCEPT !.load = "none"] \in End
      BY <1>1, OtherField
    <3> QED BY <3>1, DriverKeepsTypes DEF ReadCallbacks
  <2>3. d.n = c.n /\ d.load # "read" /\ d.rcb = "on_first_sync_read" /\ d.out = c.out
    BY <1>1 DEF Serving!Read, Serving!ReadAgain, Serving!SetRead, End
  <2>4. Saves(p, c) => OnFirst(p, d)
    BY <1>1, FileSaves
  <2>5. file' \in Things /\ (d.reading => d.rcb \in PeerReads)
    BY <1>1, <2>1, <2>3 DEF PeerReads
  <2> HIDE DEF d
  <2> QED BY <2>1, <2>2, <2>3, <2>4, <2>5, SaveKeeps
<1> QED BY <1>3, <1>4, <1>5, <1>6, <1>7 DEF Serving!FileStep

LEMMA SessionConnects ==
  ASSUME SessionsInv, OneKeeper, NEW p \in Serving!Peers, Serving!Connect(p)
  PROVE  SessionsInv'
<1> DEFINE s == Serving!Read([Serving!Closed EXCEPT !.user = "peer_connection"], "on_version")
           c == Serving!Write([Serving!Closed EXCEPT !.user = "peer_connection"], Serving!Msg("version", 0, "none"),
                      "on_version_write")
<1>1. /\ srv' = [srv EXCEPT ![p] = s] /\ cli' = [cli EXCEPT ![p] = c]
      /\ toC' = [toC EXCEPT ![p] = <<>>] /\ toS' = [toS EXCEPT ![p] = <<>>]
      /\ machine' = machine /\ n' = n /\ file' = file
  BY DEF Serving!Connect
<1>2. [Serving!Closed EXCEPT !.user = "peer_connection"] \in End
  BY ClosedType, OtherField DEF Users
<1>3. s \in End
  BY <1>2, DriverKeepsTypes DEF ReadCallbacks
<1>4. c \in End
  <2>1. Serving!Msg("version", 0, "none") \in Message
    BY Words DEF Version
  <2> QED BY <1>2, <2>1, DriverKeepsTypes DEF WriteCallbacks
<1>5. ~c.reading /\ c.load = "none"
  BY DEF Serving!Closed, Serving!Write, Serving!WriteAgain, Serving!SetWrite
<1>6. file' \in Things
  BY <1>1, OfThePeer
<1>7. <<>> \in Seq(Message)
  OBVIOUS
<1>8. Session(p, s, c, With(<<>>, s), With(<<>>, c))
  BY Connected
<1> HIDE DEF s, c
<1> QED BY <1>1, <1>3, <1>4, <1>5, <1>6, <1>7, <1>8, OneConnection

\* The peer goes down, or notices that the server has.
LEMMA PeerGoneKeeps ==
  ASSUME SessionsInv, OneKeeper, NEW p \in Serving!Peers, Serving!Drop(p) \/ Serving!PeerError(p)
  PROVE  SessionsInv'
<1>1. /\ toC[p] \in Seq(Message) /\ toS[p] \in Seq(Message)
      /\ toC = [toC EXCEPT ![p] = toC[p]] /\ toS = [toS EXCEPT ![p] = toS[p]]
  BY OfThePeer
<1>2. /\ cli' = [cli EXCEPT ![p] = Serving!Closed] /\ UNCHANGED <<machine, n, srv, file>>
      /\ toC' = [toC EXCEPT ![p] = toC[p]] /\ toS' = [toS EXCEPT ![p] = toS[p]]
  BY <1>1 DEF Serving!Drop, Serving!PeerError
<1> QED BY <1>1, <1>2, PeerVanishes

-----------------------------------------------------------------------------
(* The invariant, and what it implies.                                     *)

LEMMA SessionsBegin ==
  ASSUME Serving!Init
  PROVE  SessionsInv
<1>1. SessionTypes
  <2>1. srv \in [Serving!Peers -> End] /\ cli \in [Serving!Peers -> End]
    BY ClosedType DEF Serving!Init
  <2>2. toC \in [Serving!Peers -> Seq(Message)] /\ toS \in [Serving!Peers -> Seq(Message)]
    BY DEF Serving!Init
  <2>3. machine \in Machines /\ n \in Nat /\ file \in Things
    BY SomeThings DEF Serving!Init
  <2> QED BY <2>1, <2>2, <2>3 DEF SessionTypes
<1>2. ASSUME NEW p \in Serving!Peers PROVE InSession(p) /\ FileIsKept(p)
  <2>1. srv[p] = Serving!Closed /\ cli[p] = Serving!Closed
    BY DEF Serving!Init
  <2> QED BY <2>1 DEF InSession, FileIsKept, Serving!Closed
<1> QED BY <1>1, <1>2 DEF SessionsInv

LEMMA SessionsGoOn ==
  ASSUME SessionsInv, OneKeeper, [Serving!Next]_(Serving!vars)
  PROVE  SessionsInv'
<1>1. CASE Serving!Activate \/ Serving!Deactivate
  BY <1>1, TasksComeAndGo
<1>2. ASSUME NEW p \in Serving!Peers, Serving!PeerStep(p) \/ Serving!ServerStep(p) \/ Serving!Report(p)
                                           \/ Serving!Sync(p) \/ Serving!Hold(p) \/ Serving!Drop(p)
      PROVE  SessionsInv'
  <2>1. CASE Serving!PeerRead(p)
    BY <2>1, PeerReadKeeps
  <2>2. CASE Serving!PeerWritten(p)
    BY <2>2, PeerWrittenKeeps
  <2>3. CASE Serving!FileStep(p)
    BY <2>3, FileStepKeeps
  <2>4. CASE Serving!Connect(p)
    BY <2>4, SessionConnects
  <2>5. CASE Serving!PeerError(p) \/ Serving!Drop(p)
    BY <2>5, PeerGoneKeeps
  <2>6. CASE Serving!ServerRead(p)
    BY <2>6, SessionServerReads
  <2>7. CASE Serving!ServerWritten(p)
    BY <2>7, SessionServerWrites
  <2>8. CASE Serving!RetryOnRead(p) \/ Serving!Sync(p) \/ Serving!Hold(p)
    BY <2>8, WorkKeeps
  <2>9. CASE Serving!StaleEcho(p) \/ Serving!ServerError(p)
    BY <2>9, GivenUp
  <2>10. CASE Serving!Report(p)
    BY <2>10, ReportKeeps
  <2> QED BY <1>2, <2>1, <2>2, <2>3, <2>4, <2>5, <2>6, <2>7, <2>8, <2>9, <2>10 DEF Serving!PeerStep,
             Serving!ServerStep
<1>3. CASE UNCHANGED Serving!vars
  <2>1. /\ machine' = machine /\ n' = n /\ srv' = srv /\ cli' = cli /\ toC' = toC /\ toS' = toS
        /\ file' = file
    BY <1>3 DEF Serving!vars
  <2>2. /\ SessionTypes /\ Serving!Peers' = Serving!Peers /\ Serving!Clones' = Serving!Clones /\ Things' = Things
        /\ Message' = Message /\ End' = End /\ \A i : Serving!TaskOf(i)' = Serving!TaskOf(i)
        /\ \A o, t, d, in, go : Session(o, t, d, in, go)' <=> Session(o, t, d, in, go)
    BY <2>1, SameMachine DEF SessionsInv
  <2>3. SessionTypes'
    BY <2>1, <2>2 DEF SessionTypes
  <2>4. ASSUME NEW p \in Serving!Peers PROVE InSession(p)' /\ FileIsKept(p)'
    <3>1. InSession(p) /\ FileIsKept(p)
      BY DEF SessionsInv
    <3>2. InSession(p)'
      BY <2>1, <2>2, <3>1 DEF InSession, Coming, Going, With, Serving!WritePending
    <3>3. FileIsKept(p)'
      BY <2>1, <2>2, <3>1 DEF FileIsKept
    <3> QED BY <3>2, <3>3
  <2>5. \A p \in Serving!Peers' : InSession(p)' /\ FileIsKept(p)'
    BY <2>2, <2>4
  <2> QED BY <2>3, <2>5 DEF SessionsInv
<1>4. Serving!Next =>
        \/ Serving!Activate \/ Serving!Deactivate
        \/ \E p \in Serving!Peers :
             Serving!PeerStep(p) \/ Serving!ServerStep(p) \/ Serving!Report(p) \/ Serving!Sync(p)
             \/ Serving!Hold(p) \/ Serving!Drop(p)
  BY DEF Serving!Next
<1> QED BY <1>1, <1>2, <1>3, <1>4

\* What has been sent is on its way.
LEMMA AllIsOnItsWay ==
  ASSUME NEW h \in Seq(Message), NEW e \in End, NEW m \in Serving!Range(h)
  PROVE  \E k \in 1..Len(With(h, e)) : m = With(h, e)[k]
<1>1. PICK k \in 1..Len(h) : m = h[k]
  BY DEF Serving!Range
<1>2. e.out \in Message /\ Len(h) \in Nat
  BY DEF End
<1>3. CASE Serving!WritePending(e)
  <2>1. With(h, e) = Append(h, e.out)
    BY <1>3 DEF With
  <2>2. Len(With(h, e)) = Len(h) + 1 /\ With(h, e)[k] = h[k]
    BY <1>2, <2>1, AppendFacts
  <2> QED BY <1>1, <1>2, <2>2
<1>4. CASE ~Serving!WritePending(e)
  BY <1>1, <1>4 DEF With
<1> QED BY <1>3, <1>4

\* An answer on its way is the one the server waits for.
LEMMA AnswersAreExpected ==
  ASSUME NEW p, NEW s \in End, NEW c, NEW in, NEW go \in Seq(Message), Session(p, s, c, in, go),
         NEW k \in 1..Len(go), go[k].type \in Serving!Answer
  PROVE  /\ s.rcb \in DOMAIN Serving!Expects => go[k].n = s.n /\ go[k].about = Serving!Expects[s.rcb]
         /\ s.rcb = "on_read_echo" => go[k].n = s.n
         /\ s.user # "peer_connection"
<1>0. Len(go) \in Nat /\ ~Empty(go)
  BY DEF Empty
<1>1. /\ "on_read_echo" \notin DOMAIN Serving!Expects /\ "on_read_report" \notin DOMAIN Serving!Expects
      /\ Serving!Expects["on_read_offer_response"] = "offer" /\ Serving!Expects["on_read_res_response"] = "res"
      /\ Serving!Expects["on_read_meta_response"] = "meta" /\ "none" \notin DOMAIN Serving!Expects
  BY DEF Serving!Expects
<1>2. ~AtGreeting(s, c, in, go) /\ ~AtWaiting(s, c, in, go)
  <2>1. ~One(go, Version) /\ ~One(go, Ready) /\ ~Two(go, Version, Ready)
    BY DEF One, Two, Version, Ready, Serving!Msg, Serving!Answer
  <2>2. ~OldReports(go)
    BY DEF OldReports, Serving!Answer
  <2> QED BY <1>0, <2>1, <2>2 DEF AtGreeting, AtWaiting
<1>3. ASSUME NEW about, Answered(s, go, about)
      PROVE  s.out = Serving!Silence /\ go[k].n = s.n /\ go[k].about = about
  BY <1>0, <1>3 DEF Answered, One, Serving!Msg
<1>4. \A i : /\ Serving!Msg("offer", i, "none") # Serving!Silence
             /\ Serving!Msg("res", i, "none") # Serving!Silence
             /\ Serving!Msg("meta", i, "none") # Serving!Silence
  BY DEF Serving!Msg, Serving!Silence
<1>5. CASE AtOffering(s, c, in, go)
  BY <1>1, <1>3, <1>4, <1>5 DEF AtOffering, Offering, Handing
<1>6. CASE AtResourcing(s, c, in, go)
  BY <1>1, <1>3, <1>4, <1>6 DEF AtResourcing, Resourcing, Handing
<1>7. CASE AtDescribing(p, s, c, in, go)
  BY <1>1, <1>3, <1>4, <1>7 DEF AtDescribing, Describing, Handing
<1>8. ~AtFilling(s, c, in, go)
  BY <1>0 DEF AtFilling
<1>9. CASE AtWorking(p, s, c, in, go)
  BY <1>1, <1>9 DEF AtWorking, Working, Reports, IsReport, Serving!Answer
<1>10. NoEcho(go, s.n) => go[k].n = s.n
  BY DEF NoEcho, Early, Serving!Answer
<1>11. Echoed(go, s.n) => go[k].n = s.n
  <2> SUFFICES ASSUME NEW l \in 1..Len(go), EchoAt(go, s.n, l) PROVE go[k].n = s.n
    BY DEF Echoed
  <2>1. CASE k < l
    BY <2>1 DEF EchoAt, Early, Serving!Answer
  <2>2. CASE k = l
    BY <2>2 DEF EchoAt
  <2>3. CASE k > l
    <3>1. go[k].type # "report"
      BY DEF Serving!Answer
    <3>2. Len(go) = l + 1 /\ go[l + 1] = Ready
      BY <2>3, <3>1 DEF EchoAt
    <3>3. k = l + 1
      BY <1>0, <2>3, <3>2
    <3> QED BY <3>2, <3>3 DEF Ready, Serving!Msg, Serving!Answer
  <2> QED BY <1>0, <2>1, <2>2, <2>3
<1>12. CASE AtEnding(p, s, c, in, go)
  BY <1>1, <1>10, <1>12 DEF AtEnding, Ending
<1>13. CASE AtEnded(p, s, c, in, go)
  BY <1>1, <1>10, <1>11, <1>13 DEF AtEnded, Ended
<1> QED BY <1>2, <1>5, <1>6, <1>7, <1>8, <1>9, <1>12, <1>13 DEF Session

LEMMA TheyFit ==
  ASSUME SessionsInv
  PROVE  Serving!AnswersFit
<1> SUFFICES ASSUME NEW p \in Serving!Peers, NEW m \in Serving!Range(toS[p]), m.type \in Serving!Answer
             PROVE  /\ srv[p].rcb \in DOMAIN Serving!Expects => m.n = srv[p].n /\ m.about = Serving!Expects[srv[p].rcb]
                    /\ srv[p].rcb = "on_read_echo" => m.n = srv[p].n
                    /\ srv[p].user # "peer_connection"
  BY DEF Serving!AnswersFit
<1> DEFINE go == With(toS[p], cli[p])
<1>1. /\ srv[p] \in End /\ cli[p] \in End /\ toS[p] \in Seq(Message)
      /\ srv[p] # Serving!Closed => Session(p, srv[p], cli[p], With(toC[p], srv[p]), go)
  BY OfThePeer
<1>2. CASE srv[p] = Serving!Closed
  BY <1>2 DEF Serving!Closed, Serving!Expects
<1>3. CASE srv[p] # Serving!Closed
  <2>1. go \in Seq(Message)
    BY <1>1, OnTheWay
  <2>2. PICK k \in 1..Len(go) : m = go[k]
    BY <1>1, AllIsOnItsWay
  <2>3. Session(p, srv[p], cli[p], With(toC[p], srv[p]), go) /\ go[k].type \in Serving!Answer
    BY <1>1, <1>3, <2>2
  <2> HIDE DEF go
  <2> QED BY <1>1, <2>1, <2>2, <2>3, AnswersAreExpected
<1> QED BY <1>2, <1>3

LEMMA TheyAreOfTheTask ==
  ASSUME SessionsInv
  PROVE  Serving!ReportsAreOfTheTask
<1> SUFFICES ASSUME NEW p \in Serving!Peers, NEW m \in Serving!Range(toS[p]), m.type = "report",
                    Serving!IsProcessing(p), p \notin Serving!Clones
             PROVE  m.n = srv[p].n /\ m.about = Serving!TaskOf(srv[p].n)
  BY DEF Serving!ReportsAreOfTheTask
<1> DEFINE go == With(toS[p], cli[p])
<1>1. /\ srv[p] \in End /\ cli[p] \in End /\ toS[p] \in Seq(Message)
      /\ srv[p] # Serving!Closed => Session(p, srv[p], cli[p], With(toC[p], srv[p]), go)
  BY OfThePeer
<1>2. srv[p] # Serving!Closed /\ srv[p].user = "processing_peer" /\ srv[p].rcb = "on_read_report"
  BY DEF Serving!Closed, Serving!IsProcessing
<1>3. AtWorking(p, srv[p], cli[p], With(toC[p], srv[p]), go)
  BY <1>1, <1>2, OnlyWorking
<1>4. PICK k \in 1..Len(go) : m = go[k]
  BY <1>1, AllIsOnItsWay
<1>5. IsReport(p, go[k], srv[p].n)
  BY <1>3 DEF AtWorking, Reports
<1> QED BY <1>4, <1>5 DEF IsReport

-----------------------------------------------------------------------------
(* The parts together.                                                     *)

LEMMA AllStart ==
  MCInit => Keepalives!Init /\ Updating!Init /\ Tasks!Init /\ Web!Init /\ Serving!Init
BY DEF MCInit

LEMMA AllStep ==
  ASSUME [MCNext]_everything
  PROVE  /\ [Keepalives!Next]_(Keepalives!vars) /\ [Updating!Next]_(Updating!vars)
         /\ [Tasks!Next]_(Tasks!vars) /\ [Web!Next]_(Web!vars) /\ [Serving!Next]_(Serving!vars)
<1>1. \/ Keepalives!Next
      \/ UNCHANGED driverVars
  BY DEF MCNext, everything
<1>2. \/ Updating!Next
      \/ UNCHANGED updateVars
  BY DEF MCNext, everything
<1>3. \/ Tasks!Next
      \/ UNCHANGED loadingVars
  BY DEF MCNext, everything
<1>4. \/ Web!Next
      \/ UNCHANGED webVars
  BY DEF MCNext, everything
<1>5. \/ Serving!Next
      \/ UNCHANGED sessionsVars
  BY DEF MCNext, everything
<1> QED BY <1>1, <1>2, <1>3, <1>4, <1>5 DEF driverVars, updateVars, loadingVars, webVars,
           sessionsVars, Keepalives!vars, Updating!vars, Tasks!vars, Web!vars, Serving!vars

LEMMA DriverHolds == MCSpec => []DriverInv
<1>1. MCInit => DriverInv
  BY AllStart, SidesAreTwo, TheyStart
<1>2. DriverInv /\ [MCNext]_everything => DriverInv'
  BY AllStep, SidesAreTwo, DriverStepKeeps
<1> QED BY <1>1, <1>2, PTL DEF MCSpec

LEMMA UpdateHolds == MCSpec => []UpdateInv
<1>1. MCInit => UpdateInv
  BY AllStart, AsInstalled, NetworkAssumption
<1>2. UpdateInv /\ [MCNext]_everything => UpdateInv'
  BY AllStep, UpdateStepKeeps, NetworkAssumption
<1> QED BY <1>1, <1>2, PTL DEF MCSpec

LEMMA SessionsHold == MCSpec => []SessionsInv
<1>1. MCInit => SessionsInv
  BY AllStart, SessionsBegin
<1>2. SessionsInv /\ [MCNext]_everything => SessionsInv'
  <2>1. OneKeeper
    BY NetworkAssumption DEF OneKeeper
  <2>2. [MCNext]_everything => [Serving!Next]_(Serving!vars)
    BY AllStep
  <2> QED BY <2>1, <2>2, SessionsGoOn
<1> QED BY <1>1, <1>2, PTL DEF MCSpec

\* Whatever an end writes and however long a write takes, its socket is never given a write
\* before the last one has ended, and no message that is to be written is forgotten
\* (io_driver.h, write and on_write_keepalive).
THEOREM WritesTakeTurns == MCSpec => []OneWriteAtATime
<1>1. DriverInv => OneWriteAtATime
  BY FlagsTakeTurns DEF OneWriteAtATime
<1> QED BY <1>1, DriverHolds, PTL

\* Four timeouts without a message are never counted of an end that is alive, although a
\* message that was written stands for a keepalive and either end may be a period ahead
\* (io_driver.h, on_keepalive_timeout).
THEOREM TheLivingAreKept == MCSpec => []AliveIsKept
<1>1. DriverInv => AliveIsKept
  BY DEF DriverInv, AliveIsKept
<1> QED BY <1>1, DriverHolds, PTL

\* Although answers look alike and a task may end, and the next begin, between any two messages,
\* the server takes no answer for that to another message or about another task, takes no
\* answer for the echo of end_process, and finds none left over after it, whatever peers,
\* clones, tasks and windows a machine has and however many connections are lost
\* (converger_1/server.h, the end_process handshake and its comment at 854).
THEOREM NoAnswerIsMistaken == MCSpec => []AnswersFit
<1>1. SessionsInv => AnswersFit
  BY TheyFit DEF AnswersFit
<1> QED BY <1>1, SessionsHold, PTL

\* What the instance that keeps bulk.msg reports to a task it has computed from the bulk of that
\* task, although the file may be cut short or of another task, be removed and written anew, and
\* the task may change while it is read (converger_1/processor.h, try_load_bulk_msg_from_file).
THEOREM ReportsBelongToTheTask == MCSpec => []ReportsAreOfTheTask
<1>1. SessionsInv => ReportsAreOfTheTask
  BY TheyAreOfTheTask DEF ReportsAreOfTheTask
<1> QED BY <1>1, SessionsHold, PTL

\* Whenever the power fails while the updater is replaced by its copy, or the copy by a
\* new one, a whole updater is there that the next start can launch (update_client.cc).
THEOREM OneUpdaterIsWhole == MCSpec => []UpdaterIsKept
<1>1. UpdateInv => UpdaterIsKept
  BY DEF UpdateInv, TheyTakeTurns, UpdaterIsKept, Updating!UpdaterIsKept
<1> QED BY <1>1, UpdateHolds, PTL

\* However sessions are cut short and files released in the middle of them, what
\* launch_processors starts is whole and at least what the server had listed.
THEOREM WhatRunsIsCurrent == MCSpec => []ProcessorsAreCurrent
<1>1. UpdateInv => ProcessorsAreCurrent
  BY DEF UpdateInv, ProcessorsAreCurrent
<1> QED BY <1>1, UpdateHolds, PTL

\* However often loading is cut short, by controllers or by the death of the server, what
\* pending.txt names can be loaded again, and a directory that it does not name is one
\* that a loader is still filling, or was when the server died (converger_1/server.h).
THEOREM DirectoriesHaveOwners == MCSpec => []DirectoriesAreAccountedFor
<1>1. MCInit => LoadingInv
  BY AllStart, NothingLoadedYet
<1>2. LoadingInv /\ [MCNext]_everything => LoadingInv'
  BY AllStep, LoadingStepKeeps
<1>3. LoadingInv => DirectoriesAreAccountedFor
  BY DEF LoadingInv, DirectoriesAreAccountedFor
<1> QED BY <1>1, <1>2, <1>3, PTL DEF MCSpec

\* Whichever of the browser, the server and the timers comes first, a connection of the web
\* front end does one thing at a time, asks the server for the request at hand only, and is
\* not cut off while it tells of an error (http/server.cc, abandon_cancel).
THEOREM BrowserIsAnswered == MCSpec => []AnswersInTurn
<1>1. MCInit => WebInv
  BY AllStart, WebStarts
<1>2. WebInv /\ [MCNext]_everything => WebInv'
  BY AllStep, WebStepKeeps
<1>3. WebInv => AnswersInTurn
  BY DEF WebInv, CancelIsAlone, AnswersInTurn, Web!AnswersInTurn
<1> QED BY <1>1, <1>2, <1>3, PTL DEF MCSpec
=============================================================================
