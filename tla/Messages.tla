------------------------------ MODULE Messages -------------------------------
(***************************************************************************)
(* Messages (message.h).  The fields of a message register themselves, as  *)
(* they are constructed, in a list of the message; resizing an array of    *)
(* structures constructs and destroys fields in the middle of that list.   *)
(* to_wire and from_wire walk the list, the latter while it changes.  The  *)
(* wrappers hold the bytes.  Messages are objects that live on and are     *)
(* filled and read again and again.                                        *)
(***************************************************************************)
EXTENDS Integers, SequencesExt

CONSTANTS
  Fields,       \* kinds of the fields of a structure, by its place in the message
  Value,        \* what a scalar, or a place of an array, may hold
  MaxSize,      \* bound: elements of an array
  MaxMessages,  \* bound: messages in a run
  MaxCached,    \* write_wrapper and read_wrapper::max_cached
  HeaderSize,   \* bytes of the header, and of the size before a deflated payload
  BulkSizes     \* sizes of the bulk messages that are kept as bytes

ASSUME MessagesAssumption ==
  /\ MaxSize \in Nat /\ MaxMessages \in Nat
  /\ MaxCached \in Nat /\ HeaderSize \in Nat /\ HeaderSize <= MaxCached
  /\ BulkSizes \subseteq Nat

VARIABLES
  sender, receiver,   \* the message objects: the list of fields, and what each holds
  wire,               \* the inflated payload under way
  original,           \* history: the sender's message when it was written
  next,               \* from_wire: the field to be read next, 0 when none is
  offset,             \* from_wire: what has been read
  written,            \* write_raw: allocated_buffer_size and message_size
  read,               \* read_raw: the size of its buffer, and message_size
  last,               \* what was written last: "none", "meta", "message" or "bulk"
  messages            \* number of messages so far

vars == <<sender, receiver, wire, original, next, offset, written, read, last, messages>>

-----------------------------------------------------------------------------
(* A field is named by its path: the numbers of fields and of elements.    *)

\* The structure whose field a path leads to: the path without element numbers.
Structure(path) == [k \in 1 .. (Len(path) \div 2) |-> path[2 * k - 1]]
Kind(path) == Fields[Structure(path)][Last(path)]
Below(path, other) == Len(other) > Len(path) /\ SubSeq(other, 1, Len(path)) = path

FieldsOf(prefix, structure) ==
  [k \in DOMAIN Fields[structure] |-> Append(prefix, k)]

\* Scalars are not initialised; arrays are empty.
Blank(path) == CASE Kind(path) = "scalar" -> 0
                 [] Kind(path) = "array" -> <<>>
                 [] Kind(path) = "structs" -> 0

Object(list, holds) == [list |-> list, holds |-> holds]
NewMessage == LET list == FieldsOf(<<>>, <<>>)
              IN Object(list, [path \in ToSet(list) |-> Blank(path)])

\* Mutant of Behind: new fields are registered at the end of the list.
BehindAll(list, path) == Len(list)

\* The place behind which new fields are registered (fields_master.i).
Behind(list, path) == CHOOSE i \in DOMAIN list : list[i] = path

\* array<T, false>::buffer.reset: the old elements take their fields out of the list,
\* the new ones register theirs behind the field of the array.
Rebuilt(o, path, size) ==
  LET rest == SelectSeq(o.list, LAMBDA other : ~Below(path, other))
      at == Behind(rest, path)
      inner == Structure(path) \o <<Last(path)>>
      new == FlattenSeq([k \in 1 .. size |-> FieldsOf(Append(path, k), inner)])
      list == SubSeq(rest, 1, at) \o new \o SubSeq(rest, at + 1, Len(rest))
  IN Object(list, [other \in ToSet(list) |->
                     IF other = path THEN size
                     ELSE IF other \in ToSet(new) THEN Blank(other) ELSE o.holds[other]])

\* resize keeps the elements when their number does not change.
Resized(o, path, size) == IF o.holds[path] = size THEN o ELSE Rebuilt(o, path, size)

-----------------------------------------------------------------------------
(* The wrappers.                                                           *)

\* compress2 may need a little more than it is given.
Target(payload) == payload + 1 + HeaderSize

Grown(w, size) == [w EXCEPT !.allocated = IF size > @ THEN size ELSE @]

\* Mutant of Reset: a buffer that has grown is kept.
KeptBuffer(w) == [w EXCEPT !.size = 0]

\* write_wrapper::reset(), of every message that is written.
Reset(w) == [w EXCEPT !.allocated = IF @ > MaxCached THEN MaxCached ELSE @, !.size = 0]

\* write_wrapper::reset(new_message_size)
ResetTo(w, size) ==
  [allocated |-> IF w.allocated < size THEN size
                 ELSE IF w.allocated > MaxCached THEN MaxCached ELSE w.allocated,
   size |-> size]

\* read_wrapper: reset, then from_wire_peek.
Peeked(r, size) ==
  LET kept == IF r.size > MaxCached THEN MaxCached ELSE r.allocated
  IN [allocated |-> IF size > MaxCached THEN size ELSE kept, size |-> size]

-----------------------------------------------------------------------------
Wire(o, path) == CASE Kind(path) = "scalar" -> <<o.holds[path]>>
                   [] Kind(path) = "array" -> <<Len(o.holds[path])>> \o o.holds[path]
                   [] Kind(path) = "structs" -> <<o.holds[path]>>

ToWire(o) == FlattenSeq([i \in DOMAIN o.list |-> Wire(o, o.list[i])])

\* The program fills a message: scalars, arrays of numbers, arrays of structures.
Fill(path) ==
  /\ next = 0
  /\ \/ Kind(path) = "scalar" /\ \E v \in Value : sender' = [sender EXCEPT !.holds[path] = v]
     \/ Kind(path) = "array" /\ \E s \in BoundedSeq(Value, MaxSize) :
                                  sender' = [sender EXCEPT !.holds[path] = s]
     \/ Kind(path) = "structs" /\ \E size \in 0 .. MaxSize : sender' = Resized(sender, path, size)
  /\ UNCHANGED <<receiver, wire, original, next, offset, written, read, last, messages>>

\* io().write(msg): any message but the meta message may be larger than the buffer.
Write ==
  /\ next = 0 /\ messages < MaxMessages
  /\ messages' = messages + 1
  /\ wire' = ToWire(sender) /\ original' = sender
  /\ next' = 1 /\ offset' = 0
  /\ \E deflated \in {1, Len(ToWire(sender)) + 1} :
       LET w == Grown(Reset(written), Target(Len(ToWire(sender))))
       IN /\ written' = [w EXCEPT !.size = HeaderSize + deflated]
          /\ read' = Peeked(read, HeaderSize + deflated)
  /\ last' = IF Target(Len(ToWire(sender))) <= MaxCached THEN "meta" ELSE "message"
  /\ UNCHANGED <<sender, receiver>>

\* io().write(bulk_msg_wire), always after the meta message: bytes are copied as
\* they are.
WriteBulk ==
  /\ next = 0 /\ last = "meta"
  /\ \E size \in BulkSizes : written' = ResetTo(written, size) /\ read' = Peeked(read, size)
  /\ last' = "bulk"
  /\ UNCHANGED <<sender, receiver, wire, original, next, offset, messages>>

\* field_interface::from_wire of the next field in the receiver's list.
ReadField ==
  /\ next \in DOMAIN receiver.list
  /\ LET path == receiver.list[next]
         head == wire[offset + 1]
     IN CASE Kind(path) = "scalar" ->
               /\ receiver' = [receiver EXCEPT !.holds[path] = head]
               /\ offset' = offset + 1
          [] Kind(path) = "array" ->
               /\ receiver' = [receiver EXCEPT !.holds[path] =
                                 SubSeq(wire, offset + 2, offset + 1 + head)]
               /\ offset' = offset + 1 + head
          [] Kind(path) = "structs" ->
               /\ receiver' = Rebuilt(receiver, path, head)
               /\ offset' = offset + 1
  /\ next' = next + 1
  /\ UNCHANGED <<sender, wire, original, written, read, last, messages>>

Done ==
  /\ next > Len(receiver.list)
  /\ next' = 0 /\ offset' = 0 /\ wire' = <<>> /\ original' = NewMessage
  /\ UNCHANGED <<sender, receiver, written, read, last, messages>>

Init ==
  /\ sender = NewMessage /\ receiver = NewMessage /\ original = NewMessage
  /\ wire = <<>> /\ next = 0 /\ offset = 0 /\ messages = 0 /\ last = "none"
  /\ written = [allocated |-> MaxCached, size |-> 0]
  /\ read = [allocated |-> MaxCached, size |-> 0]

Next == Write \/ WriteBulk \/ ReadField \/ Done \/ \E path \in ToSet(sender.list) : Fill(path)
Spec == Init /\ [][Next]_vars

-----------------------------------------------------------------------------
\* A message arrives as it was sent, whatever its arrays held before on either side
\* and in whatever order they were resized; and no more is read than was written.
RoundTrip ==
  /\ next # 0 => offset <= Len(wire)
  /\ next > Len(receiver.list) => receiver = original /\ offset = Len(wire)

\* The buffers of both ends have room for the message they hold
\* (assert(allocated_buffer_size >= message_size), message.h:360).
BufferHolds == written.allocated >= written.size /\ read.allocated >= read.size
=============================================================================
