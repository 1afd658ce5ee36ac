---------------------------- MODULE SignalCodec -----------------------------
(***************************************************************************)
(* The wire format of the voice signalling: what pb_writer writes and how  *)
(* pb_reader reads it, one field after the other.                          *)
(*                                                                         *)
(* A message is a sequence of fields.  One that holds a session description*)
(* or a trickle is read by a nested reader, whose size is the length that  *)
(* the message claims, whatever has arrived.  A reader keeps the fields it *)
(* knows and must skip every other one, of any wire type, to its last byte:*)
(* what an unknown field holds may look like a field.                      *)
(*                                                                         *)
(* Memory behind the message may be read, and a number may be shifted too  *)
(* far; both are undefined.  The model notes it as stray, stops, and says  *)
(* nothing of what follows.                                                *)
(***************************************************************************)
EXTENDS Integers, SequencesExt

CONSTANTS
  Word,        \* uint64_t and size_t count modulo Word
  WordBytes,   \* the seven bit shifts that stay in a Word, 10 if it is 2^64
  IntWord,     \* int counts modulo IntWord
  Fields,      \* the fields a message may have: number, wire type and value
  Requests,    \* fields of the outer reader, with the parts of what they hold
  Messages     \* the messages the server may send: sequences of requests

(* Wire types: a number, eight bytes, a string or message, four bytes.     *)
Varint == 0
Fixed64 == 1
Bytes == 2
Fixed32 == 5

WriteVarint(v) ==
  LET write[n \in Nat] == IF n < 128 THEN <<n>> ELSE <<128 + (n % 128)>> \o write[n \div 128]
  IN  write[v]

WriteField(f) ==
  WriteVarint((f.num * 8) + f.wire)
    \o (CASE f.wire = Varint -> WriteVarint(f.value)
          [] f.wire = Bytes  -> WriteVarint(Len(f.value)) \o f.value
          [] OTHER           -> f.value)

Write(fields) == FlattenSeq([i \in DOMAIN fields |-> WriteField(fields[i])])

Sent(requests) == FlattenSeq([i \in DOMAIN requests |-> WriteField(requests[i].field)])

(* The answer, the offer and the trickle; and what is known in them: two   *)
(* strings, or a string and a number.                                      *)
Answer == 2
Offer == 3
Trickle == 4
IsNested(num, wire) == num \in {Answer, Offer, Trickle} /\ wire = Bytes
IsKnown(nest, num, wire) ==
  \/ num = 1 /\ wire = Bytes
  \/ num = 2 /\ wire = IF nest = Trickle THEN Varint ELSE Bytes

(* Lengths are below Word, keys are positive ints.  The join response and  *)
(* the published track have readers within their readers, and are left out.*)
ConstantsAssumption ==
  /\ Word \in Nat \ {0} /\ IntWord \in 1..Word
  /\ WordBytes \in Nat /\ \A v \in 0..(Word - 1) : Len(WriteVarint(v)) <= WordBytes
  /\ \A f \in Fields :
       /\ f.num \in Nat \ {0} /\ f.wire \in {Varint, Fixed64, Bytes, Fixed32}
       /\ (f.num * 8) + f.wire < IntWord
       /\ f.wire = Varint => f.value \in 0..(Word - 1)
       /\ f.wire # Varint => f.value \in Seq(0..255)
       /\ f.wire = Fixed64 => Len(f.value) = 8
       /\ f.wire = Fixed32 => Len(f.value) = 4
  /\ \A r \in Requests :
       /\ r.field \in Fields /\ r.field.num \notin {1, 6} /\ r.parts \in Seq(Fields)
       /\ IsNested(r.field.num, r.field.wire) => r.field.value = Write(r.parts)
  /\ \A m \in Messages : m \in Seq(Requests) /\ Len(Sent(m)) < Word
-----------------------------------------------------------------------------
VARIABLES
  message,   \* what the server sent
  data,      \* its bytes, cut off somewhere or complete
  offset,    \* of the outer reader
  nested,    \* the last nested reader: its field's number, where it begins,
             \* how long it is to be, and its offset
  got,       \* what is read of known fields: a string's bytes, or a number alone
  stray      \* something undefined was done

vars == <<message, data, offset, nested, got, stray>>

TypeOK ==
  /\ message \in Messages
  /\ data \in Seq(0..255)
  /\ offset \in Nat
  /\ nested \in [num : Nat, base : Nat, size : Nat, offset : Nat]
  /\ got \in Seq(Seq(Nat))
  /\ stray \in BOOLEAN

Init ==
  /\ message \in Messages
  /\ \E n \in 0..Len(Sent(message)) : data = SubSeq(Sent(message), 1, n)
  /\ offset = 0
  /\ nested = [num |-> 0, base |-> 0, size |-> 0, offset |-> 0]
  /\ got = <<>> /\ stray = FALSE

(* read_varint by a reader that begins at base: 0 if its size ends within. *)
(* No more than WordBytes bytes can be shifted into a number.              *)
ReadVarint(base, size, at) ==
  LET read[i \in 0..size] ==
        IF i = size THEN [end |-> "short", val |-> 0, next |-> i]
        ELSE IF base + i >= Len(data) THEN [end |-> "stray", val |-> 0, next |-> i]
        ELSE LET byte == data[base + i + 1] IN
          IF byte < 128 THEN [end |-> "whole", val |-> byte, next |-> i + 1]
          ELSE [read[i + 1] EXCEPT !.val = (@ * 128) + byte - 128]
      r == read[at]
  IN  [val |-> IF r.end = "whole" THEN r.val % Word ELSE 0, next |-> r.next,
       stray |-> r.end = "stray" \/ r.next - at > WordBytes]

(* read_string: an empty one, and no step, if it would end after the size. *)
ReadString(base, size, at) ==
  LET length == ReadVarint(base, size, at)
      end == (length.next + length.val) % Word
      from == base + length.next
  IN  IF end > size
      THEN [val |-> <<>>, next |-> length.next, stray |-> length.stray]
      ELSE IF from + length.val > Len(data)
      THEN [val |-> <<>>, next |-> end, stray |-> TRUE]
      ELSE [val |-> SubSeq(data, from + 1, from + length.val), next |-> end,
            stray |-> length.stray]

(* A number, as the int it is assigned to. *)
ReadInt(base, size, at) ==
  LET number == ReadVarint(base, size, at)
  IN  [val |-> <<number.val % IntWord>>, next |-> number.next, stray |-> number.stray]

(* Faulty: takes the length of a field for the field. *)
SkipFieldLength(wire, base, size, at) ==
  LET number == ReadVarint(base, size, at) IN
  CASE wire \in {Varint, Bytes} -> [next |-> number.next, stray |-> number.stray]
    [] wire = Fixed64 -> [next |-> (at + 8) % Word, stray |-> FALSE]
    [] wire = Fixed32 -> [next |-> (at + 4) % Word, stray |-> FALSE]
    [] OTHER          -> [next |-> at, stray |-> FALSE]

(* skip_field: the offset behind a field. *)
SkipField(wire, base, size, at) ==
  LET number == ReadVarint(base, size, at) IN
  CASE wire = Varint  -> [next |-> number.next, stray |-> number.stray]
    [] wire = Bytes   -> [next |-> (number.next + number.val) % Word, stray |-> number.stray]
    [] wire = Fixed64 -> [next |-> (at + 8) % Word, stray |-> FALSE]
    [] wire = Fixed32 -> [next |-> (at + 4) % Word, stray |-> FALSE]
    [] OTHER          -> [next |-> at, stray |-> FALSE]

(* A field's key, its number truncated to int. *)
ReadKey(base, size, at) ==
  LET key == ReadVarint(base, size, at)
  IN  [num |-> (key.val \div 8) % IntWord, wire |-> key.val % 8,
       next |-> key.next, stray |-> key.stray]

InNested == nested.offset < nested.size

(* A turn of the outer loop. *)
ReadRequest ==
  /\ ~stray /\ ~InNested /\ offset < Len(data)
  /\ LET key == ReadKey(0, Len(data), offset) IN
       \/ /\ IsNested(key.num, key.wire)
          /\ LET length == ReadVarint(0, Len(data), key.next) IN
               /\ nested' = [num |-> key.num, base |-> length.next, size |-> length.val,
                             offset |-> 0]
               /\ offset' = (length.next + length.val) % Word
               /\ stray' = (key.stray \/ length.stray)
       \/ /\ ~IsNested(key.num, key.wire)
          /\ LET skip == SkipField(key.wire, 0, Len(data), key.next) IN
               /\ offset' = skip.next
               /\ stray' = (key.stray \/ skip.stray)
          /\ nested' = nested
  /\ UNCHANGED <<message, data, got>>

(* A turn of the loop of a nested reader. *)
ReadField ==
  /\ ~stray /\ InNested
  /\ LET base == nested.base  size == nested.size
         key == ReadKey(base, size, nested.offset)
         Take(read) == /\ nested' = [nested EXCEPT !.offset = read.next]
                       /\ got' = Append(got, read.val)
                       /\ stray' = (key.stray \/ read.stray)
         skip == SkipField(key.wire, base, size, key.next)
     IN
       \/ /\ IsKnown(nested.num, key.num, key.wire)
          /\ Take(IF key.wire = Bytes THEN ReadString(base, size, key.next)
                  ELSE ReadInt(base, size, key.next))
       \/ /\ ~IsKnown(nested.num, key.num, key.wire)
          /\ nested' = [nested EXCEPT !.offset = skip.next]
          /\ got' = got
          /\ stray' = (key.stray \/ skip.stray)
  /\ UNCHANGED <<message, data, offset>>

Next == ReadRequest \/ ReadField

Spec == Init /\ [][Next]_vars /\ WF_vars(Next)
-----------------------------------------------------------------------------
(* What is to be kept of a field within another, of a request, and of all. *)
Kept(nest, f) ==
  IF ~IsKnown(nest, f.num, f.wire) THEN <<>>
  ELSE <<IF f.wire = Bytes THEN f.value ELSE <<f.value % IntWord>> >>
KeptOf(r) ==
  IF ~IsNested(r.field.num, r.field.wire) THEN <<>>
  ELSE FlattenSeq([i \in DOMAIN r.parts |-> Kept(r.field.num, r.parts[i])])
Known == FlattenSeq([i \in DOMAIN message |-> KeptOf(message[i])])

IsRead == ~InNested /\ offset >= Len(data)

(* The reader reads from a complete message what the writer wrote: every   *)
(* field it knows, in their order, whatever the fields between them hold;  *)
(* and it reads no byte behind it.                                         *)
WholeIsRead ==
  data = Sent(message) => /\ ~stray
                          /\ IsPrefix(got, Known)
                          /\ IsRead => got = Known /\ offset = Len(data)

(* Also of a message that was cut off it keeps nothing that was not sent,  *)
(* before it reads beyond the end.                                         *)
NothingElseIsRead == ~stray => IsPrefix(got, Known)

(* The loops end, or what follows is undefined. *)
ReaderEnds == <>(IsRead \/ stray)

(* A message is read to its end, and rightly if nothing of it is missing;  *)
(* no memory behind it is read unless it was cut off.                      *)
MessagesAreRead == [](TypeOK /\ WholeIsRead /\ NothingElseIsRead) /\ ReaderEnds
=============================================================================
