----------------------------- MODULE AawsMessage -----------------------------
(***************************************************************************)
(* DCS::aaws_message (src/websocket_demo/message/aaws_message.h): how a    *)
(* message is laid out by append_exh, append_option and submit, and how    *)
(* the receiver's accessors walk the bytes.                                *)
(*                                                                         *)
(* A payload is the head followed by parts, in the order in which they     *)
(* were appended.  Only the positions and lengths of the parts matter      *)
(* here, never the data: an accessor returns a range of bytes, and it is   *)
(* right if that is the range of the part it was asked for.  Reading a     *)
(* length where no header of the expected kind begins gives an Unknown     *)
(* one.  Lengths and places are cut to the widths of their fields and      *)
(* variables; _payload.size() is not.                                      *)
(*                                                                         *)
(* The receiver has the bytes of get_payload() at the time of sending,     *)
(* which may be at any time; the accessors are operators on them.  An      *)
(* accessor called on the sender's own object, whose head is not followed  *)
(* by the payload, has no meaning and is left out.                         *)
(***************************************************************************)
EXTENDS Integers, Sequences, SequencesExt

CONSTANTS
  Sizes,         \* the sizes of the data given to append_exh and append_option
  LenModulus,    \* 2 to the width of AAWS_EXH.len; 2^16 in the code
  CountModulus,  \* 2 to the width of exhcnt and optcnt; 2^8 in the code
  WordModulus,   \* 2 to the width of every other length; 2^32 in the code
  MaxParts       \* bounds the appended parts

ASSUME SizesAssumption == Sizes \subseteq Nat
ASSUME WidthsAssumption == LenModulus \in Nat \ {0} /\ CountModulus \in Nat \ {0}
ASSUME MaxPartsAssumption == MaxParts \in Nat

VARIABLES
  _header,     \* the sender's AAWS_HEAD
  _payload,    \* the parts after the head
  bytes,       \* _payload.size()
  head,        \* the bytes at the start of _payload
  submitted    \* history: the parts there were at the last submit

vars == <<_header, _payload, bytes, head, submitted>>

-----------------------------------------------------------------------------
(* sizeof.  A struct is a sequence of members with alignment and size.     *)

Bytes(n) == [align |-> 1, size |-> n]
U8  == Bytes(1)
U16 == [align |-> 2, size |-> 2]
U32 == [align |-> 4, size |-> 4]

Padded(n, align) == ((n + align - 1) \div align) * align

SizeOf(members) ==
  LET end[i \in 0 .. Len(members)] ==
        IF i = 0 THEN 0 ELSE Padded(end[i - 1], members[i].align) + members[i].size
  IN  Padded(end[Len(members)], Max({members[i].align : i \in DOMAIN members}))

AAWS_HEAD == <<Bytes(4), U32, U32, U8, U8, U8, U8, U32, U32, U32, U32, U32, Bytes(4)>>
AAWS_EXH  == <<U8, U16, Bytes(5)>>
AAWS_OPH  == <<U8, U8, Bytes(2), U32>>

HeadSize == SizeOf(AAWS_HEAD)
ExhSize  == SizeOf(AAWS_EXH)
OphSize  == SizeOf(AAWS_OPH)

ASSUME WordAssumption == WordModulus \in Nat /\ HeadSize < WordModulus

-----------------------------------------------------------------------------
Unknown   == -1
Unwritten == [kind |-> "unwritten"]
Kinds     == {"exh", "option"}

\* What is left of a number in a uint32_t.
Word(n) == n % WordModulus

SizeOfHeader(kind) == IF kind = "exh" THEN ExhSize ELSE OphSize

Words == 0 .. WordModulus - 1

Header == [payloadLen : Words, exhcnt : 0 .. CountModulus - 1, optcnt : 0 .. CountModulus - 1,
           exhlen : Words, optlen : Words]

\* `at' is where the part's header begins, `len' what that header says.
Part == [kind : Kinds, at : Nat, size : Sizes, len : Nat]

EndOf(part) == part.at + SizeOfHeader(part.kind) + part.size

TypeOK ==
  /\ _header \in Header
  /\ _payload \in Seq(Part)
  /\ bytes \in Nat
  /\ head \in Header \cup {Unwritten}
  /\ submitted \in Seq(Part) /\ IsPrefix(submitted, _payload)
  /\ \A i \in DOMAIN _payload :
       EndOf(_payload[i]) = IF i = Len(_payload) THEN bytes ELSE _payload[i + 1].at

\* The initial bytes of the head are copied from beyond a literal.
Init ==
  /\ _header = [payloadLen |-> 0, exhcnt |-> 0, optcnt |-> 0, exhlen |-> 0, optlen |-> 0]
  /\ _payload = <<>>
  /\ bytes = HeadSize
  /\ head = Unwritten
  /\ submitted = <<>>

-----------------------------------------------------------------------------
(* The sender.                                                             *)

Increment(n) == (n + 1) % CountModulus

\* Faulty variant: the place of the next part leaves no room for the header.
GrownByData(kind, size) == bytes + size

Grown(kind, size) == bytes + SizeOfHeader(kind) + size

AppendPart(kind, size, len) ==
  /\ Len(_payload) < MaxParts
  /\ _payload' = Append(_payload, [kind |-> kind, at |-> bytes, size |-> size, len |-> len])
  /\ bytes' = Grown(kind, size)
  /\ UNCHANGED <<head, submitted>>

AppendOption(size) ==
  /\ AppendPart("option", size, Word(size))
  /\ _header' = [_header EXCEPT !.optcnt = Increment(@), !.optlen = Word(@ + size + OphSize)]

\* Faulty variant: the length of the extended headers is that of their data.
AddExhData(length, size) == Word(length + size)

AddExh(length, size) == Word(length + size + ExhSize)

\* The length of the data is cut to the width of its field.
AppendExh(size) ==
  /\ AppendPart("exh", size, size % LenModulus)
  /\ _header' = [_header EXCEPT !.exhcnt = Increment(@), !.exhlen = AddExh(@, size)]

Complete(header) ==
  [header EXCEPT !.payloadLen = Word(HeadSize + header.exhlen + header.optlen)]

\* Faulty variant: the head is copied before its length is brought up to date.
CopyHeadEarly == head' = _header

CopyHead == head' = _header'

Submit ==
  /\ _header' = Complete(_header)
  /\ CopyHead
  /\ submitted' = _payload
  /\ UNCHANGED <<_payload, bytes>>

-----------------------------------------------------------------------------
(* The receiver.                                                           *)

\* The length that a header of the kind at this place would have.
ReadLen(kind, at) ==
  LET here == {i \in DOMAIN _payload : _payload[i].kind = kind /\ _payload[i].at = at}
  IN  IF here = {} THEN Unknown ELSE _payload[CHOOSE i \in here : TRUE].len

\* Faulty variant: the walk goes on behind the data's length.
NextPlaceUnheaded(kind, at) ==
  IF ReadLen(kind, at) = Unknown THEN Unknown ELSE Word(at + ReadLen(kind, at))

NextPlace(kind, at) ==
  IF ReadLen(kind, at) = Unknown THEN Unknown ELSE Word(at + ReadLen(kind, at) + SizeOfHeader(kind))

\* Where a walk over n headers that starts at base comes by.
Walk(kind, base, n) ==
  LET place[i \in 0 .. n] == IF i = 0 THEN base ELSE NextPlace(kind, place[i - 1])
  IN  place

ExhBase    == HeadSize
OptionBase == Word(HeadSize + head.exhlen)

\* The whole lists: get_exh, get_exh_payload and get_exh_8bit differ in the part
\* of the range they copy.
GetList(kind, base, n) ==
  LET place == Walk(kind, base, n)
  IN  [i \in 1 .. n |-> [at |-> place[i - 1], size |-> ReadLen(kind, place[i - 1])]]

GetExh    == GetList("exh", ExhBase, head.exhcnt)
GetOption == GetList("option", OptionBase, head.optcnt)

\* One extended header, by its index.
GetExhAt(id) ==
  LET at == Walk("exh", ExhBase, id)[id]
  IN  [at |-> at, size |-> ReadLen("exh", at)]

\* One option, by its index.  From the second header on, optH points to
\* ph + offset, and ph counts in heads.
GetOptionAt(id) ==
  LET first == [offset |-> OptionBase, optH |-> OptionBase]
      next(w) == LET len    == ReadLen("option", w.optH)
                     offset == IF len = Unknown THEN Unknown ELSE Word(w.offset + len + OphSize)
                 IN  [offset |-> offset, optH |-> HeadSize * offset]
      walk[i \in 0 .. id] == IF i = 0 THEN first ELSE next(walk[i - 1])
  IN  [at |-> walk[id].offset, size |-> ReadLen("option", walk[id].optH)]

-----------------------------------------------------------------------------
Next ==
  \/ \E size \in Sizes : AppendExh(size) \/ AppendOption(size)
  \/ Submit

Spec == Init /\ [][Next]_vars

-----------------------------------------------------------------------------
(* Safety.                                                                 *)

\* The parts of a kind, in their order.
OfKind(parts, kind) ==
  LET some[i \in 0 .. Len(parts)] ==
        IF i = 0 THEN <<>>
        ELSE IF parts[i].kind = kind THEN Append(some[i - 1], parts[i]) ELSE some[i - 1]
  IN  some[Len(parts)]

RangesOf(parts) == [i \in DOMAIN parts |-> [at |-> parts[i].at, size |-> parts[i].size]]

Exhs(parts)    == RangesOf(OfKind(parts, "exh"))
Options(parts) == RangesOf(OfKind(parts, "option"))

\* No length or count of the parts, and not the length of the whole, is too large
\* for its field.
FieldsFit(parts) ==
  /\ Len(Exhs(parts)) < CountModulus /\ Len(Options(parts)) < CountModulus
  /\ \A i \in DOMAIN parts : parts[i].kind = "exh" => parts[i].size < LenModulus
  /\ parts # <<>> => EndOf(Last(parts)) < WordModulus

\* The extended headers were appended before the options.
ExhsFirst(parts) ==
  \A i, j \in DOMAIN parts : parts[i].kind = "option" /\ parts[j].kind = "exh" => j < i

\* Whatever was appended in whatever order, the lengths in the header add up to
\* the payload, exactly while that fits their width and modulo it afterwards,
\* and the counts are those of the parts, modulo their width
\* (append_option and append_exh, message/aaws_message.h:195-229).
HeaderCountsPayload ==
  /\ bytes < WordModulus => bytes = HeadSize + _header.exhlen + _header.optlen
  /\ Word(bytes) = Word(HeadSize + _header.exhlen + _header.optlen)
  /\ _header.exhcnt = Len(Exhs(_payload)) % CountModulus
  /\ _header.optcnt = Len(Options(_payload)) % CountModulus

\* The length in a submitted head is that of the payload at that time, modulo the
\* width of the field, also for a message that is submitted again, or added to
\* and not submitted again
\* (submit, message/aaws_message.h:235-245).
SizeIsSubmitted ==
  head # Unwritten =>
    head.payloadLen = Word(IF submitted = <<>> THEN HeadSize ELSE EndOf(Last(submitted)))

\* Sender and receiver agree: if its parts came in the order the receiver
\* assumes and fit their fields, a submitted message gives back exactly the
\* ranges of the parts there were at the last submit, as lists and one by one,
\* also when more parts were appended before it was sent
\* (message/aaws_message.h:285-446).
RoundTrip ==
  head # Unwritten /\ ExhsFirst(submitted) /\ FieldsFit(submitted) =>
    /\ GetExh = Exhs(submitted)
    /\ GetOption = Options(submitted)
    /\ \A i \in DOMAIN GetExh : GetExhAt(i - 1) = GetExh[i]
    /\ GetOption # <<>> => GetOptionAt(0) = GetOption[1]

-----------------------------------------------------------------------------
(* What a comment of the source says and the code does not do.             *)

\* message/aaws_message.h:304-307: get_option(s, id) gives the option of index
\* id, with its header.
OptionAtAgrees ==
  head # Unwritten /\ ExhsFirst(submitted) /\ FieldsFit(submitted) =>
    \A i \in DOMAIN GetOption : GetOptionAt(i - 1) = GetOption[i]
=============================================================================
