------------------------------- MODULE Nanopb -------------------------------
(***************************************************************************)
(* nanopb (pb_encode.c, pb_decode.c, pb_common.c), as it is built here:    *)
(* without PB_ENABLE_MALLOC, so pointer fields cannot be decoded and are   *)
(* left out.  A message is encoded, something may happen to its bytes, and *)
(* the decoder reads them, one field of one (sub)message at a step.        *)
(*                                                                         *)
(* A struct maps each tag to the items it holds: a has_ flag, a _count or  *)
(* a which_ member that says "absent" is an empty sequence.  A byte of a   *)
(* varint is a digit below Base, plus Base when more bytes follow.         *)
(***************************************************************************)
EXTENDS Integers, Sequences, FiniteSets, SequencesExt, FiniteSetsExt

CONSTANTS
  GroupBits,       \* 7: bits of a varint in a byte
  W32, W64,        \* the widths of uint32_t and uint64_t
  Len32, Len64,    \* the bytes of fixed32 and fixed64
  WordBits,        \* 32: the bits of a word of fields_seen
  Fields(_),       \* message type -> its pb_field_t array: [tag, rule, type,
                   \*   size, array, sub, oneof], with size a width, a number
                   \*   of bytes or the room for a string or bytes
  Messages,        \* [m, v]: what is encoded
  BufferSizes,
  MaxWobble        \* bound: how often a callback may write something else

VARIABLES
  phase,    \* "encode", "refused", "decode", "ok" or "failed"
  sent,     \* the messages encoded into the wire
  type,     \* and their type
  wire,     \* the bytes
  harm,     \* "none", "cut" or "flip": what happened to them
  pos,      \* how far they are read (pb_istream_t::state)
  stack     \* the running pb_decode_noinit calls: [m, v, left, seen, tag]

pbVars == <<phase, sent, type, wire, harm, pos, stack>>

Base == 2 ^ GroupBits
Varints == {"varint", "uvarint", "svarint"}
Packable == Varints \cup {"fixed32", "fixed64"}

Field(m, tag) == CHOOSE f \in ToSet(Fields(m)) : f.tag = tag
Tags(m) == {f.tag : f \in ToSet(Fields(m))}
Required(m) == SelectSeq(Fields(m), LAMBDA f : f.rule = "required")

RECURSIVE Default(_)
(* pb_message_set_to_defaults, pb_field_set_to_default *)
DefaultOf(f) ==
  IF f.rule \notin {"required", "singular", "ext"} \/ f.type = "callback"
    THEN <<>>
  ELSE IF f.type = "message" THEN <<Default(f.sub)>>
  ELSE IF f.type \in Packable THEN <<0>>
  ELSE IF f.type \in {"string", "bytes"} THEN << <<>> >>
  ELSE << [i \in 1 .. f.size |-> 0] >>
Default(m) == [t \in Tags(m) |-> DefaultOf(Field(m, t))]

-----------------------------------------------------------------------------
(* The encoder. *)

Groups(n) == Min({k \in 1 .. W64 : n < Base ^ k})
VarintBytes(n) ==
  [i \in 1 .. Groups(n) |->
     ((n \div Base ^ (i - 1)) % Base) + (IF i < Groups(n) THEN Base ELSE 0)]

WireType(f) ==
  CASE f.type \in Varints \cup {"callback"} -> 0
    [] f.type = "fixed64" -> 1
    [] f.type = "fixed32" -> 5
    [] OTHER -> 2
TagBytes(tag, wt) == VarintBytes(tag * 8 + wt)
Counted(bytes) == VarintBytes(Len(bytes)) \o bytes

(* A signed number with its sign in the lowest bit; numbers of n bytes, the  *)
(* lowest one first.                                                       *)
Zigzag(x) == IF x < 0 THEN -2 * x - 1 ELSE 2 * x
Unzigzag(x) == IF x % 2 = 1 THEN -(x \div 2) - 1 ELSE x \div 2
Fixed(x, n) == [i \in 1 .. n |-> (x \div (2 * Base) ^ (i - 1)) % (2 * Base)]
Fixed32(x) == Fixed(x, Len32)
Fixed64(x) == Fixed(x, Len64)
FixedOf(bytes) ==
  MapThenSumSet(LAMBDA i : bytes[i] * (2 * Base) ^ (i - 1), DOMAIN bytes)

ScalarBytes(f, x) ==
  CASE f.type \in {"varint", "uvarint"} -> VarintBytes(x % 2 ^ W64)
    [] f.type = "svarint" -> VarintBytes(Zigzag(x))
    [] f.type = "fixed32" -> Fixed32(x)
    [] f.type = "fixed64" -> Fixed64(x)
    [] OTHER -> Counted(x)

(* What a callback writes in the second, writing, pass over a submessage.   *)
Again(items, wobble) ==
  CASE wobble < 0 /\ items # <<>> -> Tail(items)
    [] wobble > 0 -> Append(items, wobble)
    [] OTHER -> items

(* ... and what it wrote of a message that is encoded in one pass. *)
Written(m, v, wobble) ==
  [t \in DOMAIN v |-> IF Field(m, t).type = "callback"
                         THEN Again(v[t], wobble) ELSE v[t]]

(* A proto3 field is left out when it has its default. *)
Present(f, v) ==
  f.rule = "singular" => v[f.tag] # DefaultOf(f)

RECURSIVE Encode(_, _, _)
(* pb_encode_submessage: the second pass must write what the first counted. *)
\* Mutant: the size counted by the first pass is trusted.
Submessage_Unchecked(f, x, wobble) ==
  LET size == Encode(f.sub, x, 0)
      body == Encode(f.sub, x, wobble)
  IN [ok |-> size.ok /\ body.ok, b |-> VarintBytes(Len(size.b)) \o body.b]
Submessage(f, x, wobble) ==
  LET size == Encode(f.sub, x, 0)
      body == Encode(f.sub, x, wobble)
  IN [ok |-> size.ok /\ body.ok /\ Len(body.b) = Len(size.b),
      b |-> VarintBytes(Len(size.b)) \o body.b]
ItemBytes(f, x, wobble) ==
  IF f.type = "message" THEN Submessage(f, x, wobble)
  ELSE [ok |-> f.type \in {"string", "bytes"} => Len(x) <= f.size,
        b |-> ScalarBytes(f, x)]
Tagged(f, x, wobble) ==
  [ok |-> ItemBytes(f, x, wobble).ok,
   b |-> TagBytes(f.tag, WireType(f)) \o ItemBytes(f, x, wobble).b]
Joined(parts) ==
  [ok |-> \A i \in DOMAIN parts : parts[i].ok,
   b |-> FlattenSeq([i \in DOMAIN parts |-> parts[i].b])]

(* encode_array: scalars are packed behind one tag. *)
Array(f, items, wobble) ==
  IF items = <<>> THEN [ok |-> TRUE, b |-> <<>>]
  ELSE IF f.type \in Packable
    THEN [ok |-> Len(items) <= f.array,
          b |-> TagBytes(f.tag, 2) \o
                  Counted(FlattenSeq([i \in DOMAIN items |->
                                        ScalarBytes(f, items[i])]))]
  ELSE LET all == Joined([i \in DOMAIN items |-> Tagged(f, items[i], wobble)])
       IN [all EXCEPT !.ok = @ /\ Len(items) <= f.array]

(* encode_callback_field: a callback that writes varints, each with a tag.  *)
CallbackField(f, items, wobble) ==
  [ok |-> TRUE,
   b |-> FlattenSeq([i \in DOMAIN Again(items, wobble) |->
                       TagBytes(f.tag, 0)
                         \o VarintBytes(Again(items, wobble)[i])])]

(* encode_basic_field *)
BasicField(f, v, wobble) ==
  IF f.rule = "repeated" THEN Array(f, v[f.tag], wobble)
  ELSE IF v[f.tag] = <<>> \/ ~Present(f, v) THEN [ok |-> TRUE, b |-> <<>>]
  ELSE Tagged(f, Head(v[f.tag]), wobble)

EncodeField(f, v, wobble) ==
  IF f.type = "callback" THEN CallbackField(f, v[f.tag], wobble)
  ELSE BasicField(f, v, wobble)
Encode(m, v, wobble) ==
  Joined([i \in DOMAIN Fields(m) |-> EncodeField(Fields(m)[i], v, wobble)])

-----------------------------------------------------------------------------
(* The streams of the decoder: r is [pos, left, ok, v]. *)

Stream(p, left) == [pos |-> p, left |-> left, ok |-> TRUE, v |-> 0]
Failed(r) == [r EXCEPT !.ok = FALSE]
Read(r, n) ==
  IF r.left < n THEN Failed(r)
  ELSE [pos |-> r.pos + n, left |-> r.left - n, ok |-> r.ok,
        v |-> SubSeq(wire, r.pos + 1, r.pos + n)]

LeastOf(a, b) == IF a < b THEN a ELSE b
Number(bytes) ==
  MapThenSumSet(LAMBDA i : (bytes[i] % Base) * Base ^ (i - 1), DOMAIN bytes)
(* A varint of at most n bytes. *)
VarintOf(r, n, bits) ==
  LET most == LeastOf(n, r.left)
      ends == {i \in 1 .. most : wire[r.pos + i] < Base}
      used == IF ends = {} THEN most ELSE Min(ends)
  IN [pos |-> r.pos + used, left |-> r.left - used, ok |-> r.ok /\ ends # {},
      v |-> Number(SubSeq(wire, r.pos + 1, r.pos + used)) % 2 ^ bits]
Varint(r, bits) == VarintOf(r, (bits + GroupBits - 1) \div GroupBits, bits)

ReadString(r) ==
  LET n == Varint(r, W32) IN IF n.ok THEN Read(n, n.v) ELSE n

(* pb_skip_field *)
SkipField(r, wt) ==
  CASE wt = 0 -> VarintOf(r, r.left, W64)
    [] wt = 1 -> Read(r, Len64)
    [] wt = 2 -> ReadString(r)
    [] wt = 5 -> Read(r, Len32)
    [] OTHER -> Failed(r)

Signed(x, bits) == IF x >= 2 ^ (bits - 1) THEN x - 2 ^ bits ELSE x
(* pb_dec_varint, pb_dec_uvarint, pb_dec_svarint: the number, before it is  *)
(* cast to the size of its field.                                          *)
Cast(f, x) ==
  CASE f.type = "uvarint" -> x
    [] f.type = "svarint" -> Unzigzag(x)
    [] f.size = W64 -> Signed(x, W64)
    [] OTHER -> Signed(x % 2 ^ W32, W32)
InRange(f, x) ==
  IF f.type = "uvarint" THEN x < 2 ^ f.size
  ELSE x \in -(2 ^ (f.size - 1)) .. 2 ^ (f.size - 1) - 1

\* Mutant: the room for a string is compared after it was read.
RoomFor_Any(f, n) == TRUE
RoomFor(f, n) == n <= f.size

Fixed32At(r) ==
  LET b == Read(r, Len32) IN IF b.ok THEN [b EXCEPT !.v = FixedOf(@)] ELSE b
Fixed64At(r) ==
  LET b == Read(r, Len64) IN IF b.ok THEN [b EXCEPT !.v = FixedOf(@)] ELSE b

(* The decoders of PB_DECODERS but pb_dec_submessage. *)
DecodeItem(f, r) ==
  IF f.type \in Varints
    THEN LET x == Varint(r, W64)
         IN [x EXCEPT !.v = Cast(f, x.v), !.ok = @ /\ InRange(f, Cast(f, x.v))]
  ELSE IF f.type = "fixed32" THEN Fixed32At(r)
  ELSE IF f.type = "fixed64" THEN Fixed64At(r)
  ELSE LET n == Varint(r, W32)
       IN IF ~n.ok THEN n
          ELSE IF f.type = "fixedbytes"
            THEN IF n.v = 0 THEN [n EXCEPT !.v = [i \in 1 .. f.size |-> 0]]
                 ELSE IF n.v = f.size THEN Read(n, n.v) ELSE Failed(n)
          ELSE IF RoomFor(f, n.v) THEN Read(n, n.v) ELSE Failed(n)

-----------------------------------------------------------------------------
(* pb_decode_noinit: one turn of its loop for the innermost message. *)

Top == stack[Len(stack)]
Frame(m, v, left, tag) ==
  [m |-> m, v |-> v, left |-> left, seen |-> {}, tag |-> tag]
TagRead == Varint(Stream(pos, Top.left), W32)
TagOf == TagRead.v \div 8
WireTypeOf == TagRead.v % 8
(* pb_decode_tag: no byte is left, also in the middle of a tag, or a zero.  *)
AtEof ==
  \/ Top.left = 0
  \/ ~TagRead.ok /\ TagRead.left = 0
  \/ TagRead.ok /\ TagRead.v = 0

Decoding == phase = "decode"
Fail ==
  /\ phase' = "failed"
  /\ UNCHANGED <<sent, type, wire, harm, pos, stack>>

BadTag == Decoding /\ ~AtEof /\ ~TagRead.ok /\ Fail

InField == Decoding /\ ~AtEof /\ TagRead.ok
(* pb_field_iter_find, then the extensions. *)
Known == InField /\ TagOf \in Tags(Top.m)
F == Field(Top.m, TagOf)
After == [TagRead EXCEPT !.v = 0]

Seen == IF F.rule = "required" THEN Top.seen \cup {F.tag} ELSE Top.seen
Put(r, v) ==
  /\ pos' = r.pos
  /\ stack' = [stack EXCEPT ![Len(stack)] =
                 [@ EXCEPT !.left = r.left, !.v = v,
                           !.seen = IF Known THEN Seen ELSE @]]
  /\ UNCHANGED <<phase, sent, type, wire, harm>>
PutIfRead(r, v) == IF r.ok THEN Put(r, v) ELSE Fail

Unknown ==
  /\ InField /\ ~Known
  /\ PutIfRead(SkipField(After, WireTypeOf), Top.v)

(* A member of a oneof takes the place of any other. *)
\* Mutant: the member that was there stays.
Stored_Both(f, v, items) == [v EXCEPT ![f.tag] = items]
Stored(f, v, items) ==
  [t \in DOMAIN v |->
     IF t = f.tag THEN items
     ELSE IF f.rule = "oneof" /\ Field(Top.m, t).rule = "oneof"
            THEN <<>> ELSE v[t]]

Plain ==
  /\ Known /\ F.type \notin {"message", "callback"}
  /\ F.rule # "repeated" \/ F.type \notin Packable \/ WireTypeOf # 2
  /\ LET r == DecodeItem(F, After)
         items == IF F.rule = "repeated" THEN Append(Top.v[F.tag], r.v)
                  ELSE <<r.v>>
     IN IF F.rule = "repeated" /\ Len(Top.v[F.tag]) >= F.array THEN Fail
        ELSE PutIfRead(r, Stored(F, Top.v, items))

(* The size of a substream; the parent goes on behind it. *)
Substream == LET n == Varint(After, W32)
             IN [n EXCEPT !.ok = @ /\ n.v <= n.left]
Behind(n) == [n EXCEPT !.pos = @ + n.v, !.left = @ - n.v]

(* Items read from a substream while it has bytes and there is room.        *)
ItemsOf(n, items, room, ItemOf(_)) ==
  LET Turn(s, i) ==
        IF ~s.r.ok \/ s.r.left = 0 \/ Len(s.items) >= room THEN s
        ELSE LET r == ItemOf(s.r)
             IN [r |-> r, items |-> IF r.ok THEN Append(s.items, r.v)
                                    ELSE s.items]
  IN FoldLeft(Turn, [r |-> Stream(n.pos, n.v), items |-> items],
              [i \in 1 .. n.v |-> i])

Packed ==
  /\ Known /\ F.rule = "repeated" /\ F.type \in Packable /\ WireTypeOf = 2
  /\ LET n == Substream
         s == ItemsOf(n, Top.v[F.tag], F.array, LAMBDA r : DecodeItem(F, r))
     IN IF n.ok /\ s.r.ok /\ s.r.left = 0
          THEN Put(Behind(n), Stored(F, Top.v, s.items)) ELSE Fail

(* The buffer of read_raw_value: a varint of any width. *)
ScalarBuffer == (W64 + GroupBits - 1) \div GroupBits
(* decode_callback_field, with a callback that reads a varint; it is given  *)
(* the bytes of a scalar, too, as a stream of their own.                   *)
Callback ==
  /\ Known /\ F.type = "callback"
  /\ IF WireTypeOf = 2
       THEN LET n == Substream
                s == ItemsOf(n, Top.v[F.tag], n.v + 1 + Len(Top.v[F.tag]),
                             LAMBDA r : Varint(r, W64))
            IN IF n.ok /\ n.v > 0 /\ s.r.ok
                 THEN Put(Behind(n), Stored(F, Top.v, s.items)) ELSE Fail
       ELSE LET r == SkipField(After, WireTypeOf)
                x == Varint(Stream(pos + (Top.left - After.left),
                                   After.left - r.left), W64)
            IN IF r.ok /\ x.ok
                    /\ After.left - r.left <= ScalarBuffer
                 THEN Put(r, Stored(F, Top.v, Append(Top.v[F.tag], x.v)))
                 ELSE Fail

(* pb_dec_submessage: an element of an array and a member of a oneof start  *)
(* from the defaults, another submessage from what is there.               *)
Start(f) ==
  IF f.rule \in {"repeated", "oneof"} \/ Top.v[f.tag] = <<>>
    THEN Default(f.sub) ELSE Head(Top.v[f.tag])
Enter ==
  /\ Known /\ F.type = "message"
  /\ LET n == Substream
     IN IF ~n.ok \/ (F.rule = "repeated" /\ Len(Top.v[F.tag]) >= F.array)
          THEN Fail
        ELSE /\ pos' = n.pos
             /\ stack' = Append(
                  [stack EXCEPT ![Len(stack)] =
                     [@ EXCEPT !.left = n.left - n.v, !.seen = Seen]],
                  Frame(F.sub, Start(F), n.v, F.tag))
             /\ UNCHANGED <<phase, sent, type, wire, harm>>

(* The check of fields_seen, word by word.  Shifting a word by all its bits *)
(* is undefined when the required fields fill their last word: both        *)
(* outcomes are possible.                                                  *)
AllSeen(m, seen) ==
  LET n == Len(Required(m))
      all == {Required(m)[i].tag : i \in 1 .. n}
  IN IF n > 0 /\ n % WordBits = 0 THEN {all \subseteq seen, FALSE}
     ELSE {all \subseteq seen}

(* The end of a message; pb_close_string_substream skips what is left.      *)
Leave ==
  /\ Decoding /\ AtEof
  /\ \E all \in AllSeen(Top.m, Top.seen) :
       IF ~all THEN Fail
       ELSE IF Len(stack) = 1
         THEN phase' = "ok" /\ UNCHANGED <<sent, type, wire, harm, pos, stack>>
       ELSE LET up == stack[Len(stack) - 1]
                f == Field(up.m, Top.tag)
                items == IF f.rule = "repeated"
                           THEN Append(up.v[f.tag], Top.v) ELSE <<Top.v>>
                clear == {t \in DOMAIN up.v :
                            /\ t # f.tag /\ f.rule = "oneof"
                            /\ Field(up.m, t).rule = "oneof"}
            IN /\ pos' = pos + Top.left
               /\ stack' = [SubSeq(stack, 1, Len(stack) - 1) EXCEPT
                    ![Len(stack) - 1].v =
                      [t \in DOMAIN @ |-> IF t = f.tag THEN items
                                          ELSE IF t \in clear THEN <<>>
                                          ELSE @[t]]]
               /\ UNCHANGED <<phase, sent, type, wire, harm>>

Step == BadTag \/ Unknown \/ Plain \/ Packed \/ Callback \/ Enter \/ Leave

-----------------------------------------------------------------------------
Init ==
  /\ phase = "encode" /\ sent = <<>> /\ wire = <<>> /\ harm = "none"
  /\ pos = 0 /\ stack = <<>>
  /\ type \in {x.m : x \in Messages}

(* pb_encode into a buffer; two encodings one behind the other are merged.  *)
DoEncode ==
  /\ phase = "encode" /\ Len(sent) < 2
  /\ \E x \in Messages, size \in BufferSizes,
        wobble \in -MaxWobble .. MaxWobble :
     \E e \in {Encode(x.m, x.v, wobble)} :
       /\ x.m = type
       /\ IF e.ok /\ Len(e.b) <= size
            THEN /\ wire' = wire \o e.b
                 /\ sent' = Append(sent, Written(x.m, x.v, wobble))
                 /\ UNCHANGED phase
            ELSE phase' = "refused" /\ UNCHANGED <<wire, sent>>
  /\ UNCHANGED <<type, harm, pos, stack>>

(* The bytes get through, are cut short, or one of them changes.            *)
Deliver ==
  /\ phase = "encode" /\ sent # <<>>
  /\ \/ UNCHANGED <<wire, harm>>
     \/ /\ Len(sent) = 1 /\ harm' = "cut"
        /\ \E n \in 0 .. Len(wire) - 1 : wire' = SubSeq(wire, 1, n)
     \/ /\ Len(sent) = 1 /\ harm' = "flip"
        /\ \E i \in DOMAIN wire, b \in 0 .. 2 * Base - 1 :
             wire' = [wire EXCEPT ![i] = b]
  /\ phase' = "decode"
  /\ stack' = <<Frame(type, Default(type), Len(wire'), 0)>>
  /\ UNCHANGED <<sent, type, pos>>

Next == DoEncode \/ Deliver \/ Step

-----------------------------------------------------------------------------
RECURSIVE Merged(_, _, _)
(* What protobuf says of a second message behind the first: single values   *)
(* are replaced, arrays grow, submessages are merged (nanopb replaces those *)
(* of a oneof).                                                            *)
MergedField(f, a, b, other) ==
  CASE f.rule = "repeated" \/ f.type = "callback" -> a[f.tag] \o b[f.tag]
    [] f.rule = "oneof" /\ other -> b[f.tag]
    [] f.rule = "singular" /\ ~Present(f, b) -> a[f.tag]
    [] f.type = "message" /\ a[f.tag] # <<>> /\ b[f.tag] # <<>> ->
         <<Merged(f.sub, Head(a[f.tag]), Head(b[f.tag]))>>
    [] OTHER -> IF b[f.tag] = <<>> THEN a[f.tag] ELSE b[f.tag]
Merged(m, a, b) ==
  LET one == \E f \in ToSet(Fields(m)) : f.rule = "oneof" /\ b[f.tag] # <<>>
  IN [t \in DOMAIN a |-> MergedField(Field(m, t), a, b, one)]

RECURSIVE Fits(_, _)
(* A struct holds no more than there is room for. *)
FitsItem(f, x) ==
  CASE f.type = "message" -> Fits(f.sub, x)
    [] f.type \in Varints -> InRange(f, x)
    [] f.type \in {"string", "bytes"} -> Len(x) <= f.size
    [] f.type = "fixedbytes" -> Len(x) = f.size
    [] OTHER -> TRUE
Fits(m, v) ==
  /\ \A f \in ToSet(Fields(m)) :
       /\ f.type # "callback" =>
            Len(v[f.tag]) <= IF f.rule = "repeated" THEN f.array ELSE 1
       /\ \A i \in DOMAIN v[f.tag] : FitsItem(f, v[f.tag][i])
  /\ \A f, g \in ToSet(Fields(m)) :
       f.rule = "oneof" /\ g.rule = "oneof" /\ f # g =>
         v[f.tag] = <<>> \/ v[g.tag] = <<>>

(* The substreams of nested messages tile the rest of the buffer, and no    *)
(* bytes, not even damaged ones, put more into a struct than fits.         *)
StaysInside ==
  phase \in {"decode", "ok"} =>
    /\ pos + MapThenSumSet(LAMBDA i : stack[i].left, DOMAIN stack) = Len(wire)
    /\ \A i \in DOMAIN stack : Fits(stack[i].m, stack[i].v)

(* What was encoded is decoded, two encodings in a row are merged, and the  *)
(* merged message is refused only when it does not fit.                    *)
RoundTrip ==
  phase \in {"ok", "failed"} /\ harm = "none" =>
    LET whole == IF Len(sent) = 1 THEN sent[1]
                 ELSE Merged(type, sent[1], sent[2])
    IN IF phase = "ok" THEN stack[1].v = whole ELSE ~Fits(type, whole)

(* A message cut short is only taken for one that lacks its last fields:    *)
(* no part of a field is taken for the whole.                              *)
CutIsNoticed ==
  phase = "ok" /\ harm = "cut" =>
    /\ \A f \in ToSet(Fields(type)) :
         LET v == stack[1].v[f.tag]
         IN v = DefaultOf(f) \/ IsPrefix(v, sent[1][f.tag])
    /\ {Required(type)[i].tag : i \in DOMAIN Required(type)}
         \subseteq stack[1].seen
=============================================================================
