----------------------------- MODULE BatchCodec -----------------------------
(***************************************************************************)
(* A transaction on its way from JavaScript to the core: the writes its    *)
(* callback stages (kv.ts, TransactionContext), the buffer they are packed *)
(* into (encodeBatch) and what the core makes of it (batch.rs, value.rs).  *)
(*                                                                         *)
(* A JavaScript string is the sequence of its UTF-16 code units, and a     *)
(* number the eight bytes of its double.                                   *)
(***************************************************************************)
EXTENDS Integers, Sequences, FiniteSets

Undefined == [kind |-> "undefined"]
Delete    == [kind |-> "delete"]
TypedKinds == {"string", "number", "boolean", "buffer", "json"}
Typed(kind, content) == [kind |-> kind, content |-> content]

-----------------------------------------------------------------------------
(***************************************************************************)
(* utf8Encode.  TextEncoder, where there is one, puts U+FFFD for half of a *)
(* surrogate pair; the loop that stands in for it encodes the half.        *)
(***************************************************************************)
IsHigh(unit) == 55296 <= unit /\ unit <= 56319
IsLow(unit)  == 56320 <= unit /\ unit <= 57343
IsHalf(unit) == IsHigh(unit) \/ IsLow(unit)

IsPair(text, i) == i < Len(text) /\ IsHigh(text[i]) /\ IsLow(text[i + 1])

CodePointAt(text, i) ==
    IF IsPair(text, i) THEN 65536 + 1024 * (text[i] - 55296) + (text[i + 1] - 56320)
                       ELSE text[i]

\* Every half belongs to a pair.
WellFormedText(text) ==
    \A i \in 1..Len(text) :
        /\ IsHigh(text[i]) => IsPair(text, i)
        /\ IsLow(text[i])  => i > 1 /\ IsPair(text, i - 1)

Continued(bits) == 128 + (bits % 64)

Utf8Bytes(point) ==
    IF point < 128 THEN <<point>>
    ELSE IF point < 2048 THEN <<192 + point \div 64, Continued(point)>>
    ELSE IF point < 65536
         THEN <<224 + point \div 4096, Continued(point \div 64), Continued(point)>>
    ELSE <<240 + point \div 262144, Continued(point \div 4096), Continued(point \div 64),
           Continued(point)>>

PointSent(text, textEncoder, i) ==
    IF textEncoder /\ IsHalf(CodePointAt(text, i)) THEN 65533 ELSE CodePointAt(text, i)

BytesAt(text, textEncoder, i) == Utf8Bytes(PointSent(text, textEncoder, i))

NextUnit(text, i) == i + (IF IsPair(text, i) THEN 2 ELSE 1)

\* Mutant: the loop does not skip the second half of a pair it has combined.
Utf8FromNoSkip(text, textEncoder) ==
    LET bytes[i \in 1..(Len(text) + 1)] ==
            IF i > Len(text) THEN <<>> ELSE BytesAt(text, textEncoder, i) \o bytes[i + 1]
    IN bytes

\* The bytes of the text from the i-th unit on.
Utf8From(text, textEncoder) ==
    LET bytes[i \in 1..(Len(text) + 1)] ==
            IF i > Len(text) THEN <<>>
            ELSE BytesAt(text, textEncoder, i) \o bytes[NextUnit(text, i)]
    IN bytes

Utf8(text, textEncoder) == Utf8From(text, textEncoder)[1]

-----------------------------------------------------------------------------
(***************************************************************************)
(* from_utf8 and the string JavaScript gets back.                          *)
(***************************************************************************)
Width(byte) == IF byte < 128 THEN 1 ELSE IF byte < 192 THEN 0
               ELSE IF byte < 224 THEN 2 ELSE IF byte < 240 THEN 3
               ELSE IF byte < 248 THEN 4 ELSE 0

IsContinued(byte) == 128 <= byte /\ byte <= 191

\* The code point that begins at i, or -1 where there is none.
PointAt(bytes, i) ==
    LET w == Width(bytes[i])
        bits(j) == bytes[i + j] - 128
        point == CASE w = 1 -> bytes[i]
                   [] w = 2 -> 64 * (bytes[i] - 192) + bits(1)
                   [] w = 3 -> 4096 * (bytes[i] - 224) + 64 * bits(1) + bits(2)
                   [] OTHER -> 262144 * (bytes[i] - 240) + 4096 * bits(1) + 64 * bits(2) + bits(3)
    IN IF /\ w # 0 /\ i + w - 1 <= Len(bytes)
          /\ \A j \in 1..(w - 1) : IsContinued(bytes[i + j])
          /\ point >= <<0, 128, 2048, 65536>>[w] /\ point <= 1114111 /\ ~IsHalf(point)
       THEN point ELSE -1

CodeUnits(point) ==
    IF point < 65536 THEN <<point>>
    ELSE <<55296 + (point - 65536) \div 1024, 56320 + ((point - 65536) % 1024)>>

\* From the i-th byte on: {the text}, or nothing.
TextsFrom(bytes) ==
    LET texts[i \in 1..(Len(bytes) + 1)] ==
            IF i > Len(bytes) THEN {<<>>}
            ELSE IF PointAt(bytes, i) = -1 THEN {}
            ELSE {CodeUnits(PointAt(bytes, i)) \o rest : rest \in texts[i + Width(bytes[i])]}
    IN texts

FromUtf8(bytes) == TextsFrom(bytes)[1]

-----------------------------------------------------------------------------
(***************************************************************************)
(* TransactionContext: a Map of the writes staged, in the order in which   *)
(* their keys came first.                                                  *)
(***************************************************************************)
StagedAt(staged, key) == {i \in 1..Len(staged) : staged[i].key = key}

StageWrite(staged, key, write) ==
    IF StagedAt(staged, key) = {} THEN Append(staged, [key |-> key, write |-> write])
    ELSE [i \in 1..Len(staged) |->
             IF staged[i].key = key THEN [key |-> key, write |-> write] ELSE staged[i]]

\* getString and its like: a value of another kind reads as undefined.
ReadAs(value, kind) == IF value.kind = kind THEN value ELSE Undefined

StagedRead(staged, stored, key, kind) ==
    IF StagedAt(staged, key) = {} THEN ReadAs(stored[key], kind)
    ELSE ReadAs(staged[CHOOSE i \in StagedAt(staged, key) : TRUE].write, kind)

StagedContains(staged, stored, key) ==
    IF StagedAt(staged, key) = {} THEN stored[key] # Undefined
    ELSE staged[CHOOSE i \in StagedAt(staged, key) : TRUE].write # Delete

-----------------------------------------------------------------------------
(***************************************************************************)
(* encodeBatch: a count, then for each write its kind and key and, unless  *)
(* it deletes, its tag and value; lengths are little-endian.               *)
(***************************************************************************)
U32(n) == <<n % 256, (n \div 256) % 256, (n \div 65536) % 256, (n \div 16777216) % 256>>

Tags == [string |-> 0, number |-> 1, boolean |-> 2, buffer |-> 3, json |-> 4]

EncodeValue(value, textEncoder) ==
    CASE value.kind \in {"string", "json"} -> Utf8(value.content, textEncoder)
      [] value.kind = "boolean"            -> <<IF value.content THEN 1 ELSE 0>>
      [] value.kind \in {"number", "buffer"} -> value.content

Sized(bytes) == U32(Len(bytes)) \o bytes

EncodeOp(op, textEncoder) ==
    LET key == Sized(Utf8(op.key, textEncoder))
    IN IF op.write = Delete THEN <<0>> \o key
       ELSE <<1>> \o key \o <<Tags[op.write.kind]>> \o Sized(EncodeValue(op.write, textEncoder))

\* The count and the first n writes.
Written(staged, textEncoder) ==
    LET written[n \in 0..Len(staged)] ==
            IF n = 0 THEN U32(Len(staged))
                     ELSE written[n - 1] \o EncodeOp(staged[n], textEncoder)
    IN written

EncodeBatch(staged, textEncoder) == Written(staged, textEncoder)[Len(staged)]

-----------------------------------------------------------------------------
(***************************************************************************)
(* decode_batch.  What a step of it reads is a set: empty when it refuses. *)
(***************************************************************************)
\* read_u32.
NumberAt(data, off) ==
    data[off + 1] + 256 * data[off + 2] + 65536 * data[off + 3] + 16777216 * data[off + 4]

\* advance: the bytes a length announces, and where they end.
ReadSized(data, off) ==
    IF off + 4 > Len(data) THEN {}
    ELSE LET end == off + 4 + NumberAt(data, off)
         IN IF end > Len(data) THEN {}
            ELSE {[bytes |-> SubSeq(data, off + 5, end), off |-> end]}

DecodeValue(tag, bytes) ==
    CASE tag = 0 -> {Typed("string", text) : text \in FromUtf8(bytes)}
      [] tag = 1 -> IF Len(bytes) = 8 THEN {Typed("number", bytes)} ELSE {}
      [] tag = 2 -> {Typed("boolean", b) : b \in {c \in BOOLEAN : bytes = <<IF c THEN 1 ELSE 0>>}}
      [] tag = 3 -> {Typed("buffer", bytes)}
      [] tag = 4 -> {Typed("json", text) : text \in FromUtf8(bytes)}
      [] OTHER   -> {}

DecodeWrite(data, off, kind) ==
    CASE kind = 0 -> {[write |-> Delete, off |-> off]}
      [] kind = 1 -> IF off >= Len(data) THEN {}
                     ELSE UNION {{[write |-> value, off |-> read.off] :
                                     value \in DecodeValue(data[off + 1], read.bytes)} :
                                 read \in ReadSized(data, off + 1)}
      [] OTHER    -> {}

DecodeOp(data, off) ==
    IF off >= Len(data) THEN {}
    ELSE UNION {UNION {{[op |-> [key |-> key, write |-> rest.write], off |-> rest.off] :
                           rest \in DecodeWrite(data, read.off, data[off + 1])} :
                       key \in FromUtf8(read.bytes)} :
                read \in ReadSized(data, off + 1)}

\* The first n of count writes, and where they end.
OpsRead(data, count) ==
    LET read[n \in 0..count] ==
            IF n = 0 THEN {[ops |-> <<>>, off |-> 4]}
            ELSE UNION {{[ops |-> Append(before.ops, next.op), off |-> next.off] :
                            next \in DecodeOp(data, before.off)} : before \in read[n - 1]}
    IN read

DecodeBatch(data) ==
    IF Len(data) < 4 THEN {}
    ELSE LET count == NumberAt(data, 0)
         IN {result.ops : result \in {r \in OpsRead(data, count)[count] : r.off = Len(data)}}

\* apply_ops: the map after n writes, and after the batch.
After(stored, ops) ==
    LET after[n \in 0..Len(ops)] ==
            IF n = 0 THEN stored
            ELSE [after[n - 1] EXCEPT ![ops[n].key] =
                     IF ops[n].write = Delete THEN Undefined ELSE ops[n].write]
    IN after

Committed(stored, ops) == After(stored, ops)[Len(ops)]
=============================================================================
