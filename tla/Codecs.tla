------------------------------- MODULE Codecs -------------------------------
(***************************************************************************)
(* The data types the library adds to protodef, in both of their           *)
(* implementations: the functions the interpreter calls (minecraft.js,     *)
(* lpVec3.js) and the code that is generated for the compiler              *)
(* (compiler-minecraft.js).  A packet is sized field by field, written     *)
(* into a buffer of that size that is not cleared, and read by a peer with *)
(* either implementation.                                                  *)
(*                                                                         *)
(* Bytes are scaled to Top + a group: 7 bits of a varint are 2 here, the   *)
(* 2^31 (2^63) of a varint (varlong) is Half.  Numbers of a fixed size     *)
(* take one cell.                                                          *)
(***************************************************************************)
EXTENDS Integers, Sequences

CONSTANTS
    Packets,   \* sequences of fields
    Junk,      \* what the cells of a new buffer may hold
    Half,      \* the numbers of a varint and of a varlong are -Half..Half - 1
    MaxGroups, \* groups of the longest of them: 5 (10)
    MaxSafe,   \* Number.MAX_SAFE_INTEGER
    MaxNbt     \* 65536

Impls == {"interpreted", "compiled"}

Group == 4             \* values of a group
Top == 4               \* the bit that says that more follows
Cells == 0..Top + Group - 1
Unwritten == -1

VARIABLES
    packet,  \* the fields
    writer,  \* implementation of the writing side
    reader,  \* implementation of the reading side
    stage,    \* sizing, writing, reading, done or thrown
    fill,    \* what the new buffer held
    buffer,  \* its cells
    cursor,  \* offset of the next field
    field,   \* its number
    got      \* the values read

packetVars == <<packet, writer, reader, stage, fill, buffer, cursor, field, got>>

(***************************************************************************)
(* A value: which of its forms it has, a number and a list.                *)
(***************************************************************************)
Val(kind, n, items) == [kind |-> kind, n |-> n, items |-> items]

Entry(key, n) == [key |-> key, n |-> n]

-----------------------------------------------------------------------------
(* protodef's varint *)

Unsigned(n) == n % (2 * Half)

Signed(u) == IF u >= Half THEN u - 2 * Half ELSE u

GroupsOf[u \in 0..2 * Half - 1] ==
    IF u < Group THEN <<u>> ELSE <<(u % Group) + Top>> \o GroupsOf[u \div Group]

Varint(n) == GroupsOf[Unsigned(n)]

Read(value, size) == [ok |-> TRUE, value |-> value, size |-> size]

Thrown == [ok |-> FALSE, value |-> Val("none", 0, <<>>), size |-> 0]

(* The number in the k cells of b up to end. *)
Number(b, end, k) ==
    LET sum[i \in 0..end] ==
            IF i = 0 THEN 0 ELSE (b[end - i + 1] % Group) + Group * sum[i - 1]
    IN  sum[k]

(* The value of a number, at the cells of b after the first at. *)
ReadVarint(b, at) ==
    LET ends == {k \in 1..MaxGroups : at + k <= Len(b) /\ b[at + k] < Top
                                      /\ \A j \in 1..k - 1 : b[at + j] >= Top}
        k == CHOOSE n \in ends : TRUE
    IN  IF at < 0 \/ ends = {} THEN Thrown
        ELSE Read(Val("number", Signed(Unsigned(Number(b, at + k, k))), <<>>), k)

ReadCell(b, at) ==
    IF at \in 0..Len(b) - 1 THEN Read(Val("number", b[at + 1], <<>>), 1) ELSE Thrown

(* buffer.readInt16BE of a value that takes one cell here. *)
Short(n) == n % (2 * Top)
ShortOf(cell) == IF cell >= Top THEN cell - 2 * Top ELSE cell

-----------------------------------------------------------------------------
(* Writing: the cells a field leaves *)

(* The first k of some sequences, one behind the other. *)
ConcatTo(seqs, k) ==
    LET all[i \in 0..Len(seqs)] == IF i = 0 THEN <<>> ELSE all[i - 1] \o seqs[i]
    IN  all[k]

Concat(seqs) == ConcatTo(seqs, Len(seqs))

EndVal == Top + Group - 1

EntryCells(e) == <<e.key>> \o Varint(e.n)

Topped(cells, set) == [cells EXCEPT ![1] = @ + (IF set THEN Top ELSE 0)]

TopBitArray(items) ==
    Concat([i \in DOMAIN items |-> Topped(EntryCells(items[i]), i < Len(items))])

VecDelta(v) ==
    Varint(2 * Len(v.items) + (IF v.kind = "ground" THEN 1 ELSE 0))
    \o IF v.items = <<>> THEN <<Short(v.n)>>
       ELSE Concat([i \in DOMAIN v.items |->
                Varint(v.items[i].key) \o <<Short(v.items[i].n)>>])

(***************************************************************************)
(* A tag of a payload of n cells, as an optional anonymous tag; and the    *)
(* same compressed.                                                        *)
(***************************************************************************)
Tag(v) == IF v.kind = "none" THEN <<0>> ELSE <<1>> \o [i \in 1..v.n |-> 2]

Gzip(v) == [i \in DOMAIN Tag(v) |-> EndVal - Tag(v)[i]]

(***************************************************************************)
(* The largest component is the scale; two of its bits are in the first    *)
(* cell and the rest, where there is more, in a varint.                    *)
(***************************************************************************)
Scale(v) == IF v.n < 0 THEN -v.n ELSE v.n

(* Fault: the marker of a multiple of four is left out. *)
LpVec3Unmarked(v) ==
    LET sign == IF v.n < 0 THEN 0 ELSE 2
    IN  CASE Scale(v) = 0 -> <<0>>
          [] Scale(v) \in 1..3 -> <<Scale(v), sign>>
          [] OTHER -> <<IF Scale(v) % 4 = 0 THEN 0 ELSE (Scale(v) % 4) + 4, sign>>
                      \o Varint(Scale(v) \div 4)

LpVec3(v) ==
    LET sign == IF v.n < 0 THEN 0 ELSE 2
    IN  CASE Scale(v) = 0 -> <<0>>
          [] Scale(v) \in 1..3 -> <<Scale(v), sign>>
          [] OTHER -> <<(Scale(v) % 4) + 4, sign>> \o Varint(Scale(v) \div 4)

(***************************************************************************)
(* The holder that is compiled steps over the cell of the 0.               *)
(***************************************************************************)
HolderZero(impl) == IF impl = "compiled" THEN <<Unwritten>> ELSE Varint(0)

Holder(impl, v) ==
    IF v.kind = "base" THEN Varint(v.n + 1) ELSE HolderZero(impl) \o Varint(v.n)

HolderSet(v) ==
    IF v.kind = "base" THEN Varint(0) \o Varint(v.n)
    ELSE Varint(Len(v.items) + 1)
         \o Concat([i \in DOMAIN v.items |-> Varint(v.items[i].n)])

OptionalVarInt(v) == Varint(IF v.kind = "none" THEN 0 ELSE v.n + 1)

VarLong(v) == Varint(v.n)

EntityMetadata(v) ==
    Concat([i \in DOMAIN v.items |-> EntryCells(v.items[i])]) \o <<EndVal>>

ClickActionNbt(v) == Varint(Len(Tag(v))) \o Tag(v)

CompressedNbt(v) ==
    IF v.kind = "none" THEN <<Short(-1)>> ELSE <<Short(Len(Gzip(v)))>> \o Gzip(v)

UUID(v) == <<v.n, v.n>>

RestBuffer(v) == [i \in DOMAIN v.items |-> v.items[i].key]

EncodeField(impl, f) ==
    LET v == f.value
    IN  CASE f.type = "optionalVarInt" -> OptionalVarInt(v)
          [] f.type = "varlong" -> VarLong(v)
          [] f.type = "registryEntryHolder" -> Holder(impl, v)
          [] f.type = "registryEntryHolderSet" -> HolderSet(v)
          [] f.type = "entityMetadataLoop" -> EntityMetadata(v)
          [] f.type = "topBitSetTerminatedArray" -> TopBitArray(v.items)
          [] f.type = "vecDelta" -> VecDelta(v)
          [] f.type = "clickActionNbt" -> ClickActionNbt(v)
          [] f.type = "compressedNbt" -> CompressedNbt(v)
          [] f.type = "lpVec3" -> LpVec3(v)
          [] f.type = "UUID" -> UUID(v)
          [] f.type = "restBuffer" -> RestBuffer(v)

(***************************************************************************)
(* What the writer returns as the next offset.  The compiled loop adds the *)
(* offset that the write of the end marker returns to the one it was at.   *)
(***************************************************************************)
After(impl, f, at) ==
    LET end == at + Len(EncodeField(impl, f))
    IN  IF impl = "compiled" /\ f.type = "entityMetadataLoop"
        THEN (end - 1) + end
        ELSE end

(***************************************************************************)
(* What the writers, and the sizes, refuse.                                *)
(***************************************************************************)
Refused(f) ==
    \/ f.type = "varlong" /\ f.value.kind = "number" /\ Scale(f.value) > MaxSafe
    \/ f.type = "clickActionNbt" /\ Len(Tag(f.value)) > MaxNbt
    \/ f.type = "compressedNbt" /\ f.value.kind # "none" /\ Len(Gzip(f.value)) >= Top

-----------------------------------------------------------------------------
(* Sizes *)

GroupCount[u \in 0..2 * Half - 1] ==
    IF u < Group THEN 1 ELSE 1 + GroupCount[u \div Group]

SizeOfVarint(n) == GroupCount[Unsigned(n)]

(* The sum of the first k of some numbers. *)
TotalTo(seq, k) ==
    LET sum[i \in 0..Len(seq)] == IF i = 0 THEN 0 ELSE sum[i - 1] + seq[i]
    IN  sum[k]

Total(seq) == TotalTo(seq, Len(seq))

EntrySizes(items) == [i \in DOMAIN items |-> 1 + SizeOfVarint(items[i].n)]

EntriesSize(items) == Total(EntrySizes(items))

SizeOfVecDelta(v) ==
    SizeOfVarint(2 * Len(v.items) + (IF v.kind = "ground" THEN 1 ELSE 0))
    + IF v.items = <<>> THEN 1
      ELSE Total([i \in DOMAIN v.items |-> SizeOfVarint(v.items[i].key) + 1])

SizeOfHolder(v) ==
    IF v.kind = "base" THEN SizeOfVarint(v.n + 1) ELSE 1 + SizeOfVarint(v.n)

SizeOfHolderSet(v) ==
    IF v.kind = "base" THEN 1 + SizeOfVarint(v.n)
    ELSE SizeOfVarint(Len(v.items) + 1)
         + Total([i \in DOMAIN v.items |-> SizeOfVarint(v.items[i].n)])

SizeOfOptionalVarInt(v) == SizeOfVarint(IF v.kind = "none" THEN 0 ELSE v.n + 1)

SizeOfClickActionNbt(v) == SizeOfVarint(Len(Tag(v))) + Len(Tag(v))

SizeOfCompressedNbt(v) == IF v.kind = "none" THEN 1 ELSE 1 + Len(Gzip(v))

SizeOfLpVec3(v) ==
    CASE Scale(v) = 0 -> 1
      [] Scale(v) \in 1..3 -> 2
      [] OTHER -> 2 + SizeOfVarint(Scale(v) \div 4)

SizeOf(f) ==
    LET v == f.value
    IN  CASE f.type = "optionalVarInt" -> SizeOfOptionalVarInt(v)
          [] f.type = "varlong" -> SizeOfVarint(v.n)
          [] f.type = "registryEntryHolder" -> SizeOfHolder(v)
          [] f.type = "registryEntryHolderSet" -> SizeOfHolderSet(v)
          [] f.type = "entityMetadataLoop" -> 1 + EntriesSize(v.items)
          [] f.type = "topBitSetTerminatedArray" -> EntriesSize(v.items)
          [] f.type = "vecDelta" -> SizeOfVecDelta(v)
          [] f.type = "clickActionNbt" -> SizeOfClickActionNbt(v)
          [] f.type = "compressedNbt" -> SizeOfCompressedNbt(v)
          [] f.type = "lpVec3" -> SizeOfLpVec3(v)
          [] f.type = "UUID" -> 2
          [] f.type = "restBuffer" -> Len(v.items)

-----------------------------------------------------------------------------
(* Reading: the value at an offset and its size *)

(* One value after another; what follows the first is read where it ended. *)
Then(first, Rest(_), Both(_, _)) ==
    IF ~first.ok THEN Thrown
    ELSE LET second == Rest(first.size)
         IN  IF second.ok
             THEN Read(Both(first.value, second.value), first.size + second.size)
             ELSE Thrown

ReadEntry(b, at) ==
    Then(ReadCell(b, at), LAMBDA k : ReadVarint(b, at + k),
         LAMBDA key, n : Entry(key.n, n.n))

Items(v) == Val("number", 0, v)

(***************************************************************************)
(* What a loop has read after a turn, and what it returns.                 *)
(***************************************************************************)
Reading(more, items, size) == [more |-> more, ok |-> TRUE, items |-> items, size |-> size]

NoItems == Reading(TRUE, <<>>, 0)

Failed == [more |-> FALSE, ok |-> FALSE, items |-> <<>>, size |-> 0]

Returned(r) == IF r.ok /\ ~r.more THEN Read(Items(r.items), r.size) ELSE Thrown

LoopTurn(b, at, r) ==
    LET cell == ReadCell(b, at + r.size)
        e == ReadEntry(b, at + r.size)
    IN  CASE ~r.more -> r
          [] r.more /\ ~cell.ok -> Failed
          [] r.more /\ cell.ok /\ cell.value.n = EndVal -> Reading(FALSE, r.items, r.size + 1)
          [] OTHER -> IF e.ok THEN Reading(TRUE, Append(r.items, e.value), r.size + e.size)
                      ELSE Failed

(* Each turn takes a cell or is the last. *)
ReadLoop(b, at) ==
    LET turn[i \in 0..Len(b) + 1] == IF i = 0 THEN NoItems ELSE LoopTurn(b, at, turn[i - 1])
    IN  Returned(turn[Len(b) + 1])

(* The top bit is taken off before the entry is read. *)
Cleared(b, at) == [b EXCEPT ![at + 1] = @ % Top]

TopBitTurn(b, at, r) ==
    LET cell == ReadCell(b, at + r.size)
        e == ReadEntry(Cleared(b, at + r.size), at + r.size)
    IN  IF ~r.more THEN r
        ELSE IF ~cell.ok \/ ~e.ok THEN Failed
        ELSE Reading(cell.value.n >= Top, Append(r.items, e.value), r.size + e.size)

ReadTopBit(b, at) ==
    LET turn[i \in 0..Len(b)] == IF i = 0 THEN NoItems ELSE TopBitTurn(b, at, turn[i - 1])
    IN  Returned(turn[Len(b)])

ReadStep(b, at) ==
    Then(ReadVarint(b, at), LAMBDA k : ReadCell(b, at + k),
         LAMBDA ticks, x : Entry(ticks.n, ShortOf(x.n)))

ReadHeldInt(b, at) ==
    LET r == ReadVarint(b, at)
    IN  IF r.ok THEN Read(Entry(0, r.value.n), r.size) ELSE Thrown

(***************************************************************************)
(* The loop over a number of values, of steps or of ids.                   *)
(***************************************************************************)
ReadOne(what, b, at) == IF what = "steps" THEN ReadStep(b, at) ELSE ReadHeldInt(b, at)

ListTurn(what, b, at, r) ==
    LET one == ReadOne(what, b, at + r.size)
    IN  IF r.ok /\ one.ok
        THEN Reading(FALSE, Append(r.items, one.value), r.size + one.size)
        ELSE Failed

ReadList(what, b, at, count) ==
    LET turn[i \in 0..count] ==
            IF i = 0 THEN Reading(FALSE, <<>>, 0) ELSE ListTurn(what, b, at, turn[i - 1])
    IN  IF count <= 0 THEN Read(Items(<<>>), 0) ELSE Returned(turn[count])

(***************************************************************************)
(* The header decides what follows; packed >>> 1 is never negative.        *)
(***************************************************************************)
ReadVecDelta(b, at) ==
    Then(ReadVarint(b, at),
         LAMBDA k :
             LET packed == Unsigned(ReadVarint(b, at).value.n)
             IN  IF packed \div 2 > 0 THEN ReadList("steps", b, at + k, packed \div 2)
                 ELSE ReadCell(b, at + k),
         LAMBDA head, rest :
             LET kind == IF head.n % 2 = 1 THEN "ground" ELSE "air"
             IN  IF Unsigned(head.n) \div 2 > 0
                 THEN Val(kind, Total([i \in DOMAIN rest.items |-> rest.items[i].n]), rest.items)
                 ELSE Val(kind, ShortOf(rest.n), <<>>))

(* A whole tag; the cells of another one are not a tag. *)
ReadTag(cells) ==
    CASE cells = <<0>> -> Read(Val("none", 0, <<>>), 1)
      [] cells # <<>> /\ cells = <<1>> \o [i \in 1..Len(cells) - 1 |-> 2] ->
             Read(Val("tag", Len(cells) - 1, <<>>), Len(cells))
      [] OTHER -> Thrown

(* The tag, in a coding of its own (a function on cells), behind its length. *)
ReadSized(length, decompress, b, at) ==
    IF ~length.ok THEN Thrown
    ELSE LET n == length.value.n
             start == at + length.size
             cells == SubSeq(b, start + 1, start + n)
             tag == ReadTag([i \in DOMAIN cells |-> decompress[cells[i]]])
         IN  IF n < 0 \/ start + n > Len(b) \/ ~tag.ok THEN Thrown
             ELSE Read(tag.value, length.size + n)

ReadClickActionNbt(b, at) ==
    LET length == ReadVarint(b, at)
    IN  IF length.ok /\ length.value.n > MaxNbt THEN Thrown
        ELSE ReadSized(length, [c \in Cells |-> c], b, at)

ReadCompressedNbt(b, at) ==
    LET cell == ReadCell(b, at)
        length == IF cell.ok THEN Read(Val("number", ShortOf(cell.value.n), <<>>), 1)
                  ELSE Thrown
    IN  IF length.ok /\ length.value.n = -1 THEN Read(Val("none", 0, <<>>), 1)
        ELSE ReadSized(length, [c \in Cells |-> EndVal - c], b, at)

ReadLpVec3(b, at) ==
    LET a == ReadCell(b, at)
        Sign(cell) == cell - 1
        more == ReadVarint(b, at + 2)
    IN  IF ~a.ok THEN Thrown
        ELSE IF a.value.n = 0 THEN Read(Val("number", 0, <<>>), 1)
        ELSE IF at + 2 > Len(b) THEN Thrown
        ELSE IF a.value.n < Top
             THEN Read(Val("number", Sign(b[at + 2]) * a.value.n, <<>>), 2)
        ELSE IF ~more.ok THEN Thrown
        ELSE Read(Val("number",
                      Sign(b[at + 2]) * (more.value.n * 4 + (a.value.n % 4)), <<>>),
                  2 + more.size)

ReadHolder(b, at) ==
    LET id == ReadVarint(b, at)
    IN  IF ~id.ok THEN Thrown
        ELSE IF id.value.n # 0 THEN Read(Val("base", id.value.n - 1, <<>>), id.size)
        ELSE Then(id, LAMBDA k : ReadVarint(b, at + k),
                  LAMBDA zero, v : Val("other", v.n, <<>>))

(***************************************************************************)
(* The loop that is compiled takes a negative count for an empty list.     *)
(***************************************************************************)
ReadHolderSet(impl, b, at) ==
    LET count == ReadVarint(b, at)
    IN  IF ~count.ok \/ (impl = "interpreted" /\ count.value.n < 0) THEN Thrown
        ELSE IF count.value.n = 0
             THEN Then(count, LAMBDA k : ReadVarint(b, at + k),
                       LAMBDA zero, v : Val("base", v.n, <<>>))
        ELSE Then(count, LAMBDA k : ReadList("ids", b, at + k, count.value.n - 1),
                  LAMBDA n, list : Val("other", 0, list.items))

Typed(r, Value(_)) == IF r.ok THEN Read(Value(r.value), r.size) ELSE Thrown

ReadOptionalVarInt(b, at) ==
    Typed(ReadVarint(b, at),
          LAMBDA v : IF v.n = 0 THEN Val("none", 0, <<>>) ELSE Val("number", v.n - 1, <<>>))

ReadVarLong(b, at) ==
    Typed(ReadVarint(b, at),
          LAMBDA v : IF Scale(v) <= MaxSafe THEN v ELSE Val("bigint", v.n, <<>>))

ReadUUID(b, at) ==
    IF at + 2 > Len(b) THEN Thrown ELSE Read(Val("dashed", b[at + 1], <<>>), 2)

ReadRestBuffer(b, at) ==
    LET n == Len(b) - at
    IN  IF n < 0 THEN Thrown
        ELSE Read(Items([i \in 1..n |-> Entry(b[at + i], 0)]), n)

DecodeField(impl, type, b, at) ==
    CASE type = "optionalVarInt" -> ReadOptionalVarInt(b, at)
      [] type = "varlong" -> ReadVarLong(b, at)
      [] type = "registryEntryHolder" -> ReadHolder(b, at)
      [] type = "registryEntryHolderSet" -> ReadHolderSet(impl, b, at)
      [] type = "entityMetadataLoop" -> ReadLoop(b, at)
      [] type = "topBitSetTerminatedArray" -> ReadTopBit(b, at)
      [] type = "vecDelta" -> ReadVecDelta(b, at)
      [] type = "clickActionNbt" -> ReadClickActionNbt(b, at)
      [] type = "compressedNbt" -> ReadCompressedNbt(b, at)
      [] type = "lpVec3" -> ReadLpVec3(b, at)
      [] type = "UUID" -> ReadUUID(b, at)
      [] type = "restBuffer" -> ReadRestBuffer(b, at)

(* The cells that started an entry of such an array are left without the bit. *)
LeftBy(f, b, at) ==
    LET Start(i) == at + TotalTo(EntrySizes(f.value.items), i - 1) + 1
        starts == {Start(i) : i \in DOMAIN f.value.items}
    IN  IF f.type = "topBitSetTerminatedArray"
        THEN [i \in DOMAIN b |-> IF i \in starts THEN b[i] % Top ELSE b[i]]
        ELSE b

-----------------------------------------------------------------------------
(* What a field may hold: no list, or nothing but a list. *)

Numbers == -Half..Half - 1
Shorts == -Top..Top - 1

Plain(kinds, ns) == [kind: kinds, n: ns, items: {<<>>}]

Lists(kinds, ns, keys, entries) ==
    [kind: kinds, n: ns, items: Seq([key: keys, n: entries])]

Values(type) ==
    CASE type = "optionalVarInt" -> Plain({"none"}, {0}) \cup Plain({"number"}, 0..Half - 2)
      [] type = "varlong" -> Plain({"number", "bigint"}, Numbers)
      [] type = "registryEntryHolder" ->
             Plain({"base"}, 0..Half - 2) \cup Plain({"other"}, Numbers)
      [] type = "registryEntryHolderSet" ->
             Plain({"base"}, Numbers)
             \cup {v \in Lists({"other"}, {0}, {0}, Numbers) : Len(v.items) + 1 < Half}
      [] type = "entityMetadataLoop" -> Lists({"number"}, {0}, Cells \ {EndVal}, Numbers)
      [] type = "topBitSetTerminatedArray" -> Lists({"number"}, {0}, 0..Top - 1, Numbers)
      [] type = "vecDelta" ->
             Plain({"air", "ground"}, Shorts)
             \cup {v \in Lists({"air", "ground"}, Int, Numbers, Shorts) :
                     /\ Len(v.items) \in 1..Half - 1
                     /\ v.n = Total([i \in DOMAIN v.items |-> v.items[i].n])}
      [] type \in {"clickActionNbt", "compressedNbt"} ->
             Plain({"none"}, {0}) \cup Plain({"tag"}, Nat)
      [] type = "lpVec3" -> Plain({"number"}, Int)
      [] type = "UUID" -> Plain({"dashed", "hex"}, Cells)
      [] type = "restBuffer" -> Lists({"number"}, {0}, Cells, {0})

Types == {"optionalVarInt", "varlong", "registryEntryHolder", "registryEntryHolderSet",
          "entityMetadataLoop", "topBitSetTerminatedArray", "vecDelta", "clickActionNbt",
          "compressedNbt", "lpVec3", "UUID", "restBuffer"}

Field == [type: Types, value: Lists(STRING, Int, Int, Int)]

(***************************************************************************)
(* A restBuffer takes what is left and is the last field of its packet.    *)
(***************************************************************************)
ASSUME CodecsAssumption ==
    /\ Half \in Nat \ {0}
    /\ MaxGroups \in Nat /\ Len(Varint(-1)) <= MaxGroups
    /\ MaxSafe \in Nat
    /\ MaxNbt \in 0..Half - 1
    /\ Junk \subseteq Cells
    /\ \A p \in Packets :
          /\ p \in Seq(Field) /\ p # <<>>
          /\ \A i \in DOMAIN p : p[i].value \in Values(p[i].type)
          /\ \A i \in 1..Len(p) - 1 : p[i].type # "restBuffer"

-----------------------------------------------------------------------------
(* A packet on its way *)

CodecsInit ==
    /\ packet \in Packets
    /\ writer \in Impls /\ reader \in Impls
    /\ stage = "sizing"
    /\ fill \in Junk
    /\ buffer = <<>> /\ cursor = 0 /\ field = 1 /\ got = <<>>

(***************************************************************************)
(* createPacketBuffer: the size of all fields, and a buffer with whatever  *)
(* it held before.                                                         *)
(***************************************************************************)
FieldSizes == [i \in DOMAIN packet |-> SizeOf(packet[i])]

Size == Total(FieldSizes)

Allocate ==
    /\ stage = "sizing"
    /\ IF \E i \in DOMAIN packet : Refused(packet[i])
       THEN stage' = "thrown" /\ UNCHANGED buffer
       ELSE stage' = "writing" /\ buffer' = [i \in 1..Size |-> fill]
    /\ UNCHANGED <<packet, writer, reader, fill, cursor, field, got>>

(***************************************************************************)
(* A cell behind the end of the buffer is an error.                        *)
(***************************************************************************)
WriteField ==
    /\ stage = "writing"
    /\ LET f == packet[field]
           cells == EncodeField(writer, f)
           Cell(i) == IF i - cursor \in DOMAIN cells /\ cells[i - cursor] # Unwritten
                      THEN cells[i - cursor] ELSE buffer[i]
       IN  IF cursor + Len(cells) > Len(buffer)
           THEN stage' = "thrown" /\ UNCHANGED <<buffer, cursor, field>>
           ELSE /\ buffer' = [i \in DOMAIN buffer |-> Cell(i)]
                /\ IF field < Len(packet)
                   THEN /\ cursor' = After(writer, f, cursor)
                        /\ field' = field + 1
                        /\ UNCHANGED stage
                   ELSE cursor' = 0 /\ field' = 1 /\ stage' = "reading"
    /\ UNCHANGED <<packet, writer, reader, fill, got>>

ReadField ==
    /\ stage = "reading"
    /\ LET type == packet[field].type
           r == DecodeField(reader, type, buffer, cursor)
       IN  IF ~r.ok
           THEN stage' = "thrown" /\ UNCHANGED <<buffer, cursor, field, got>>
           ELSE /\ got' = Append(got, [type |-> type, value |-> r.value])
                /\ buffer' = LeftBy(got'[field], buffer, cursor)
                /\ cursor' = cursor + r.size
                /\ field' = field + 1
                /\ stage' = IF field = Len(packet) THEN "done" ELSE stage
    /\ UNCHANGED <<packet, writer, reader, fill>>

CodecsNext ==
    \/ Allocate
    \/ WriteField
    \/ ReadField

CodecsSpec == CodecsInit /\ [][CodecsNext]_packetVars

-----------------------------------------------------------------------------
(* Properties *)

(***************************************************************************)
(* What a value is when it is read: a varlong is a number where one is     *)
(* safe, a UUID has its dashes, a delta of steps is their sum.             *)
(***************************************************************************)
Canonical(f) ==
    LET v == f.value
    IN  CASE f.type = "varlong" ->
                 [f EXCEPT !.value.kind = IF Scale(v) <= MaxSafe THEN "number" ELSE "bigint"]
          [] f.type = "UUID" -> [f EXCEPT !.value.kind = "dashed"]
          [] OTHER -> f

(***************************************************************************)
(* Values the code does not carry: those are hazards of their own.  The    *)
(* reader of an array with a top bit expects an entry; a vector whose      *)
(* scale does not fit a signed varint comes back with the opposite signs;  *)
(* the compiled writer leaves out the 0 of an inline holder, and goes on   *)
(* at the wrong offset after a loop.                                       *)
(***************************************************************************)
Lost(i) ==
    LET f == packet[i]
    IN  \/ f.type = "topBitSetTerminatedArray" /\ f.value.items = <<>>
        \/ f.type = "lpVec3" /\ Scale(f.value) \div 4 >= Half
        \/ /\ writer = "compiled"
           /\ \/ f.type = "registryEntryHolder" /\ f.value.kind = "other"
              \/ f.type = "entityMetadataLoop" /\ i < Len(packet)

Carried == \A i \in DOMAIN packet : ~Lost(i)

(***************************************************************************)
(* Whatever mix of the two implementations the two sides use, and whatever *)
(* the buffer held before: a packet is read as it was written, to its last *)
(* cell, and is refused only for a value that is out of range.  sizeOf and *)
(* write agree field by field: the next field is written where the sizes   *)
(* of those before it end.                                                 *)
(***************************************************************************)
ReadsBack ==
    Carried =>
        /\ stage = "writing" => cursor = TotalTo(FieldSizes, field - 1)
        /\ stage = "done" =>
              /\ got = [i \in DOMAIN packet |-> Canonical(packet[i])]
              /\ cursor = Len(buffer)
        /\ stage = "thrown" => \E i \in DOMAIN packet : Refused(packet[i])
=============================================================================
