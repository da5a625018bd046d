------------------------------- MODULE WireCodec -------------------------------
(***************************************************************************)
(* Common::PacketBuff (common.h, packetbuff.cpp) and the Reader and Writer   *)
(* of packets over it (reader.h, writer.h): what each kind of field is on    *)
(* the wire, byte by byte, and what is read back from there.                 *)
(*                                                                          *)
(* A field of fixed width is the tuple of its bytes, most significant first; *)
(* a variable-length integer is <<n>>; a string is the tuple of its bytes;   *)
(* an address is its version, its bytes and its port.                        *)
(*                                                                          *)
(* The 32 and 64 bits of a variable-length integer are scaled down: IntMod   *)
(* and LongMod stand for 2^32 and 2^64, IntGroups and LongGroups for the 5   *)
(* and 10 groups of 7 bits the reader accepts.  MaxString is UINT16_MAX.     *)
(***************************************************************************)
EXTENDS Integers, Sequences, SequencesExt

CONSTANTS IntMod, IntGroups, LongMod, LongGroups, MaxString

ASSUME WidthAssumption ==
    /\ IntGroups \in Nat \ {0} /\ 128^(IntGroups - 1) < IntMod /\ IntMod <= 128^IntGroups
    /\ LongGroups \in Nat \ {0} /\ 128^(LongGroups - 1) < LongMod
    /\ LongMod <= 128^LongGroups
    /\ IntMod % 2 = 0 /\ LongMod % 2 = 0 /\ MaxString \in Nat

--------------------------------------------------------------------------------
(* Results of a read: the value and what is left, or why it failed.          *)

Done(value, rest) == [error |-> "", value |-> value, rest |-> rest]
Short   == [error |-> "short", value |-> <<>>, rest |-> <<>>]
Refused == [error |-> "refused", value |-> <<>>, rest |-> <<>>]

\* PacketBuff::Read and ReadBytes throw when there are not enough bytes.
Take(n, s) == IF n > Len(s) THEN Short ELSE Done(SubSeq(s, 1, n), SubSeq(s, n + 1, Len(s)))

\* f applied to what was read, and the reading that goes on after it.
Map(r, f(_)) == IF r.error # "" THEN r ELSE Done(f(r.value), r.rest)
Then(r, next(_, _)) == IF r.error # "" THEN r ELSE next(r.value, r.rest)

--------------------------------------------------------------------------------
(* Variable-length integers.                                                *)

\* The groups of 7 bits of n, the lowest first, each but the last marked.
Groups[n \in Nat] == IF n < 128 THEN <<n>> ELSE <<128 + (n % 128)>> \o Groups[n \div 128]

\* Writer::WriteVarint: a negative number is folded, ~(ux << 1), a positive is not.
Varint(v, mod) == Groups[IF v < 0 THEN -2 * v - 1 ELSE v]

Signed(n, mod) == IF n < mod \div 2 THEN n ELSE n - mod

\* The number whose groups end with s[end], and the rest of s.
ReadGroups(s, end, mod) ==
    LET Value[i \in 0 .. end] ==
            IF i = 0 THEN 0 ELSE Value[i - 1] + (s[i] % 128) * 128^(i - 1)
    IN  Done(<<Value[end] % mod>>, SubSeq(s, end + 1, Len(s)))
FirstEnd(ends) == CHOOSE i \in ends : \A j \in ends : i <= j

\* Reader::ReadVarint: up to the first group that is not marked.
ReadVarint(s, groups, mod) ==
    LET ends == {i \in 1 .. groups : i <= Len(s) /\ s[i] < 128}
    IN  IF ends # {} THEN ReadGroups(s, FirstEnd(ends), mod)
        ELSE IF Len(s) < groups THEN Short ELSE Refused

ReadInt(s) == ReadVarint(s, IntGroups, IntMod)

--------------------------------------------------------------------------------
(* The kinds of fields.                                                     *)

BigEndian    == {"U8", "U16BE", "I16BE", "U32BE", "I32BE", "U64BE", "I64BE", "UUID"}
LittleEndian == {"U24", "U16LE", "I16LE", "U32LE", "U64LE", "I64LE", "Float"}
Width(kind) ==
    CASE kind \in {"U8", "Bool", "IsOne"} -> 1
      [] kind \in {"U16BE", "I16BE", "U16LE", "I16LE"} -> 2
      [] kind = "U24" -> 3
      [] kind \in {"U32BE", "I32BE", "U32LE", "Float"} -> 4
      [] kind \in {"U64BE", "I64BE", "U64LE", "I64LE"} -> 8
      [] kind = "UUID" -> 16
Unsigned == {"VarU32", "VarU64"}
Varints  == Unsigned \cup {"VarI32", "VarI64"}
Kinds    == BigEndian \cup LittleEndian \cup Varints
              \cup {"Bool", "IsOne", "String", "Bytes", "UTF", "Address", "Raw"}

Complement(bytes) == [i \in DOMAIN bytes |-> 255 - bytes[i]]
Zeros(n) == [i \in 1 .. n |-> 0]

\* PacketBuff::Write of an endpoint: <<version>> \o bytes \o port.  The bytes of
\* version 4 are complemented; the port of the unspecified address :: is 0.
WriteAddress(a) ==
    IF Head(a) = 4
    THEN <<4>> \o Complement(SubSeq(a, 2, 5)) \o SubSeq(a, 6, 7)
    ELSE LET bytes == SubSeq(a, 2, 17)
             port  == IF bytes = Zeros(16) THEN Zeros(2) ELSE SubSeq(a, 18, 19)
         IN  <<6, 23, 0>> \o port \o Zeros(4) \o bytes \o Zeros(4)

\* Mutant of ReadAddress: the bytes of version 4 are taken as they come.
ReadAddress_Plain(s) ==
    Then(Take(1, s), LAMBDA ver, r :
        IF ver = <<4>> THEN Map(Take(6, r), LAMBDA b : <<4>> \o b)
        ELSE Map(Take(20, r), LAMBDA b : <<6>> \o SubSeq(b, 5, 20) \o SubSeq(b, 3, 4)))

\* PacketBuff::ReadAddress: version 6 is read without the two words of zeros.
ReadAddress(s) ==
    Then(Take(1, s), LAMBDA ver, r :
        IF ver = <<4>>
        THEN Map(Take(6, r), LAMBDA b : <<4>> \o Complement(SubSeq(b, 1, 4)) \o SubSeq(b, 5, 6))
        ELSE Map(Take(20, r), LAMBDA b : <<6>> \o SubSeq(b, 5, 20) \o SubSeq(b, 3, 4)))

\* Writer::Write of each kind.
Put(kind, v) ==
    CASE kind \in BigEndian \cup {"Bool", "IsOne", "Raw"} -> v
      [] kind \in LittleEndian        -> Reverse(v)
      [] kind \in {"VarU32", "VarI32"} -> Varint(v[1], IntMod)
      [] kind \in {"VarU64", "VarI64"} -> Varint(v[1], LongMod)
      [] kind \in {"String", "Bytes"} -> Varint(Len(v), IntMod) \o v
      [] kind = "UTF"                 -> <<Len(v) % 256, Len(v) \div 256>> \o v
      [] kind = "Address"             -> WriteAddress(v)

\* The signed 64-bit reads go through ReadU16BE and ReadU16LE: two bytes are taken.
ReadFixed(kind, s) ==
    CASE kind = "I64BE"          -> Map(Take(2, s), LAMBDA b : Zeros(6) \o b)
      [] kind = "I64LE"          -> Map(Take(2, s), LAMBDA b : Zeros(6) \o Reverse(b))
      [] kind \in LittleEndian \ {"I64LE"} -> Map(Take(Width(kind), s), Reverse)
      [] OTHER                   -> Take(Width(kind), s)

\* Reader::Read of each kind.  A UUID is read and then refused.
Get(kind, s) ==
    CASE kind = "Bool"   -> Map(Take(1, s), LAMBDA b : IF b = <<0>> THEN b ELSE <<1>>)
      [] kind = "IsOne"  -> Map(Take(1, s), LAMBDA b : IF b = <<1>> THEN b ELSE <<0>>)
      [] kind = "UUID"   -> Then(Take(16, s), LAMBDA v, r : Refused)
      [] kind \in (BigEndian \cup LittleEndian) \ {"UUID"} -> ReadFixed(kind, s)
      [] kind = "VarU32" -> ReadInt(s)
      [] kind = "VarI32" -> Map(ReadInt(s), LAMBDA v : <<Signed(v[1], IntMod)>>)
      [] kind = "VarU64" -> ReadVarint(s, LongGroups, LongMod)
      [] kind = "VarI64" -> Map(ReadVarint(s, LongGroups, LongMod),
                                LAMBDA v : <<Signed(v[1], LongMod)>>)
      [] kind = "String" -> Then(ReadInt(s), LAMBDA n, r :
                                IF n[1] > MaxString THEN Refused ELSE Take(n[1], r))
      [] kind = "Bytes"  -> Then(ReadInt(s), LAMBDA n, r : Take(n[1], r))
      [] kind = "Address" -> ReadAddress(s)
      [] kind = "Raw"    -> Done(s, <<>>)

--------------------------------------------------------------------------------
(* Structures: a layout is a sequence of fields.  A field is one element, or a *)
(* list with its length before it; an element is a leaf for each of its kinds. *)

One(kind) == [count |-> "none", of |-> <<kind>>]
Group(kinds) == [count |-> "none", of |-> kinds]
Many(count, kinds) == [count |-> count, of |-> kinds]
IsList(field) == field.count # "none"

\* A length as a leaf of its kind, and back.  More than 2^16 is more than any
\* buffer here holds.
Length(kind, n) ==
    IF kind \in Varints THEN <<n>>
    ELSE Zeros(Width(kind) - 2) \o <<n \div 256, n % 256>>
Count(kind, v) ==
    LET w == Len(v)
    IN  IF kind \in Varints THEN v[1]
        ELSE IF SubSeq(v, 1, w - 2) # Zeros(w - 2) THEN 2^24
        ELSE 256 * v[w - 1] + v[w]

WriteElement(kinds, e) == FlattenSeq([j \in DOMAIN kinds |-> Put(kinds[j], e[j])])

WriteField(field, v) ==
    (IF IsList(field) THEN Put(field.count, Length(field.count, Len(v))) ELSE <<>>)
      \o FlattenSeq([i \in DOMAIN v |-> WriteElement(field.of, v[i])])

Write(layout, v) == FlattenSeq([i \in DOMAIN layout |-> WriteField(layout[i], v[i])])

\* What n readings one after the other give, up to the first that fails.
InTurn(n, read(_, _), s) ==
    LET Reads[i \in 0 .. n] ==
            IF i = 0 THEN Done(<<>>, s)
            ELSE Then(Reads[i - 1], LAMBDA v, r :
                     Then(read(i, r), LAMBDA w, rest : Done(Append(v, w), rest)))
    IN  Reads[n]

ReadElement(kinds, s) == InTurn(Len(kinds), LAMBDA j, r : Get(kinds[j], r), s)

\* An element takes at least a byte, so the rest bounds the ones that can be read.
ReadField(field, s) ==
    IF ~IsList(field) THEN InTurn(1, LAMBDA i, r : ReadElement(field.of, r), s)
    ELSE Then(Get(field.count, s), LAMBDA n, rest :
             LET count == Count(field.count, n)
                 bound == IF count <= Len(rest) THEN count ELSE Len(rest) + 1
             IN  InTurn(bound, LAMBDA i, r : ReadElement(field.of, r), rest))

Read(layout, s) == InTurn(Len(layout), LAMBDA i, r : ReadField(layout[i], r), s)

--------------------------------------------------------------------------------
\* The values that survive the wire: a number that is not negative, an address of
\* version 4, a string the reader accepts.  A signed number of 64 bits is read from
\* two bytes, and a UUID never.
Survives(kind, v) ==
    CASE kind \in {"VarI32", "VarI64"} -> v[1] >= 0
      [] kind = "String"  -> Len(v) <= MaxString
      [] kind = "Address" -> Head(v) = 4
      [] kind \in {"I64BE", "I64LE", "UUID"} -> FALSE
      [] OTHER -> TRUE
================================================================================
