------------------------------- MODULE LuaTable -------------------------------
(***************************************************************************)
(* LuaTable::Serialize and Deserialize: a Lua table as a byte stream and   *)
(* back.  A value is <<kind, data>>, a table <<kind, set of pairs>> where  *)
(* the kind tells a plain "table" from one whose metatable has a "__len",  *)
(* or a "__pairs" and no "__len".  The stream is a sequence of scalars: a  *)
(* type byte, for a pair with the key's type in the upper half, then the   *)
(* data.  Integers are cut to the width of their type; the widths are      *)
(* parameters.                                                             *)
(*                                                                         *)
(* The stream is in a ByteBuffer of a fixed size, which drops what does not*)
(* fit; Serialize does not notice.  What follows a gap is read with the    *)
(* wrong types, so the stream is not followed beyond it.                   *)
(*                                                                         *)
(* The functions call themselves for a table in a table: `open` and        *)
(* `reading` are the tables they are in, the innermost last, and a step is *)
(* one round of the innermost one's loop.                                  *)
(*                                                                         *)
(* Lua does not say which border of a table with holes is its length, nor  *)
(* in which order lua_next finds the keys: either is chosen freely.        *)
(* Strings have no NUL, which would end them.                              *)
(***************************************************************************)
EXTENDS Integers, Sequences, SequencesExt, FiniteSets

CONSTANTS
  H8, H16, H32, H64,   (* half of the numbers that the four widths have  *)
  MAX_DEPTH,           (* of nested tables; 16 in the code               *)
  Capacity,            (* bytes of the ByteBuffer; 16 * 1024 in the code *)
  StrBytes,            (* bytes of a string, with its NUL                *)
  CodecData,           (* what a string, a float or a boolean may be     *)
  CodecTables          (* bound: the tables that are written             *)

ASSUME CodecAssumption ==
  /\ {H8, H16, H32, H64, MAX_DEPTH} \subseteq Nat \ {0}
  /\ H8 <= H16 /\ H16 <= H32 /\ H32 <= H64
  /\ {Capacity, StrBytes} \subseteq Nat
  /\ \A t \in CodecTables : t[1] \in {"table", "__len", "__pairs"}

VARIABLES
  table,     (* the table to be written                                  *)
  stream,    (* what is written of it                                    *)
  used,      (* ByteBuffer's _wr_ptr                                     *)
  lost,      (* In has found no room for something                       *)
  open,      (* the tables serialize_table is in, and what is left to do *)
  pos,       (* ByteBuffer's _rd_ptr                                     *)
  reading,   (* the tables deserialize_table is in, as far as they are   *)
  copy       (* the table that was read back                             *)

buffer == <<stream, used, lost>>
codec  == <<table, buffer, open, pos, reading, copy>>

\* LuaValueType.
LVT == [nil |-> 0, i8 |-> 1, i16 |-> 2, i32 |-> 3, i64 |-> 4, u8 |-> 5, u16 |-> 6, u32 |-> 7,
        u64 |-> 8, str |-> 9, flt |-> 10, bool |-> 11, Arr |-> 12, Hash |-> 13, Unknown |-> 14]

Half(type) == <<H8, H16, H32, H64, H8, H16, H32, H64>>[type]
IsSigned(type) == type <= LVT.i64
IsInteger(type) == type \in LVT.i8..LVT.u64

\* get_lua_type for a number that is an integer; the third of the negative ones is the code's.
NumberTypeShort(n) == IF n >= 0 THEN LVT.u8 ELSE LVT.i8
NumberType(n) ==
  IF n >= 0
  THEN IF n <= 2 * H8 - 1 THEN LVT.u8
       ELSE IF n < 2 * H16 - 1 THEN LVT.u16
       ELSE IF n < 2 * H32 - 1 THEN LVT.u32 ELSE LVT.u64
  ELSE IF n >= -H8 THEN LVT.i8
       ELSE IF n >= -H16 THEN LVT.i16
       ELSE IF n >= -H32 THEN LVT.u32 ELSE LVT.i64

Cut(n, type) == n % (2 * Half(type))
Uncut(m, type) == IF IsSigned(type) /\ m >= Half(type) THEN m - 2 * Half(type) ELSE m

Nothing == <<"nil", 0>>
IsTable(v) == v[1] \in {"table", "__len", "__pairs"}
Pairs(v) == v[2]
KeysOf(v) == {p[1] : p \in Pairs(v)}
Indices(v) == {k[2] : k \in {l \in KeysOf(v) : l[1] = "num"}}

\* lua_rawlen: a border of the table.
Borders(v) == {n \in Indices(v) \cup {0} : n >= 0 /\ n + 1 \notin Indices(v)}

\* get_lua_type_table: the metatable decides, or a table of length n is an array when lua_next
\* finds nothing after its last index.
TableTypes(v, n) ==
  CASE v[1] = "__len"   -> {LVT.Arr}
    [] v[1] = "__pairs" -> {LVT.Hash}
    [] OTHER -> IF n = 0 THEN IF Pairs(v) = {} THEN {LVT.Arr} ELSE {LVT.Hash}
                ELSE IF Cardinality(Pairs(v)) = 1 THEN {LVT.Arr} ELSE {LVT.Arr, LVT.Hash}

\* The types get_lua_type may give a value, with the length for a table.
TypesOf(v) ==
  CASE v[1] = "num" -> {<<NumberType(v[2]), 0>>}
    [] IsTable(v)   -> UNION {{<<t, n>> : t \in TableTypes(v, n)} : n \in Borders(v)}
    [] v[1] \in {"str", "flt", "bool"} -> {<<LVT[v[1]], 0>>}
    [] OTHER -> {<<LVT.Unknown, 0>>}

IsKeyType(type) == type \in LVT.i8..LVT.str
IsValueType(type) == type \in LVT.i8..LVT.Hash
IsTableType(type) == type \in {LVT.Arr, LVT.Hash}
-----------------------------------------------------------------------------
(* Serialize. *)

\* serialize_table is entered: an array is gone through up to its length, too deep a table not
\* at all.
Writing(v, type, depth) ==
  [of |-> v, type |-> type[1],
   todo |-> IF depth >= MAX_DEPTH THEN {}
            ELSE IF type[1] = LVT.Arr
            THEN {p \in Pairs(v) : p[1][1] = "num" /\ p[1][2] \in 1..type[2]} ELSE Pairs(v)]

\* ByteBuffer::In: what finds no room is dropped, and the caller goes on.
Write(items, bytes) ==
  IF ~lost /\ used + bytes <= Capacity
  THEN stream' = stream \o items /\ used' = used + bytes /\ UNCHANGED lost
  ELSE lost' = TRUE /\ UNCHANGED <<stream, used>>

Serialize(v) ==
  /\ table' = v
  /\ \E type \in TypesOf(v) : /\ Write(<<type[1]>>, 1)
                              /\ open' = <<Writing(v, type, 1)>>
  /\ UNCHANGED <<pos, reading, copy>>

\* The pairs that the loop may come to next; at an index that is missing it writes nothing.
Ahead(f) ==
  IF f.type = LVT.Arr THEN {p \in f.todo : \A q \in f.todo : p[1][2] <= q[1][2]} ELSE f.todo

\* serialize_entity of a value that is not a table.
Datum(v, type) == IF v[1] = "num" THEN Cut(v[2], type) ELSE v[2]

\* serialize_val and serialize_key_val leave out what has no type they know; else they write the
\* type or types, the key in a hash, and the value, for which a table is entered.
LeftOut(f, ktype, type) == ~IsValueType(type[1]) \/ (f.type = LVT.Hash /\ ~IsKeyType(ktype[1]))
Items(f, p, ktype, type) ==
  IF LeftOut(f, ktype, type) THEN <<>>
  ELSE (IF f.type = LVT.Arr THEN <<type[1]>>
                            ELSE <<ktype[1] * 16 + type[1], Datum(p[1], ktype[1])>>)
       \o (IF IsTable(p[2]) THEN <<>> ELSE <<Datum(p[2], type[1])>>)

\* Their bytes: a round that writes more than there is room for loses some of them.
Bytes(type) == <<1, 2, 4, 8, 1, 2, 4, 8, StrBytes, 8, 1>>[type]
ItemBytes(f, p, ktype, type) ==
  IF LeftOut(f, ktype, type) THEN 0
  ELSE 1 + (IF f.type = LVT.Arr THEN 0 ELSE Bytes(ktype[1]))
         + (IF IsTable(p[2]) THEN 0 ELSE Bytes(type[1]))

Passed(o, p) == [o EXCEPT ![Len(o)].todo = @ \ {p}]
Entered(o, p, ktype, type) ==
  IF IsTable(p[2]) /\ ~LeftOut(Last(o), ktype, type)
  THEN Append(Passed(o, p), Writing(p[2], type, Len(o) + 1)) ELSE Passed(o, p)

SerializeRound ==
  /\ open # <<>>
  /\ \E p \in Ahead(Last(open)) : \E ktype \in TypesOf(p[1]), type \in TypesOf(p[2]) :
       /\ Write(Items(Last(open), p, ktype, type), ItemBytes(Last(open), p, ktype, type))
       /\ open' = Entered(open, p, ktype, type)
  /\ UNCHANGED <<table, pos, reading, copy>>

SerializeEnd ==
  /\ open # <<>> /\ Last(open).todo = {}
  /\ Write(<<LVT.nil>>, 1)
  /\ open' = Front(open)
  /\ UNCHANGED <<table, pos, reading, copy>>
-----------------------------------------------------------------------------
(* Deserialize. *)

\* lua_newtable; idx counts the entries, and is the key of the next one in an array.
Reading(type) == [type |-> type, pairs |-> {}, idx |-> 1, key |-> Nothing]

\* lua_rawseti and lua_rawset: a later entry with the same key replaces the earlier one.
Put(r, k, v) == [r EXCEPT !.pairs = {p \in @ : p[1] # k} \cup {<<k, v>>}, !.idx = @ + 1]

\* deserialize_entity of a value that is not a table.
Scalar(type, d) ==
  CASE IsInteger(type) -> <<"num", Uncut(d, type)>>
    [] type = LVT.str  -> <<"str", d>>
    [] type = LVT.flt  -> <<"flt", d>>
    [] type = LVT.bool -> <<"bool", d>>

Deserialize ==
  /\ table # Nothing /\ open = <<>> /\ pos = 0
  /\ ~lost
  /\ pos' = 1
  /\ reading' = <<Reading(stream[1])>>
  /\ UNCHANGED <<table, buffer, open, copy>>

DeserializeRound ==
  /\ reading # <<>>
  /\ stream[pos + 1] # LVT.nil
  /\ LET hash == Last(reading).type = LVT.Hash
         type == IF hash THEN stream[pos + 1] % 16 ELSE stream[pos + 1]
         key  == IF hash THEN Scalar(stream[pos + 1] \div 16, stream[pos + 2])
                         ELSE <<"num", Last(reading).idx>>
         at   == IF hash THEN pos + 2 ELSE pos + 1
     IN  IF IsTableType(type)
         THEN /\ reading' = Append([reading EXCEPT ![Len(reading)].key = key], Reading(type))
              /\ pos' = at
         ELSE /\ reading' = [reading EXCEPT ![Len(reading)] = Put(@, key, Scalar(type, stream[at + 1]))]
              /\ pos' = at + 1
  /\ UNCHANGED <<table, buffer, open, copy>>

\* The innermost table is complete: it is the value for the key that the one around it waits with.
DeserializeEnd ==
  /\ reading # <<>>
  /\ stream[pos + 1] = LVT.nil
  /\ pos' = pos + 1
  /\ LET v == <<"table", Last(reading).pairs>>
         outer == Front(reading)
     IN  IF outer = <<>>
         THEN reading' = <<>> /\ copy' = v
         ELSE reading' = [outer EXCEPT ![Len(outer)] = Put(@, @.key, v)] /\ UNCHANGED copy
  /\ UNCHANGED <<table, buffer, open>>

\* A stream with a gap is read with the wrong types, and beyond its end: Out leaves the variables
\* of deserialize_entity as they were, which is uninitialised.  Any table may come out of it, and
\* where no end mark is found the loop never ends.
AnyTable == <<"any", 0>>

DeserializeGap ==
  /\ table # Nothing /\ open = <<>> /\ copy = Nothing
  /\ lost
  /\ copy' = AnyTable
  /\ UNCHANGED <<table, buffer, open, pos, reading>>
-----------------------------------------------------------------------------
CodecInit ==
  /\ table = Nothing /\ stream = <<>> /\ used = 0 /\ lost = FALSE /\ open = <<>>
  /\ pos = 0 /\ reading = <<>> /\ copy = Nothing

\* Bound: one table a behaviour.
CodecNext ==
  \/ table = Nothing /\ \E t \in CodecTables : Serialize(t)
  \/ SerializeRound \/ SerializeEnd
  \/ Deserialize \/ DeserializeRound \/ DeserializeEnd \/ DeserializeGap

CodecSpec == CodecInit /\ [][CodecNext]_codec
-----------------------------------------------------------------------------
(* Properties. *)

\* Tables that arrive whole: no value or key without a type, no table too deep, no metatable, no
\* negative integer that needs 32 bits (see NumbersArrive), and the positive indices, if there are
\* any, are those of an array without holes and the only keys.
PortableInts == {n \in Int : -H64 <= n /\ n < H64 /\ ~(-H32 <= n /\ n < -H16)}
PortableScalars == ({"num"} \X PortableInts) \cup ({"str", "flt", "bool"} \X CodecData)
PortableKeys == ({"num"} \X PortableInts) \cup ({"str"} \X CodecData)
PortableShape(v) ==
  /\ \A p, q \in Pairs(v) : p[1] = q[1] => p = q
  /\ \/ \A k \in KeysOf(v) : ~(k[1] = "num" /\ k[2] > 0)
     \/ \E n \in 0..Cardinality(Pairs(v)) : KeysOf(v) = {<<"num", i>> : i \in 1..n}
PortableTables(V) == {v \in {"table"} \X SUBSET (PortableKeys \X V) : PortableShape(v)}

\* What may stand in a table below which tables may be nested so many levels further.
Portable[level \in 0..MAX_DEPTH] ==
  PortableScalars
    \cup IF level = 0 THEN {<<"table", {}>>} ELSE PortableTables(Portable[level - 1])

\* What was written whole is read back, at the boundaries of all the integer types, whichever of
\* the two forms the table is given and whatever is nested in it.
RoundTrips == copy # Nothing /\ ~lost /\ table \in Portable[MAX_DEPTH - 1] => copy = table

\* "supported element types: ... value: number" (ScriptParam.h:9-18), of those that are integers
\* of 64 bits.
IsNumberTable(v) ==
  v[1] = "table" /\ \A p \in Pairs(v) : p[1][1] = "str" /\ p[2][1] = "num"
NumbersArrive == copy # Nothing /\ ~lost /\ IsNumberTable(table) => copy = table
=============================================================================
