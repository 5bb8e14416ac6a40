----------------------------- MODULE ShapeTypes -----------------------------
(***************************************************************************)
(* The vocabulary of the generated code: the types types.h declares, and   *)
(* the ways serde.cc reads and writes a member of one of them.             *)
(***************************************************************************)

Small(n) == <<1, n>>             \* a value one byte holds
Wide(bytes, n) == <<bytes, n>>
Num(n) == <<"finite", n>>        \* a double; the others are:
NaN == <<"nan", 0>>
Infinity == <<"infinity", 0>>
MinusInfinity == <<"-infinity", 0>>
Huge == <<"huge", 0>>            \* finite, and beyond the range of a float

Str == <<"str">>
SensitiveStr == <<"str", "@sensitive">>
Bool == <<"bool">>
I8 == <<"int", 1>>
I16 == <<"int", 2>>
I32 == <<"int", 4>>
I64 == <<"int", 8>>
F32 == <<"float">>
F64 == <<"double">>
Blob == <<"blob">>
Time == <<"time", "any">>
TimeAs(format) == <<"time", format>>
Doc == <<"doc">>
Unit == <<"unit">>
List(t) == <<"list", t, FALSE>>
SparseList(t) == <<"list", t, TRUE>>
Map(t) == <<"map", t, FALSE>>
SparseMap(t) == <<"map", t, TRUE>>
Ref(name) == <<"ref", name>>
EnumOf(name) == <<"enum", name>>
IntEnumOf(name) == <<"intEnum", name>>

\* types.h: a struct's members in order, which are also what its AppendDebugTo
\* prints (DebugAppend of Serde reads them off), an enum's texts, a variant.
Struct(fields) == <<"struct", fields>>
Enum(texts) == <<"enum", texts>>
IntEnum(numbers) == <<"intEnum", numbers>>
Union(cases) == <<"union", cases>>
Plain(field, t) == <<"plain", field, t>>
Opt(field, t) == <<"opt", field, t>>
Def(field, t, default) == <<"def", field, t, default>>

\* serde.cc: a member is written always or when set, and missing on the
\* wire it is an error, absent, left at its initializer or filled in.
Required(key, t) == <<"required", key, t, key>>
Optional(key, t) == <<"optional", key, t, key>>
Filled(key, t) == <<"filled", key, t, key>>
FilledIn(key, t, default) == <<"filledIn", key, t, key, default>>
Renamed(field, member) == [member EXCEPT ![4] = field]
Structure(members) == <<"structure", members>>
Tagged(cases, open) == <<"tagged", cases, open>>
Discriminated(key, cases, open) == <<"discriminated", cases, open, key>>

\* client.cc: the input it sends, the member that gets a fresh token when it
\* is not set, the output it reads ("" for none); Lenient takes no body for
\* an empty output.
Call(sends, token, reads) ==
  [sends |-> sends, token |-> token, reads |-> reads, lenient |-> FALSE, gzip |-> FALSE]
Lenient(call) == [call EXCEPT !.lenient = TRUE]
Deflating(call) == [call EXCEPT !.gzip = TRUE]

\* server.cc: the input it reads, the constraints it checks, the output.
Route(reads, validates, writes) ==
  [reads |-> reads, validates |-> validates, writes |-> writes, gzip |-> FALSE]
Inflating(route) == [route EXCEPT !.gzip = TRUE]
Members(checks) == <<"members", checks>>
At(member, check) == <<"at", member, check>>
IfSet(member, check) == <<"ifSet", member, check>>
Each(check) == <<"each", check>>
EachSet(check) == <<"eachSet", check>>
Via(name) == <<"via", name>>
OneOf(enum) == <<"oneOf", enum>>
Length(low, high) == <<"length", low, high>>
InRange(low, high) == <<"inRange", low, high>>
Pattern(texts) == <<"pattern", texts>>   \* the sample texts it matches
UniqueItems == <<"uniqueItems">>
=============================================================================
