----------------------------- MODULE Documents -----------------------------
(***************************************************************************)
(* opal::Document, the dynamic value every generated serializer pivots on, *)
(* and the two codecs that put it on the wire.  A document is a tuple that *)
(* starts with its alternative.  A text carries how it was made, so that   *)
(* base64 text is never mistaken for what it encodes; an integer is the    *)
(* number of bytes that hold it and a label; a timestamp is milliseconds.  *)
(***************************************************************************)
EXTENDS ShapeTypes, Integers, Sequences, FiniteSets

CONSTANTS
  JsonDepth,            \* json.cc kMaxNestingDepth
  CborDepth,            \* cbor.cc kMaxDepth
  MinRepresentableMs,   \* timestamp.cc: the years 0000 to 9999
  MaxRepresentableMs

ASSUME DepthAssumption == JsonDepth \in Nat /\ CborDepth \in Nat
ASSUME WindowAssumption ==
  /\ MinRepresentableMs \in Int /\ MinRepresentableMs <= 0
  /\ MaxRepresentableMs \in Int /\ MaxRepresentableMs >= 0

Ext == INSTANCE SequencesExt

Null == <<"null">>
Text(s) == <<"str", "text", s>>
Integer(i) == <<"int", i>>
Double(x) == <<"dbl", x>>
ListDoc(items) == <<"list", items>>
MapDoc(f) == <<"map", f>>
EmptyMap == [k \in {} |-> Null]

Find(doc, key) == IF doc[1] = "map" /\ key \in DOMAIN doc[2] THEN doc[2][key] ELSE Null

\* A member is treated alike when it is missing and when it is null.
Present(doc, key) == Find(doc, key) # Null

\* insert_or_assign
With(f, key, doc) == [k \in DOMAIN f \cup {key} |-> IF k = key THEN doc ELSE f[k]]
Without(f, key) == [k \in DOMAIN f \ {key} |-> f[k]]

Ok(v) == <<"ok", v>>
Failed == <<"error">>

-----------------------------------------------------------------------------
(* Timestamp: an instant is milliseconds, its text a local time and the    *)
(* offset of that.  http-date text has neither a fraction nor an offset.   *)
Representable(ms) == MinRepresentableMs <= ms /\ ms <= MaxRepresentableMs

CheckedFromMs(ms) == IF Representable(ms) THEN Ok(ms) ELSE Failed

TimeText(format, local, offset) == <<"str", format, <<local, offset>>>>

FormatTime(ms, format) == TimeText(format, IF format = "http-date" THEN ms - (ms % 1000) ELSE ms, 0)

\* A year has four digits.  The offset is taken off after that was checked,
\* and the instant it leads to is not checked again.
ParseDateTime(text) == IF Representable(text[3][1]) THEN Ok(text[3][1] - text[3][2]) ELSE Failed

ParseHttpDate(text) == CheckedFromMs(text[3][1])

ParseTime(text, format) ==
  IF text[2] # format THEN Failed
  ELSE IF format = "date-time" THEN ParseDateTime(text) ELSE ParseHttpDate(text)

\* A whole number of seconds; past the window it takes eight bytes.
Seconds(ms) == <<IF Representable(ms) THEN 4 ELSE 8, ms \div 1000>>

\* FromEpochSecondsChecked
FromEpochSeconds(doc) ==
  CASE doc[1] = "int" -> CheckedFromMs(doc[2][2] * 1000)
    [] doc[1] = "dbl" /\ doc[2][1] = "finite" -> CheckedFromMs(doc[2][2] * 1000)
    [] doc[1] = "dbl" /\ doc[2][1] = "ms" -> CheckedFromMs(doc[2][2])
    [] OTHER -> Failed

-----------------------------------------------------------------------------
\* Mutant: the bytes are written as they are.
Base64EncodeRaw(blob) == Text(blob)

\* Base64Encode; the empty blob is the empty text.
Base64Encode(blob) == IF blob = "" THEN Text("") ELSE <<"str", "base64", blob>>

Base64Decode(text) == IF text[2] = "base64" THEN Ok(text[3])
                      ELSE IF text = Text("") THEN Ok("") ELSE Failed

-----------------------------------------------------------------------------
(* json.cc: what is left of a document after Encode and Decode.            *)
NotUtf8 == "bytes that are no UTF-8"
Replaced == "U+FFFD"

\* error_handler_t::replace
ReplaceInvalid(s) == IF s = NotUtf8 THEN Replaced ELSE s

RECURSIVE ToBackend(_)
ToBackend(doc) ==
  CASE doc[1] = "dbl" /\ doc[2] = NaN           -> Text("NaN")
    [] doc[1] = "dbl" /\ doc[2] = Infinity      -> Text("Infinity")
    [] doc[1] = "dbl" /\ doc[2] = MinusInfinity -> Text("-Infinity")
    [] doc[1] = "str" /\ doc[2] = "text" -> Text(ReplaceInvalid(doc[3]))
    [] doc[1] = "blob" -> Base64Encode(doc[2])
    [] doc[1] = "ts"   -> IF doc[3] # "epoch-seconds" THEN FormatTime(doc[2], doc[3])
                          ELSE IF doc[2] % 1000 = 0 THEN Integer(Seconds(doc[2]))
                          ELSE Double(<<"ms", doc[2]>>)
    [] doc[1] = "list" -> ListDoc([i \in DOMAIN doc[2] |-> ToBackend(doc[2][i])])
    [] doc[1] = "map"  -> MapDoc([k \in DOMAIN doc[2] |-> ToBackend(doc[2][k])])
    [] OTHER -> doc

Deepest(depths) == IF depths = {} THEN 0 ELSE CHOOSE d \in depths : \A e \in depths : d >= e

\* ExceedsMaxDepth counts brackets.
RECURSIVE Brackets(_)
Brackets(doc) ==
  IF doc[1] \in {"list", "map"} THEN 1 + Deepest({Brackets(doc[2][k]) : k \in DOMAIN doc[2]}) ELSE 0

JsonWire(doc) == IF Brackets(doc) > JsonDepth THEN Failed ELSE Ok(ToBackend(doc))

-----------------------------------------------------------------------------
(* cbor.cc: a message is a sequence of data items, each one an initial     *)
(* byte with its argument and, of a text or byte string, its content.      *)
Indefinite == -1
Break == <<"break">>

RECURSIVE EncodeValue(_)
EncodeValue(doc) ==
  CASE doc[1] = "null" -> <<<<"simple", "null">>>>
    [] doc[1] = "bool" -> <<<<"simple", IF doc[2] THEN "true" ELSE "false">>>>
    [] doc[1] = "int"  -> <<<<"int", doc[2]>>>>
    [] doc[1] = "dbl"  -> <<<<"float", doc[2]>>>>
    [] doc[1] = "str"  -> <<<<"text", Tail(doc)>>>>
    [] doc[1] = "blob" -> <<<<"bytes", doc[2]>>>>
    [] doc[1] = "ts"   -> <<<<"tag", 1>>, IF doc[2] % 1000 = 0 THEN <<"int", Seconds(doc[2])>>
                                          ELSE <<"float", <<"ms", doc[2]>>>>>>
    [] doc[1] = "list" -> <<<<"array", Len(doc[2])>>>>
                            \o Ext!FlattenSeq([i \in DOMAIN doc[2] |-> EncodeValue(doc[2][i])])
    [] doc[1] = "map"  ->
         Ext!FoldSet(LAMBDA k, rest : rest \o <<<<"text", <<"text", k>>>>>> \o EncodeValue(doc[2][k]),
                     <<<<"map", Cardinality(DOMAIN doc[2])>>>>, DOMAIN doc[2])

(* Decoder: a value read from position "at" of s, and where the next begins. *)
Read(doc, next) == <<"ok", doc, next>>

\* DecodeChunkedString: chunks of one kind until a break; a content is in
\* one of them, the others are empty.
RECURSIVE Chunks(_, _, _)
Chunks(s, at, kind) ==
  IF at > Len(s) THEN Failed
  ELSE IF s[at] = Break THEN Read({}, at + 1)
  ELSE LET rest == Chunks(s, at + 1, kind)
       IN  IF s[at][1] # kind \/ rest = Failed THEN Failed ELSE Read({s[at][2]} \cup rest[2], rest[3])

Joined(chunks, empty) == IF chunks \ {empty} = {} THEN empty ELSE CHOOSE c \in chunks \ {empty} : TRUE

\* insert_or_assign of each pair: keys at odd places, the last one wins.
MapOf(items) ==
  LET places == {i \in DOMAIN items : i % 2 = 1}
      last(k) == CHOOSE i \in places : items[i][3] = k /\ \A j \in places : items[j][3] = k => j <= i
  IN  MapDoc([k \in {items[i][3] : i \in places} |-> items[last(k) + 1]])

RECURSIVE DecodeValue(_, _, _), DecodeItems(_, _, _, _)
DecodeValue(s, at, depth) ==
  LET kind  == s[at][1]
      arg   == s[at][2]
      items == DecodeItems(s, at + 1, depth - 1, IF kind = "map" /\ arg # Indefinite THEN 2 * arg ELSE arg)
      inner == DecodeValue(s, at + 1, depth - 1)
      parts == Chunks(s, at + 1, arg)
  IN  IF depth = 0 \/ at > Len(s) \/ s[at] = Break THEN Failed
      ELSE CASE kind = "int" -> IF arg[1] > 8 THEN Failed ELSE Read(Integer(arg), at + 1)
             [] kind = "float" -> Read(Double(arg), at + 1)
             [] kind = "text" -> Read(<<"str">> \o arg, at + 1)
             [] kind = "bytes" -> Read(<<"blob", arg>>, at + 1)
             [] kind = "chunks" ->
                  IF parts = Failed THEN Failed
                  ELSE IF arg = "text" THEN Read(<<"str">> \o Joined(parts[2], <<"text", "">>), parts[3])
                  ELSE Read(<<"blob", Joined(parts[2], "")>>, parts[3])
             [] kind = "array" -> IF items = Failed THEN Failed ELSE Read(ListDoc(items[2]), items[3])
             [] kind = "map" ->
                  IF items = Failed THEN Failed
                  ELSE IF Len(items[2]) % 2 = 1 \/ \E i \in DOMAIN items[2] : i % 2 = 1 /\ items[2][i][1] # "str"
                  THEN Failed ELSE Read(MapOf(items[2]), items[3])
             [] kind = "tag" ->
                  IF inner = Failed THEN Failed
                  ELSE IF arg # 1 THEN inner
                  ELSE LET ts == FromEpochSeconds(inner[2])
                       IN  IF ts = Failed THEN Failed ELSE Read(<<"ts", ts[2], "epoch-seconds">>, inner[3])
             [] kind = "simple" ->
                  Read(IF arg \in {"true", "false"} THEN <<"bool", arg = "true">> ELSE Null, at + 1)

\* The items of an array or map: as many as it says, or up to a break.
DecodeItems(s, at, depth, n) ==
  IF n = 0 THEN Read(<<>>, at)
  ELSE IF n = Indefinite /\ at <= Len(s) /\ s[at] = Break THEN Read(<<>>, at + 1)
  ELSE LET item == DecodeValue(s, at, depth)
           rest == DecodeItems(s, item[3], depth, IF n = Indefinite THEN n ELSE n - 1)
       IN  IF item = Failed \/ rest = Failed THEN Failed ELSE Read(<<item[2]>> \o rest[2], rest[3])

\* DecodeDocument
Decode(s) ==
  LET doc == DecodeValue(s, 1, CborDepth)
  IN  IF doc = Failed \/ doc[3] # Len(s) + 1 THEN Failed ELSE Ok(doc[2])

CborWire(doc) == Decode(EncodeValue(doc))

-----------------------------------------------------------------------------
(* document_serde.cc                                                       *)
TimestampFromDocument(doc, format) ==
  CASE doc[1] = "ts" -> Ok(doc[2])
    [] doc[1] \in {"int", "dbl"} -> IF format = "epoch-seconds" THEN FromEpochSeconds(doc) ELSE Failed
    [] doc[1] = "str" -> IF format = "epoch-seconds" THEN Failed ELSE ParseTime(doc, format)
    [] OTHER -> Failed

BlobFromDocument(doc) ==
  CASE doc[1] = "blob" -> Ok(doc[2])
    [] doc[1] = "str"  -> Base64Decode(doc)
    [] OTHER -> Failed

DoubleFromDocument(doc) ==
  CASE doc[1] = "int" -> Ok(Num(doc[2][2]))
    [] doc[1] = "dbl" -> Ok(doc[2])
    [] doc = Text("NaN") -> Ok(NaN)
    [] doc = Text("Infinity") -> Ok(Infinity)
    [] doc = Text("-Infinity") -> Ok(MinusInfinity)
    [] OTHER -> Failed

FloatFromDouble(x) == IF x = Huge THEN Failed ELSE Ok(x)
=============================================================================
