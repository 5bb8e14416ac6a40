------------------------------- MODULE Serde -------------------------------
(***************************************************************************)
(* The serializers and deserializers the code generator emits for every    *)
(* aggregate shape, interpreted over the shape tables of a service: c is a *)
(* record with the service's types, serdes and codec.                      *)
(***************************************************************************)
EXTENDS Documents

-----------------------------------------------------------------------------
(* Values, as types.h declares them: an optional is <<>> or <<v>>, a union *)
(* is its engaged case and that value.                                     *)
FieldsOf(t) == {t[2][i][2] : i \in DOMAIN t[2]}
FieldOf(t, name) == t[2][CHOOSE i \in DOMAIN t[2] : t[2][i][2] = name]

\* A document no union of a service has a case for.
Unheard(doc) == MapDoc([k \in {"newer"} |-> doc])

\* The initializer of a member, a union engaged and a document not null.
RECURSIVE Initial(_, _)
Initial(c, t) ==
  CASE t[1] \in {"str", "blob"} -> ""
    [] t[1] = "bool" -> FALSE
    [] t[1] = "int" -> Small(0)
    [] t[1] \in {"float", "double"} -> Num(0)
    [] t[1] = "time" -> 0
    [] t[1] = "doc" -> Unheard(Integer(Small(0)))
    [] t[1] = "unit" -> 0
    [] t[1] \in {"list", "map"} -> <<>>
    [] t[1] = "ref" -> Initial(c, c.types[t[2]])
    [] t[1] = "enum" -> ""
    [] t[1] = "intEnum" -> Small(0)
    [] t[1] = "union" -> <<t[2][1][2], Initial(c, t[2][1][3])>>
    [] t[1] = "struct" ->
         [f \in FieldsOf(t) |->
            LET m == FieldOf(t, f)
            IN  CASE m[1] = "opt" -> <<>>
                  [] m[1] = "def" -> m[4]
                  [] m[1] = "plain" -> Initial(c, m[3])]

\* Values of a type: each member of a struct varied in turn, nested types
\* followed down to the given depth.
SampleDepth == 3

RECURSIVE Samples(_, _, _)
Samples(c, t, depth) ==
  LET inner(u) == Samples(c, u, depth)
      some(u)  == CHOOSE v \in inner(u) : v # Initial(c, u) \/ inner(u) = {Initial(c, u)}
      holes(u) == IF t[3] THEN {<<>>, <<some(u)>>} ELSE {some(u)}
  IN  CASE t[1] = "str" -> {"", "x", NotUtf8}
        [] t[1] = "blob" -> {"", "x"}
        [] t[1] = "bool" -> BOOLEAN
        [] t[1] = "int" -> {Small(0), Wide(t[2], 7)}
        [] t[1] = "float" -> {Num(0), NaN, MinusInfinity}
        [] t[1] = "double" -> {Num(0), Huge, Infinity}
        [] t[1] = "time" -> {0, 1500, MaxRepresentableMs + 1}
        [] t[1] = "doc" -> {Unheard(Integer(Small(0))), Unheard(Double(Num(1)))}
        [] t[1] = "unit" -> {0}
        [] t[1] = "list" -> {<<>>} \cup {<<h, some(t[2])>> : h \in IF t[3] THEN {} ELSE holes(t[2])}
                              \cup {<<h>> : h \in holes(t[2])}
        [] t[1] = "map" -> {<<>>} \cup {[k \in {"k"} |-> h] : h \in holes(t[2])}
        [] t[1] = "ref" -> IF depth = 0 THEN {Initial(c, t)} ELSE Samples(c, c.types[t[2]], depth - 1)
        [] t[1] = "enum" -> t[2] \cup {"unheard"}
        [] t[1] = "intEnum" -> {Small(n) : n \in t[2] \cup {77}}
        [] t[1] = "union" -> UNION {{<<t[2][i][2], v>> : v \in inner(t[2][i][3])} : i \in DOMAIN t[2]}
        [] t[1] = "struct" ->
             {Initial(c, t)} \cup
             UNION {{[Initial(c, t) EXCEPT ![t[2][i][2]] = IF t[2][i][1] = "opt" THEN <<v>> ELSE v] :
                       v \in inner(t[2][i][3])} : i \in DOMAIN t[2]}

-----------------------------------------------------------------------------
(* SerdeGenerator and SerdeCodeGen: the serialize half.                    *)
WrittenField(m, v) == IF m[1] \in {"optional", "filledIn"} THEN v[m[4]] ELSE <<v[m[4]]>>

RECURSIVE Serialize(_, _, _)
Serialize(c, t, v) ==
  CASE t[1] \in {"str", "enum"} -> Text(v)
    [] t[1] = "bool" -> <<"bool", v>>
    [] t[1] \in {"int", "intEnum"} -> Integer(v)
    [] t[1] \in {"float", "double"} -> Double(v)
    [] t[1] = "blob" -> <<"blob", v>>
    [] t[1] = "time" -> <<"ts", v, t[2]>>
    [] t[1] = "doc" -> v
    [] t[1] = "unit" -> MapDoc(EmptyMap)
    [] t[1] = "ref" -> Serialize(c, c.serdes[t[2]], v)
    [] t[1] \in {"list", "map"} ->
         <<t[1], [k \in DOMAIN v |-> IF ~t[3] THEN Serialize(c, t[2], v[k])
                                     ELSE IF v[k] = <<>> THEN Null
                                     ELSE Serialize(c, t[2], v[k][1])]>>
    [] t[1] = "structure" ->
         LET written == {i \in DOMAIN t[2] : WrittenField(t[2][i], v) # <<>>}
             at(w)   == CHOOSE i \in written : t[2][i][2] = w
         IN  MapDoc([w \in {t[2][i][2] : i \in written} |->
                       Serialize(c, t[2][at(w)][3], WrittenField(t[2][at(w)], v)[1])])
    [] t[1] = "tagged" ->
         IF v[1] = "other" /\ t[3] THEN v[2]
         ELSE LET case == t[2][CHOOSE i \in DOMAIN t[2] : t[2][i][4] = v[1]]
              IN  MapDoc([w \in {case[2]} |-> Serialize(c, case[3], v[2])])
    [] t[1] = "discriminated" ->
         IF v[1] = "other" /\ t[3] THEN v[2]
         ELSE LET case == t[2][CHOOSE i \in DOMAIN t[2] : t[2][i][4] = v[1]]
              IN  MapDoc(With(Serialize(c, case[3], v[2])[2], t[4], Text(case[2])))

-----------------------------------------------------------------------------
(* The deserialize half.                                                   *)
AllOk(outcomes) == \A k \in DOMAIN outcomes : outcomes[k] # Failed
Unwrap(outcomes) == IF AllOk(outcomes) THEN Ok([k \in DOMAIN outcomes |-> outcomes[k][2]]) ELSE Failed

\* The scalar cases of writeDeserializeInto.
ReadScalar(t, doc) ==
  CASE t[1] \in {"str", "enum"} -> IF doc[1] = "str" THEN Ok(doc[3]) ELSE Failed
    [] t[1] = "bool" -> IF doc[1] = "bool" THEN Ok(doc[2]) ELSE Failed
    [] t[1] = "int" -> IF doc[1] = "int" /\ doc[2][1] <= t[2] THEN Ok(doc[2]) ELSE Failed
    [] t[1] = "intEnum" -> IF doc[1] = "int" /\ doc[2][1] <= 4 THEN Ok(doc[2]) ELSE Failed
    [] t[1] = "double" -> DoubleFromDocument(doc)
    [] t[1] = "float" -> LET x == DoubleFromDocument(doc)
                         IN  IF x = Failed THEN Failed ELSE FloatFromDouble(x[2])
    [] t[1] = "blob" -> BlobFromDocument(doc)
    [] t[1] = "time" -> TimestampFromDocument(doc, t[2])
    [] t[1] = "doc" -> Ok(doc)
    [] t[1] = "unit" -> Ok(0)

\* Mutant: a required member that is missing is left at its initializer.
MissingIsInitial(c, name, m) ==
  IF m[1] = "optional" THEN Ok(<<>>)
  ELSE IF m[1] = "filledIn" THEN Ok(<<m[5]>>)
  ELSE Ok(Initial(c, FieldOf(c.types[name], m[4])[3]))

\* writeMemberRead: what a member is when its wire name is missing or null.
Missing(c, name, m) ==
  CASE m[1] = "required" -> Failed
    [] m[1] = "optional" -> Ok(<<>>)
    [] m[1] = "filledIn" -> Ok(<<m[5]>>)
    [] m[1] = "filled" -> LET f == FieldOf(c.types[name], m[4])
                          IN  Ok(IF f[1] = "def" THEN f[4] ELSE Initial(c, f[3]))

\* How many members a union has on the wire: a "__type" hint is not one.
Tags(doc) == DOMAIN doc[2] \ {"__type"}

RECURSIVE Deserialize(_, _, _)
Deserialize(c, t, doc) ==
  IF t[1] \notin {"ref", "list", "map"} THEN ReadScalar(t, doc)
  ELSE IF t[1] = "list"
  THEN IF doc[1] # "list" THEN Failed
       ELSE Unwrap([k \in DOMAIN doc[2] |->
              IF doc[2][k] = Null THEN (IF t[3] THEN Ok(<<>>) ELSE Failed)
              ELSE LET item == Deserialize(c, t[2], doc[2][k])
                   IN  IF t[3] /\ item # Failed THEN Ok(<<item[2]>>) ELSE item])
  ELSE IF t[1] = "map"
  THEN IF doc[1] # "map" THEN Failed
       ELSE Unwrap([k \in {j \in DOMAIN doc[2] : t[3] \/ doc[2][j] # Null} |->
              IF doc[2][k] = Null THEN Ok(<<>>)
              ELSE LET item == Deserialize(c, t[2], doc[2][k])
                   IN  IF t[3] /\ item # Failed THEN Ok(<<item[2]>>) ELSE item])
  ELSE LET s == c.serdes[t[2]]
       IN  CASE s[1] \in {"list", "map"} -> Deserialize(c, s, doc)
             [] s[1] = "structure" ->
                  IF doc[1] # "map" THEN Failed
                  ELSE Unwrap([f \in {s[2][i][4] : i \in DOMAIN s[2]} |->
                    LET m == s[2][CHOOSE i \in DOMAIN s[2] : s[2][i][4] = f]
                        read == Deserialize(c, m[3], Find(doc, m[2]))
                    IN  IF ~Present(doc, m[2]) THEN Missing(c, t[2], m)
                        ELSE IF m[1] \in {"optional", "filledIn"} /\ read # Failed
                             THEN Ok(<<read[2]>>) ELSE read])
             [] s[1] = "tagged" ->
                  LET known == {i \in DOMAIN s[2] : Present(doc, s[2][i][2])}
                      first == s[2][CHOOSE i \in known : \A j \in known : i <= j]
                      read  == Deserialize(c, first[3], Find(doc, first[2]))
                  IN  IF doc[1] # "map" THEN Failed
                      ELSE IF Cardinality(Tags(doc)) = 1 /\ known # {}
                      THEN IF read = Failed THEN Failed ELSE Ok(<<first[4], read[2]>>)
                      ELSE IF s[3] THEN Ok(<<"other", doc>>) ELSE Failed
             [] s[1] = "discriminated" ->
                  LET match == {i \in DOMAIN s[2] : Find(doc, s[4]) = Text(s[2][i][2])}
                      case  == s[2][CHOOSE i \in match : TRUE]
                      read  == Deserialize(c, case[3], doc)
                  IN  IF doc[1] # "map" THEN Failed
                      ELSE IF match # {}
                      THEN IF read = Failed THEN Failed ELSE Ok(<<case[4], read[2]>>)
                      ELSE IF s[3] THEN Ok(<<"other", doc>>) ELSE Failed

OnWire(c, doc) == IF c.codec = "json" THEN JsonWire(doc) ELSE CborWire(doc)

-----------------------------------------------------------------------------
(* print.h and the AppendDebugTo functions of types.h: what a value looks  *)
(* like in a log.  A member whose shape is @sensitive shows that it is set *)
(* and nothing else.  (Blobs past 16 bytes, cut in a log, are not sampled.) *)
RECURSIVE DocumentDebug(_)
DocumentDebug(doc) ==
  CASE doc[1] = "int" -> Num(doc[2][2])
    [] doc[1] = "dbl" -> doc[2]
    [] doc[1] \in {"list", "map"} -> <<doc[1], [k \in DOMAIN doc[2] |-> DocumentDebug(doc[2][k])]>>
    [] OTHER -> doc


\* A member of a struct or union, from its type and its rendering.
MemberDebug(t, rendered) == IF t = SensitiveStr THEN <<"[REDACTED]">> ELSE rendered

RECURSIVE DebugAppend(_, _, _)
DebugAppend(c, t, v) ==
  CASE t[1] \in {"str", "bool", "int", "float", "double", "blob", "enum", "intEnum"} -> <<v>>
    [] t[1] = "time" -> FormatTime(v, "date-time")
    [] t[1] = "doc"  -> DocumentDebug(v)
    [] t[1] = "unit" -> <<"Unit{}">>
    [] t[1] \in {"list", "map"} ->
         [k \in DOMAIN v |-> IF ~t[3] THEN DebugAppend(c, t[2], v[k])
                             ELSE IF v[k] = <<>> THEN <<"nullopt">>
                             ELSE <<"some", DebugAppend(c, t[2], v[k][1])>>]
    [] t[1] = "ref" -> DebugAppend(c, c.types[t[2]], v)
    [] t[1] = "union" ->
         LET case == FieldOf(t, v[1])
         IN  <<v[1], MemberDebug(case[3], DebugAppend(c, case[3], v[2]))>>
    [] t[1] = "struct" ->
         LET optional(f) == FieldOf(t, f)[1] = "opt"
             printed(f, x) == MemberDebug(FieldOf(t, f)[3], DebugAppend(c, FieldOf(t, f)[3], x))
         IN  [f \in {g \in FieldsOf(t) : ~(optional(g) /\ v[g] = <<>>)} |->
                printed(f, IF optional(f) THEN v[f][1] ELSE v[f])]

-----------------------------------------------------------------------------
\* The instants in a value that are members of a shape.
RECURSIVE Instants(_, _, _)
Instants(c, t, v) ==
  CASE t[1] = "time" -> {v}
    [] t[1] \in {"list", "map"} ->
         UNION {IF ~t[3] THEN Instants(c, t[2], v[k])
                ELSE IF v[k] = <<>> THEN {} ELSE Instants(c, t[2], v[k][1]) : k \in DOMAIN v}
    [] t[1] = "ref" -> Instants(c, c.types[t[2]], v)
    [] t[1] = "union" -> Instants(c, FieldOf(t, v[1])[3], v[2])
    [] t[1] = "struct" ->
         UNION {LET m == t[2][i]
                IN  IF m[1] # "opt" THEN Instants(c, m[3], v[m[2]])
                    ELSE IF v[m[2]] = <<>> THEN {} ELSE Instants(c, m[3], v[m[2]][1]) : i \in DOMAIN t[2]}
    [] OTHER -> {}

\* An instant outside the years 0000 to 9999 has no text and no number a
\* reader accepts.
Carries(c, t, v) == \A ms \in Instants(c, t, v) : Representable(ms)

\* What a value is once it crossed the wire: http-date text keeps no
\* milliseconds, JSON text no bytes that are not UTF-8, and an @input member
\* that was not set has its default.
RECURSIVE Kept(_, _, _)
Kept(c, t, v) ==
  CASE t[1] = "time" /\ t[2] = "http-date" /\ c.codec = "json" -> v - (v % 1000)
    [] t[1] = "str" /\ c.codec = "json" -> IF v = NotUtf8 THEN Replaced ELSE v
    [] t[1] \in {"list", "map"} ->
         [k \in DOMAIN v |-> IF ~t[3] THEN Kept(c, t[2], v[k])
                             ELSE IF v[k] = <<>> THEN <<>> ELSE <<Kept(c, t[2], v[k][1])>>]
    [] t[1] = "ref" ->
         LET s == c.serdes[t[2]]
         IN (CASE s[1] \in {"list", "map"} -> Kept(c, s, v)
               [] s[1] \in {"tagged", "discriminated"} ->
                    IF v[1] = "other" /\ s[3] THEN v
                    ELSE <<v[1], Kept(c, s[2][CHOOSE i \in DOMAIN s[2] : s[2][i][4] = v[1]][3], v[2])>>
               [] s[1] = "structure" ->
                    [f \in DOMAIN v |->
                       LET m == s[2][CHOOSE i \in DOMAIN s[2] : s[2][i][4] = f]
                       IN  IF m[1] \notin {"optional", "filledIn"} THEN Kept(c, m[3], v[f])
                           ELSE IF v[f] # <<>> THEN <<Kept(c, m[3], v[f][1])>>
                           ELSE IF m[1] = "filledIn" THEN <<m[5]>> ELSE <<>>])
    [] OTHER -> v
=============================================================================
