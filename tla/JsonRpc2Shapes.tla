--------------------------- MODULE JsonRpc2Shapes ---------------------------
(***************************************************************************)
(* The shapes of the jsonRpc2 protocol tests: the value types of types.h,  *)
(* and how serde.cc reads and writes each of them.                         *)
(***************************************************************************)
EXTENDS ShapeTypes

EchoedNote == Struct(<<Plain("text", Str)>>)
DownEvents == Union(<<Opt("echo", Ref("EchoedNote"))>>)
Nested == Struct(<<Plain("label", Str), Opt("depth", I32)>>)
EchoPayloadInput == Struct(<<
  Opt("string", Str), Opt("aliased", Str), Opt("integer", I32), Opt("boolean", Bool),
  Opt("double_", F64), Opt("timestamp", Time), Opt("dateTime", Time),
  Opt("names", List(Str)), Opt("attributes", Map(Str)), Opt("nested", Ref("Nested"))>>)
EchoPayloadOutput == Struct(<<Opt("echo", Str), Opt("count", I32), Opt("nested", Ref("Nested"))>>)
NotFoundError == Struct(<<Plain("message", Str), Opt("resourceType", Str)>>)
ThrottledError == Struct(<<Opt("message", Str)>>)
Note == Struct(<<Plain("text", Str)>>)
UpEvents == Union(<<Opt("note", Ref("Note"))>>)
EchoStreamInput == Struct(<<Opt("prefix", Str), Opt("events", Ref("UpEvents"))>>)
EchoStreamOutput == Struct(<<Opt("events", Ref("DownEvents"))>>)
StreamAbort == Struct(<<Plain("message", Str)>>)
NoArgsInput == Struct(<<>>)
NoArgsOutput == Struct(<<>>)
PutConstrainedInput == Struct(<<
  Plain("name", Str), Opt("limit", I32), Opt("slug", Str), Opt("evilDigits", Str)>>)
PutConstrainedOutput == Struct(<<Plain("accepted", Bool)>>)

Types ==
  [EchoedNote |-> EchoedNote, DownEvents |-> DownEvents, Nested |-> Nested,
   EchoPayloadInput |-> EchoPayloadInput, EchoPayloadOutput |-> EchoPayloadOutput,
   NotFoundError |-> NotFoundError, ThrottledError |-> ThrottledError, Note |-> Note,
   UpEvents |-> UpEvents, EchoStreamInput |-> EchoStreamInput,
   EchoStreamOutput |-> EchoStreamOutput, StreamAbort |-> StreamAbort,
   NoArgsInput |-> NoArgsInput, NoArgsOutput |-> NoArgsOutput,
   PutConstrainedInput |-> PutConstrainedInput, PutConstrainedOutput |-> PutConstrainedOutput]

-----------------------------------------------------------------------------
EchoedNoteSerde == Structure(<<Required("text", Str)>>)
DownEventsSerde == Tagged(<<Optional("echo", Ref("EchoedNote"))>>, FALSE)
StringMapSerde == Map(Str)
StringListSerde == List(Str)
NestedSerde == Structure(<<Required("label", Str), Optional("depth", I32)>>)
EchoPayloadInputSerde == Structure(<<
  Optional("string", Str), Renamed("aliased", Optional("renamed", Str)),
  Optional("integer", I32), Optional("boolean", Bool),
  Renamed("double_", Optional("double", F64)),
  Optional("timestamp", TimeAs("epoch-seconds")),
  Optional("dateTime", TimeAs("date-time")), Optional("names", Ref("StringList")),
  Optional("attributes", Ref("StringMap")), Optional("nested", Ref("Nested"))>>)
EchoPayloadOutputSerde == Structure(<<
  Optional("echo", Str), Optional("count", I32), Optional("nested", Ref("Nested"))>>)
NotFoundErrorSerde == Structure(<<Required("message", Str), Optional("resourceType", Str)>>)
ThrottledErrorSerde == Structure(<<Optional("message", Str)>>)
NoteSerde == Structure(<<Required("text", Str)>>)
UpEventsSerde == Tagged(<<Optional("note", Ref("Note"))>>, FALSE)
EchoStreamInputSerde == Structure(<<Optional("prefix", Str), Optional("events", Ref("UpEvents"))>>)
EchoStreamOutputSerde == Structure(<<Optional("events", Ref("DownEvents"))>>)
StreamAbortSerde == Structure(<<Required("message", Str)>>)
NoArgsInputSerde == Structure(<<>>)
NoArgsOutputSerde == Structure(<<>>)
PutConstrainedInputSerde == Structure(<<
  Required("name", Str), Optional("limit", I32), Optional("slug", Str),
  Optional("evilDigits", Str)>>)
PutConstrainedOutputSerde == Structure(<<Required("accepted", Bool)>>)

Serdes ==
  [EchoedNote |-> EchoedNoteSerde, DownEvents |-> DownEventsSerde,
   StringMap |-> StringMapSerde, StringList |-> StringListSerde, Nested |-> NestedSerde,
   EchoPayloadInput |-> EchoPayloadInputSerde, EchoPayloadOutput |-> EchoPayloadOutputSerde,
   NotFoundError |-> NotFoundErrorSerde, ThrottledError |-> ThrottledErrorSerde,
   Note |-> NoteSerde, UpEvents |-> UpEventsSerde, EchoStreamInput |-> EchoStreamInputSerde,
   EchoStreamOutput |-> EchoStreamOutputSerde, StreamAbort |-> StreamAbortSerde,
   NoArgsInput |-> NoArgsInputSerde, NoArgsOutput |-> NoArgsOutputSerde,
   PutConstrainedInput |-> PutConstrainedInputSerde,
   PutConstrainedOutput |-> PutConstrainedOutputSerde]

-----------------------------------------------------------------------------
(* client.cc: what each call sends and reads, and the errors it knows.     *)
EchoPayloadCall == Lenient(Call("EchoPayloadInput", "", "EchoPayloadOutput"))
NoArgsCall == Call("", "", "")
PutConstrainedCall == Call("PutConstrainedInput", "", "PutConstrainedOutput")
EchoPayloadErrors == {"NotFoundError", "ThrottledError"}
NotFoundErrorMade == "status"
StreamAbortMade == "status"
ThrottledErrorMade == "always"

Calls ==
  [EchoPayload |-> EchoPayloadCall, NoArgs |-> NoArgsCall,
   PutConstrained |-> PutConstrainedCall]
Errors ==
  [EchoPayload |-> EchoPayloadErrors, NoArgs |-> {}, PutConstrained |-> {}]
Made ==
  [NotFoundError |-> NotFoundErrorMade, StreamAbort |-> StreamAbortMade,
   ThrottledError |-> ThrottledErrorMade]

(* server.cc: what each route reads, checks and writes.                    *)
ValidatePutConstrainedInput == Members(<<
  At("name", Length(1, 8)), IfSet("limit", InRange(1, 100)),
  IfSet("slug", Pattern({"x"})), IfSet("evilDigits", Pattern({}))>>)
EchoPayloadRoute == Route("EchoPayloadInput", "", "EchoPayloadOutput")
NoArgsRoute == Route("", "", "NoArgsOutput")
PutConstrainedRoute == Route("PutConstrainedInput", "PutConstrainedInput", "PutConstrainedOutput")
ErrorStatuses == [NotFoundError |-> 404, StreamAbort |-> 409, ThrottledError |-> 503]
Endpoint == [methods |-> {"EchoPayload", "NoArgs", "PutConstrained"}, gzip |-> FALSE]

Validators ==
  [PutConstrainedInput |-> ValidatePutConstrainedInput]
Routes ==
  [EchoPayload |-> EchoPayloadRoute, NoArgs |-> NoArgsRoute,
   PutConstrained |-> PutConstrainedRoute]
=============================================================================
