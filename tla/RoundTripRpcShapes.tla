------------------------- MODULE RoundTripRpcShapes -------------------------
(***************************************************************************)
(* The shapes of the rpcv2Cbor round-trip example: the value types of      *)
(* types.h, and how serde.cc reads and writes each of them.                *)
(***************************************************************************)
EXTENDS ShapeTypes

NestedConfig == Struct(<<Plain("label", Str), Opt("depth", I32)>>)
SinkChoice == Union(<<Opt("text", Str), Opt("count", I32), Opt("nested", Ref("NestedConfig"))>>)
Priority == Enum({"low", "medium", "high"})
Weight == IntEnum({1, 2})
KitchenSink == Struct(<<
  Plain("name", Str), Opt("flag", Bool), Opt("tiny", I8), Opt("small", I16),
  Opt("medium", I32), Opt("big", I64), Opt("ratio", F32), Opt("precise", F64),
  Opt("blob", Blob), Opt("priority", Ref("Priority")), Opt("weight", Ref("Weight")),
  Opt("dateTime", Time), Opt("httpDate", Time), Opt("epoch", Time),
  Opt("names", List(Str)), Opt("uniqueNames", List(Str)),
  Opt("sparseNumbers", SparseList(I32)), Opt("attributes", Map(Str)),
  Opt("nested", Ref("NestedConfig")), Opt("choice", Ref("SinkChoice"))>>)
SinkNotFound == Struct(<<Plain("message", Str), Opt("resourceType", Str)>>)
PingInput == Struct(<<>>)
PingOutput == Struct(<<>>)
SinkQuotaExceeded == Struct(<<Opt("message", Str), Opt("retryAfterSeconds", I32)>>)
PutSinkRpcInput == Struct(<<Plain("sinkId", Str), Opt("sink", Ref("KitchenSink"))>>)
PutSinkRpcOutput == Struct(<<Plain("sinkId", Str), Opt("sink", Ref("KitchenSink"))>>)

Types ==
  [NestedConfig |-> NestedConfig, SinkChoice |-> SinkChoice, Priority |-> Priority,
   Weight |-> Weight, KitchenSink |-> KitchenSink, SinkNotFound |-> SinkNotFound,
   PingInput |-> PingInput, PingOutput |-> PingOutput,
   SinkQuotaExceeded |-> SinkQuotaExceeded, PutSinkRpcInput |-> PutSinkRpcInput,
   PutSinkRpcOutput |-> PutSinkRpcOutput]

-----------------------------------------------------------------------------
StringMapSerde == Map(Str)
NestedConfigSerde == Structure(<<Required("label", Str), Optional("depth", I32)>>)
SinkChoiceSerde == Tagged(<<
  Optional("text", Str), Optional("count", I32), Optional("nested", Ref("NestedConfig"))>>, FALSE)
StringListSerde == List(Str)
SparseIntegerListSerde == SparseList(I32)
UniqueStringListSerde == List(Str)
KitchenSinkSerde == Structure(<<
  Required("name", Str), Optional("flag", Bool), Optional("tiny", I8),
  Optional("small", I16), Optional("medium", I32), Optional("big", I64),
  Optional("ratio", F32), Optional("precise", F64), Optional("blob", Blob),
  Optional("priority", EnumOf("Priority")), Optional("weight", IntEnumOf("Weight")),
  Optional("dateTime", TimeAs("date-time")), Optional("httpDate", TimeAs("http-date")),
  Optional("epoch", TimeAs("epoch-seconds")), Optional("names", Ref("StringList")),
  Optional("uniqueNames", Ref("UniqueStringList")),
  Optional("sparseNumbers", Ref("SparseIntegerList")),
  Optional("attributes", Ref("StringMap")), Optional("nested", Ref("NestedConfig")),
  Optional("choice", Ref("SinkChoice"))>>)
SinkNotFoundSerde == Structure(<<Required("message", Str), Optional("resourceType", Str)>>)
PingInputSerde == Structure(<<>>)
PingOutputSerde == Structure(<<>>)
SinkQuotaExceededSerde == Structure(<<
  Optional("message", Str), Optional("retryAfterSeconds", I32)>>)
PutSinkRpcInputSerde == Structure(<<Required("sinkId", Str), Optional("sink", Ref("KitchenSink"))>>)
PutSinkRpcOutputSerde == Structure(<<
  Required("sinkId", Str), Optional("sink", Ref("KitchenSink"))>>)

Serdes ==
  [StringMap |-> StringMapSerde, NestedConfig |-> NestedConfigSerde,
   SinkChoice |-> SinkChoiceSerde, StringList |-> StringListSerde,
   SparseIntegerList |-> SparseIntegerListSerde, UniqueStringList |-> UniqueStringListSerde,
   KitchenSink |-> KitchenSinkSerde, SinkNotFound |-> SinkNotFoundSerde,
   PingInput |-> PingInputSerde, PingOutput |-> PingOutputSerde,
   SinkQuotaExceeded |-> SinkQuotaExceededSerde, PutSinkRpcInput |-> PutSinkRpcInputSerde,
   PutSinkRpcOutput |-> PutSinkRpcOutputSerde]

-----------------------------------------------------------------------------
(* client.cc: what each call sends and reads, and the errors it knows.     *)
PingCall == Call("", "", "")
PutSinkRpcCall == Deflating(Call("PutSinkRpcInput", "", "PutSinkRpcOutput"))
PutSinkRpcErrors == {"SinkNotFound", "SinkQuotaExceeded"}
SinkNotFoundMade == "status"
SinkQuotaExceededMade == "status"

Calls ==
  [Ping |-> PingCall, PutSinkRpc |-> PutSinkRpcCall]
Errors ==
  [Ping |-> {}, PutSinkRpc |-> PutSinkRpcErrors]
Made ==
  [SinkNotFound |-> SinkNotFoundMade, SinkQuotaExceeded |-> SinkQuotaExceededMade]

(* server.cc: what each route reads, checks and writes.                    *)
ValidateKitchenSink == Members(<<
  IfSet("priority", OneOf("Priority")), IfSet("weight", OneOf("Weight")),
  IfSet("uniqueNames", UniqueItems)>>)
ValidatePutSinkRpcInput == Members(<<IfSet("sink", Via("KitchenSink"))>>)
PingRoute == Route("", "", "PingOutput")
PutSinkRpcRoute == Inflating(Route("PutSinkRpcInput", "PutSinkRpcInput", "PutSinkRpcOutput"))
ErrorStatuses == [SinkNotFound |-> 404, SinkQuotaExceeded |-> 503]

Validators ==
  [KitchenSink |-> ValidateKitchenSink, PutSinkRpcInput |-> ValidatePutSinkRpcInput]
Routes ==
  [Ping |-> PingRoute, PutSinkRpc |-> PutSinkRpcRoute]
=============================================================================
