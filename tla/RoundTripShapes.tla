-------------------------- MODULE RoundTripShapes ---------------------------
(***************************************************************************)
(* The shapes of the REST round-trip example: the value types of types.h,  *)
(* and how serde.cc reads and writes each of them.                         *)
(***************************************************************************)
EXTENDS ShapeTypes

DescribeSinkError == Struct(<<Plain("message", Str)>>)
DescribeSinkInput == Struct(<<Plain("sinkId", Str)>>)
NestedConfig == Struct(<<Plain("label", Str), Opt("depth", I32)>>)
SinkChoice == Union(<<Opt("text", Str), Opt("count", I32), Opt("nested", Ref("NestedConfig"))>>)
Priority == Enum({"low", "medium", "high"})
Weight == IntEnum({1, 2})
KitchenSink == Struct(<<
  Plain("name", Str), Opt("flag", Bool), Opt("tiny", I8), Opt("small", I16),
  Opt("medium", I32), Opt("big", I64), Opt("ratio", F32), Opt("precise", F64),
  Opt("blob", Blob), Opt("priority", Ref("Priority")), Opt("weight", Ref("Weight")),
  Opt("dateTime", Time), Opt("httpDate", Time), Opt("epoch", Time),
  Opt("names", List(Str)), Opt("uniqueNames", List(Str)),
  Opt("sparseNumbers", SparseList(I32)), Opt("attributes", Map(Str)),
  Opt("nested", Ref("NestedConfig")), Opt("choice", Ref("SinkChoice"))>>)
DescribeSinkOutput == Struct(<<Opt("sink", Ref("KitchenSink"))>>)
SinkNotFound == Struct(<<Plain("message", Str), Opt("resourceType", Str)>>)
PutSinkInput == Struct(<<
  Plain("sinkId", Str), Opt("tag", Str), Plain("limit", I32),
  Opt("priority", Ref("Priority")), Plain("created", Time), Opt("metadata", Map(Str)),
  Opt("sink", Ref("KitchenSink")), Opt("freeform", Doc)>>)
PutSinkResponse == Struct(<<Opt("note", Str)>>)
PutSinkOutput == Struct(<<
  Plain("sinkId", Str), Opt("revision", I32), Opt("echoedMetadata", Map(Str)),
  Opt("sink", Ref("KitchenSink")), Opt("echo", Ref("PutSinkResponse"))>>)
SinkQuotaExceeded == Struct(<<Opt("message", Str), Opt("retryAfterSeconds", I32)>>)
Receipt == Struct(<<Plain("receiptId", Str), Opt("size", I64)>>)
UploadAttachmentInput == Struct(<<Plain("sinkId", Str), Opt("name", Str), Opt("data", Blob)>>)
UploadAttachmentOutput == Struct(<<Opt("receipt", Ref("Receipt"))>>)

Types ==
  [DescribeSinkError |-> DescribeSinkError, DescribeSinkInput |-> DescribeSinkInput,
   NestedConfig |-> NestedConfig, SinkChoice |-> SinkChoice, Priority |-> Priority,
   Weight |-> Weight, KitchenSink |-> KitchenSink, DescribeSinkOutput |-> DescribeSinkOutput,
   SinkNotFound |-> SinkNotFound, PutSinkInput |-> PutSinkInput,
   PutSinkResponse |-> PutSinkResponse, PutSinkOutput |-> PutSinkOutput,
   SinkQuotaExceeded |-> SinkQuotaExceeded, Receipt |-> Receipt,
   UploadAttachmentInput |-> UploadAttachmentInput,
   UploadAttachmentOutput |-> UploadAttachmentOutput]

-----------------------------------------------------------------------------
DescribeSinkErrorSerde == Structure(<<Required("message", Str)>>)
DescribeSinkInputSerde == Structure(<<Required("sinkId", Str)>>)
StringMapSerde == Map(Str)
NestedConfigSerde == Structure(<<Required("label", Str), Optional("depth", I32)>>)
SinkChoiceSerde == Tagged(<<
  Optional("text", Str), Optional("count", I32), Optional("nested", Ref("NestedConfig"))>>, FALSE)
StringListSerde == List(Str)
SparseIntegerListSerde == SparseList(I32)
UniqueStringListSerde == List(Str)
KitchenSinkSerde == Structure(<<
  Required("name", Str), Optional("flag", Bool), Optional("tiny", I8),
  Optional("small", I16), Optional("medium", I32), Optional("big", I64),
  Optional("ratio", F32), Optional("precise", F64), Optional("blob", Blob),
  Optional("priority", EnumOf("Priority")), Optional("weight", IntEnumOf("Weight")),
  Optional("dateTime", TimeAs("date-time")), Optional("httpDate", TimeAs("http-date")),
  Optional("epoch", TimeAs("epoch-seconds")), Optional("names", Ref("StringList")),
  Optional("uniqueNames", Ref("UniqueStringList")),
  Optional("sparseNumbers", Ref("SparseIntegerList")),
  Optional("attributes", Ref("StringMap")), Optional("nested", Ref("NestedConfig")),
  Optional("choice", Ref("SinkChoice"))>>)
DescribeSinkOutputSerde == Structure(<<Optional("sink", Ref("KitchenSink"))>>)
SinkNotFoundSerde == Structure(<<Required("message", Str), Optional("resourceType", Str)>>)
PutSinkInputSerde == Structure(<<
  Required("sinkId", Str), Optional("tag", Str), Required("limit", I32),
  Optional("priority", EnumOf("Priority")), Required("created", TimeAs("epoch-seconds")),
  Optional("metadata", Ref("StringMap")), Optional("sink", Ref("KitchenSink")),
  Optional("freeform", Doc)>>)
PutSinkResponseSerde == Structure(<<Optional("note", Str)>>)
PutSinkOutputSerde == Structure(<<
  Required("sinkId", Str), Optional("revision", I32),
  Optional("echoedMetadata", Ref("StringMap")), Optional("sink", Ref("KitchenSink")),
  Optional("echo", Ref("PutSinkResponse"))>>)
SinkQuotaExceededSerde == Structure(<<
  Optional("message", Str), Optional("retryAfterSeconds", I32)>>)
ReceiptSerde == Structure(<<Required("receiptId", Str), Optional("size", I64)>>)
UploadAttachmentInputSerde == Structure(<<
  Required("sinkId", Str), Optional("name", Str), Optional("data", Blob)>>)
UploadAttachmentOutputSerde == Structure(<<Optional("receipt", Ref("Receipt"))>>)

Serdes ==
  [DescribeSinkError |-> DescribeSinkErrorSerde, DescribeSinkInput |-> DescribeSinkInputSerde,
   StringMap |-> StringMapSerde, NestedConfig |-> NestedConfigSerde,
   SinkChoice |-> SinkChoiceSerde, StringList |-> StringListSerde,
   SparseIntegerList |-> SparseIntegerListSerde, UniqueStringList |-> UniqueStringListSerde,
   KitchenSink |-> KitchenSinkSerde, DescribeSinkOutput |-> DescribeSinkOutputSerde,
   SinkNotFound |-> SinkNotFoundSerde, PutSinkInput |-> PutSinkInputSerde,
   PutSinkResponse |-> PutSinkResponseSerde, PutSinkOutput |-> PutSinkOutputSerde,
   SinkQuotaExceeded |-> SinkQuotaExceededSerde, Receipt |-> ReceiptSerde,
   UploadAttachmentInput |-> UploadAttachmentInputSerde,
   UploadAttachmentOutput |-> UploadAttachmentOutputSerde]
=============================================================================
