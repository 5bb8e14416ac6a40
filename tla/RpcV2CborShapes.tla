-------------------------- MODULE RpcV2CborShapes ---------------------------
(***************************************************************************)
(* The shapes of the rpcv2Cbor protocol tests: the value types of types.h, *)
(* and how serde.cc reads and writes each of them.                         *)
(***************************************************************************)
EXTENDS ShapeTypes

ValidationExceptionField == Struct(<<Plain("path", Str), Plain("message", Str)>>)
ValidationException == Struct(<<
  Plain("message", Str), Opt("fieldList", List(Ref("ValidationExceptionField")))>>)
ClientOptionalDefaults == Struct(<<Opt("member", I32)>>)
ComplexNestedErrorData == Struct(<<Opt("Foo", Str)>>)
ComplexError == Struct(<<Opt("TopLevel", Str), Opt("Nested", Ref("ComplexNestedErrorData"))>>)
TestEnum == Enum({"FOO", "BAR", "BAZ"})
TestIntEnum == IntEnum({1, 2})
Defaults == Struct(<<
  Def("defaultString", Str, "hi"), Def("defaultBoolean", Bool, TRUE),
  Plain("defaultList", List(Str)), Def("defaultTimestamp", Time, 0),
  Def("defaultBlob", Blob, "abc"), Def("defaultByte", I8, Small(1)),
  Def("defaultShort", I16, Small(1)), Def("defaultInteger", I32, Small(10)),
  Def("defaultLong", I64, Small(100)), Def("defaultFloat", F32, Num(1)),
  Def("defaultDouble", F64, Num(1)), Plain("defaultMap", Map(Str)),
  Def("defaultEnum", Ref("TestEnum"), "FOO"),
  Def("defaultIntEnum", Ref("TestIntEnum"), Small(1)), Def("emptyString", Str, ""),
  Def("falseBoolean", Bool, FALSE), Def("emptyBlob", Blob, ""),
  Def("zeroByte", I8, Small(0)), Def("zeroShort", I16, Small(0)),
  Def("zeroInteger", I32, Small(0)), Def("zeroLong", I64, Small(0)),
  Def("zeroFloat", F32, Num(0)), Def("zeroDouble", F64, Num(0))>>)
GreetingStruct == Struct(<<Opt("hi", Str)>>)
EmptyInputOutputInput == Struct(<<>>)
EmptyInputOutputOutput == Struct(<<>>)
Float16Input == Struct(<<>>)
Float16Output == Struct(<<Opt("value", F64)>>)
FractionalSecondsInput == Struct(<<>>)
FractionalSecondsOutput == Struct(<<Opt("datetime", Time)>>)
GreetingWithErrorsInput == Struct(<<>>)
GreetingWithErrorsOutput == Struct(<<Opt("greeting", Str)>>)
InvalidGreeting == Struct(<<Opt("Message", Str)>>)
NoInputOutputInput == Struct(<<>>)
NoInputOutputOutput == Struct(<<>>)
OperationWithDefaultsInput == Struct(<<
  Opt("defaults", Ref("Defaults")),
  Opt("clientOptionalDefaults", Ref("ClientOptionalDefaults")),
  Opt("topLevelDefault", Str), Opt("otherTopLevelDefault", I32)>>)
OperationWithDefaultsOutput == Struct(<<
  Def("defaultString", Str, "hi"), Def("defaultBoolean", Bool, TRUE),
  Plain("defaultList", List(Str)), Def("defaultTimestamp", Time, 0),
  Def("defaultBlob", Blob, "abc"), Def("defaultByte", I8, Small(1)),
  Def("defaultShort", I16, Small(1)), Def("defaultInteger", I32, Small(10)),
  Def("defaultLong", I64, Small(100)), Def("defaultFloat", F32, Num(1)),
  Def("defaultDouble", F64, Num(1)), Plain("defaultMap", Map(Str)),
  Def("defaultEnum", Ref("TestEnum"), "FOO"),
  Def("defaultIntEnum", Ref("TestIntEnum"), Small(1)), Def("emptyString", Str, ""),
  Def("falseBoolean", Bool, FALSE), Def("emptyBlob", Blob, ""),
  Def("zeroByte", I8, Small(0)), Def("zeroShort", I16, Small(0)),
  Def("zeroInteger", I32, Small(0)), Def("zeroLong", I64, Small(0)),
  Def("zeroFloat", F32, Num(0)), Def("zeroDouble", F64, Num(0))>>)
OptionalInputOutputInput == Struct(<<Opt("value", Str)>>)
OptionalInputOutputOutput == Struct(<<Opt("value", Str)>>)
RpcV2CborDenseMapsInput == Struct(<<
  Opt("denseStructMap", Map(Ref("GreetingStruct"))), Opt("denseNumberMap", Map(I32)),
  Opt("denseBooleanMap", Map(Bool)), Opt("denseStringMap", Map(Str)),
  Opt("denseSetMap", Map(List(Str)))>>)
RpcV2CborDenseMapsOutput == Struct(<<
  Opt("denseStructMap", Map(Ref("GreetingStruct"))), Opt("denseNumberMap", Map(I32)),
  Opt("denseBooleanMap", Map(Bool)), Opt("denseStringMap", Map(Str)),
  Opt("denseSetMap", Map(List(Str)))>>)
FooEnum == Enum({"Foo", "Baz", "Bar", "1", "0"})
IntegerEnum == IntEnum({1, 2, 3})
StructureListMember == Struct(<<Opt("a", Str), Opt("b", Str)>>)
RpcV2CborListsInput == Struct(<<
  Opt("stringList", List(Str)), Opt("stringSet", List(Str)),
  Opt("integerList", List(I32)), Opt("booleanList", List(Bool)),
  Opt("timestampList", List(Time)), Opt("enumList", List(Ref("FooEnum"))),
  Opt("intEnumList", List(Ref("IntegerEnum"))), Opt("nestedStringList", List(List(Str))),
  Opt("structureList", List(Ref("StructureListMember"))), Opt("blobList", List(Blob))>>)
RpcV2CborListsOutput == Struct(<<
  Opt("stringList", List(Str)), Opt("stringSet", List(Str)),
  Opt("integerList", List(I32)), Opt("booleanList", List(Bool)),
  Opt("timestampList", List(Time)), Opt("enumList", List(Ref("FooEnum"))),
  Opt("intEnumList", List(Ref("IntegerEnum"))), Opt("nestedStringList", List(List(Str))),
  Opt("structureList", List(Ref("StructureListMember"))), Opt("blobList", List(Blob))>>)
RpcV2CborNestedUnion == Union(<<Opt("stringValue", Str)>>)
RpcV2CborSparseMapsInput == Struct(<<
  Opt("sparseStructMap", SparseMap(Ref("GreetingStruct"))),
  Opt("sparseNumberMap", SparseMap(I32)), Opt("sparseBooleanMap", SparseMap(Bool)),
  Opt("sparseStringMap", SparseMap(Str)), Opt("sparseSetMap", SparseMap(List(Str)))>>)
RpcV2CborSparseMapsOutput == Struct(<<
  Opt("sparseStructMap", SparseMap(Ref("GreetingStruct"))),
  Opt("sparseNumberMap", SparseMap(I32)), Opt("sparseBooleanMap", SparseMap(Bool)),
  Opt("sparseStringMap", SparseMap(Str)), Opt("sparseSetMap", SparseMap(List(Str)))>>)
RpcV2CborUnion == Union(<<Opt("stringValue", Str), Opt("unionValue", Ref("RpcV2CborNestedUnion"))>>)
RpcV2CborUnionsInput == Struct(<<Opt("contents", Ref("RpcV2CborUnion")), Opt("otherValue", Str)>>)
RpcV2CborUnionsOutput == Struct(<<Opt("contents", Ref("RpcV2CborUnion")), Opt("otherValue", Str)>>)
SimpleScalarPropertiesInput == Struct(<<
  Opt("trueBooleanValue", Bool), Opt("falseBooleanValue", Bool), Opt("byteValue", I8),
  Opt("doubleValue", F64), Opt("floatValue", F32), Opt("integerValue", I32),
  Opt("longValue", I64), Opt("shortValue", I16), Opt("stringValue", Str),
  Opt("blobValue", Blob)>>)
SimpleScalarPropertiesOutput == Struct(<<
  Opt("trueBooleanValue", Bool), Opt("falseBooleanValue", Bool), Opt("byteValue", I8),
  Opt("doubleValue", F64), Opt("floatValue", F32), Opt("integerValue", I32),
  Opt("longValue", I64), Opt("shortValue", I16), Opt("stringValue", Str),
  Opt("blobValue", Blob)>>)
SparseNullsOperationInput == Struct(<<
  Opt("sparseStringList", SparseList(Str)), Opt("sparseStringMap", SparseMap(Str))>>)
SparseNullsOperationOutput == Struct(<<
  Opt("sparseStringList", SparseList(Str)), Opt("sparseStringMap", SparseMap(Str))>>)
RecursiveShapesInputOutputNested1 == Struct(<<
  Opt("foo", Str), Opt("nested", Ref("RecursiveShapesInputOutputNested2"))>>)
RecursiveShapesInputOutputNested2 == Struct(<<
  Opt("bar", Str), Opt("recursiveMember", Ref("RecursiveShapesInputOutputNested1"))>>)
RecursiveShapesInput == Struct(<<Opt("nested", Ref("RecursiveShapesInputOutputNested1"))>>)
RecursiveShapesOutput == Struct(<<Opt("nested", Ref("RecursiveShapesInputOutputNested1"))>>)

Types ==
  [ValidationExceptionField |-> ValidationExceptionField,
   ValidationException |-> ValidationException,
   ClientOptionalDefaults |-> ClientOptionalDefaults,
   ComplexNestedErrorData |-> ComplexNestedErrorData, ComplexError |-> ComplexError,
   TestEnum |-> TestEnum, TestIntEnum |-> TestIntEnum, Defaults |-> Defaults,
   GreetingStruct |-> GreetingStruct, EmptyInputOutputInput |-> EmptyInputOutputInput,
   EmptyInputOutputOutput |-> EmptyInputOutputOutput, Float16Input |-> Float16Input,
   Float16Output |-> Float16Output, FractionalSecondsInput |-> FractionalSecondsInput,
   FractionalSecondsOutput |-> FractionalSecondsOutput,
   GreetingWithErrorsInput |-> GreetingWithErrorsInput,
   GreetingWithErrorsOutput |-> GreetingWithErrorsOutput, InvalidGreeting |-> InvalidGreeting,
   NoInputOutputInput |-> NoInputOutputInput, NoInputOutputOutput |-> NoInputOutputOutput,
   OperationWithDefaultsInput |-> OperationWithDefaultsInput,
   OperationWithDefaultsOutput |-> OperationWithDefaultsOutput,
   OptionalInputOutputInput |-> OptionalInputOutputInput,
   OptionalInputOutputOutput |-> OptionalInputOutputOutput,
   RpcV2CborDenseMapsInput |-> RpcV2CborDenseMapsInput,
   RpcV2CborDenseMapsOutput |-> RpcV2CborDenseMapsOutput, FooEnum |-> FooEnum,
   IntegerEnum |-> IntegerEnum, StructureListMember |-> StructureListMember,
   RpcV2CborListsInput |-> RpcV2CborListsInput, RpcV2CborListsOutput |-> RpcV2CborListsOutput,
   RpcV2CborNestedUnion |-> RpcV2CborNestedUnion,
   RpcV2CborSparseMapsInput |-> RpcV2CborSparseMapsInput,
   RpcV2CborSparseMapsOutput |-> RpcV2CborSparseMapsOutput, RpcV2CborUnion |-> RpcV2CborUnion,
   RpcV2CborUnionsInput |-> RpcV2CborUnionsInput,
   RpcV2CborUnionsOutput |-> RpcV2CborUnionsOutput,
   SimpleScalarPropertiesInput |-> SimpleScalarPropertiesInput,
   SimpleScalarPropertiesOutput |-> SimpleScalarPropertiesOutput,
   SparseNullsOperationInput |-> SparseNullsOperationInput,
   SparseNullsOperationOutput |-> SparseNullsOperationOutput,
   RecursiveShapesInputOutputNested1 |-> RecursiveShapesInputOutputNested1,
   RecursiveShapesInputOutputNested2 |-> RecursiveShapesInputOutputNested2,
   RecursiveShapesInput |-> RecursiveShapesInput,
   RecursiveShapesOutput |-> RecursiveShapesOutput]

-----------------------------------------------------------------------------
ValidationExceptionFieldSerde == Structure(<<Required("path", Str), Required("message", Str)>>)
ValidationExceptionFieldListSerde == List(Ref("ValidationExceptionField"))
ValidationExceptionSerde == Structure(<<
  Required("message", Str), Optional("fieldList", Ref("ValidationExceptionFieldList"))>>)
ClientOptionalDefaultsSerde == Structure(<<Optional("member", I32)>>)
ComplexNestedErrorDataSerde == Structure(<<Optional("Foo", Str)>>)
ComplexErrorSerde == Structure(<<
  Optional("TopLevel", Str), Optional("Nested", Ref("ComplexNestedErrorData"))>>)
TestStringListSerde == List(Str)
TestStringMapSerde == Map(Str)
DefaultsSerde == Structure(<<
  Filled("defaultString", Str), Filled("defaultBoolean", Bool),
  Filled("defaultList", Ref("TestStringList")),
  Filled("defaultTimestamp", TimeAs("epoch-seconds")), Filled("defaultBlob", Blob),
  Filled("defaultByte", I8), Filled("defaultShort", I16), Filled("defaultInteger", I32),
  Filled("defaultLong", I64), Filled("defaultFloat", F32), Filled("defaultDouble", F64),
  Filled("defaultMap", Ref("TestStringMap")), Filled("defaultEnum", EnumOf("TestEnum")),
  Filled("defaultIntEnum", IntEnumOf("TestIntEnum")), Filled("emptyString", Str),
  Filled("falseBoolean", Bool), Filled("emptyBlob", Blob), Filled("zeroByte", I8),
  Filled("zeroShort", I16), Filled("zeroInteger", I32), Filled("zeroLong", I64),
  Filled("zeroFloat", F32), Filled("zeroDouble", F64)>>)
DenseBooleanMapSerde == Map(Bool)
DenseNumberMapSerde == Map(I32)
StringSetSerde == List(Str)
DenseSetMapSerde == Map(Ref("StringSet"))
DenseStringMapSerde == Map(Str)
GreetingStructSerde == Structure(<<Optional("hi", Str)>>)
DenseStructMapSerde == Map(Ref("GreetingStruct"))
EmptyInputOutputInputSerde == Structure(<<>>)
EmptyInputOutputOutputSerde == Structure(<<>>)
Float16InputSerde == Structure(<<>>)
Float16OutputSerde == Structure(<<Optional("value", F64)>>)
FractionalSecondsInputSerde == Structure(<<>>)
FractionalSecondsOutputSerde == Structure(<<Optional("datetime", TimeAs("date-time"))>>)
GreetingWithErrorsInputSerde == Structure(<<>>)
GreetingWithErrorsOutputSerde == Structure(<<Optional("greeting", Str)>>)
InvalidGreetingSerde == Structure(<<Optional("Message", Str)>>)
NoInputOutputInputSerde == Structure(<<>>)
NoInputOutputOutputSerde == Structure(<<>>)
OperationWithDefaultsInputSerde == Structure(<<
  Optional("defaults", Ref("Defaults")),
  Optional("clientOptionalDefaults", Ref("ClientOptionalDefaults")),
  FilledIn("topLevelDefault", Str, "hi"), FilledIn("otherTopLevelDefault", I32, Small(0))>>)
OperationWithDefaultsOutputSerde == Structure(<<
  Filled("defaultString", Str), Filled("defaultBoolean", Bool),
  Filled("defaultList", Ref("TestStringList")),
  Filled("defaultTimestamp", TimeAs("epoch-seconds")), Filled("defaultBlob", Blob),
  Filled("defaultByte", I8), Filled("defaultShort", I16), Filled("defaultInteger", I32),
  Filled("defaultLong", I64), Filled("defaultFloat", F32), Filled("defaultDouble", F64),
  Filled("defaultMap", Ref("TestStringMap")), Filled("defaultEnum", EnumOf("TestEnum")),
  Filled("defaultIntEnum", IntEnumOf("TestIntEnum")), Filled("emptyString", Str),
  Filled("falseBoolean", Bool), Filled("emptyBlob", Blob), Filled("zeroByte", I8),
  Filled("zeroShort", I16), Filled("zeroInteger", I32), Filled("zeroLong", I64),
  Filled("zeroFloat", F32), Filled("zeroDouble", F64)>>)
OptionalInputOutputInputSerde == Structure(<<Optional("value", Str)>>)
OptionalInputOutputOutputSerde == Structure(<<Optional("value", Str)>>)
RpcV2CborDenseMapsInputSerde == Structure(<<
  Optional("denseStructMap", Ref("DenseStructMap")),
  Optional("denseNumberMap", Ref("DenseNumberMap")),
  Optional("denseBooleanMap", Ref("DenseBooleanMap")),
  Optional("denseStringMap", Ref("DenseStringMap")),
  Optional("denseSetMap", Ref("DenseSetMap"))>>)
RpcV2CborDenseMapsOutputSerde == Structure(<<
  Optional("denseStructMap", Ref("DenseStructMap")),
  Optional("denseNumberMap", Ref("DenseNumberMap")),
  Optional("denseBooleanMap", Ref("DenseBooleanMap")),
  Optional("denseStringMap", Ref("DenseStringMap")),
  Optional("denseSetMap", Ref("DenseSetMap"))>>)
BlobListSerde == List(Blob)
BooleanListSerde == List(Bool)
FooEnumListSerde == List(EnumOf("FooEnum"))
IntegerListSerde == List(I32)
IntegerEnumListSerde == List(IntEnumOf("IntegerEnum"))
StringListSerde == List(Str)
NestedStringListSerde == List(Ref("StringList"))
StructureListMemberSerde == Structure(<<Optional("a", Str), Optional("b", Str)>>)
StructureListSerde == List(Ref("StructureListMember"))
TimestampListSerde == List(TimeAs("epoch-seconds"))
RpcV2CborListsInputSerde == Structure(<<
  Optional("stringList", Ref("StringList")), Optional("stringSet", Ref("StringSet")),
  Optional("integerList", Ref("IntegerList")),
  Optional("booleanList", Ref("BooleanList")),
  Optional("timestampList", Ref("TimestampList")),
  Optional("enumList", Ref("FooEnumList")),
  Optional("intEnumList", Ref("IntegerEnumList")),
  Optional("nestedStringList", Ref("NestedStringList")),
  Optional("structureList", Ref("StructureList")), Optional("blobList", Ref("BlobList"))>>)
RpcV2CborListsOutputSerde == Structure(<<
  Optional("stringList", Ref("StringList")), Optional("stringSet", Ref("StringSet")),
  Optional("integerList", Ref("IntegerList")),
  Optional("booleanList", Ref("BooleanList")),
  Optional("timestampList", Ref("TimestampList")),
  Optional("enumList", Ref("FooEnumList")),
  Optional("intEnumList", Ref("IntegerEnumList")),
  Optional("nestedStringList", Ref("NestedStringList")),
  Optional("structureList", Ref("StructureList")), Optional("blobList", Ref("BlobList"))>>)
RpcV2CborNestedUnionSerde == Tagged(<<Optional("stringValue", Str)>>, FALSE)
SparseBooleanMapSerde == SparseMap(Bool)
SparseNumberMapSerde == SparseMap(I32)
SparseSetMapSerde == SparseMap(Ref("StringSet"))
SparseStringMapSerde == SparseMap(Str)
SparseStructMapSerde == SparseMap(Ref("GreetingStruct"))
RpcV2CborSparseMapsInputSerde == Structure(<<
  Optional("sparseStructMap", Ref("SparseStructMap")),
  Optional("sparseNumberMap", Ref("SparseNumberMap")),
  Optional("sparseBooleanMap", Ref("SparseBooleanMap")),
  Optional("sparseStringMap", Ref("SparseStringMap")),
  Optional("sparseSetMap", Ref("SparseSetMap"))>>)
RpcV2CborSparseMapsOutputSerde == Structure(<<
  Optional("sparseStructMap", Ref("SparseStructMap")),
  Optional("sparseNumberMap", Ref("SparseNumberMap")),
  Optional("sparseBooleanMap", Ref("SparseBooleanMap")),
  Optional("sparseStringMap", Ref("SparseStringMap")),
  Optional("sparseSetMap", Ref("SparseSetMap"))>>)
RpcV2CborUnionSerde == Tagged(<<
  Optional("stringValue", Str), Optional("unionValue", Ref("RpcV2CborNestedUnion"))>>, FALSE)
RpcV2CborUnionsInputSerde == Structure(<<
  Optional("contents", Ref("RpcV2CborUnion")), Optional("otherValue", Str)>>)
RpcV2CborUnionsOutputSerde == Structure(<<
  Optional("contents", Ref("RpcV2CborUnion")), Optional("otherValue", Str)>>)
SimpleScalarPropertiesInputSerde == Structure(<<
  Optional("trueBooleanValue", Bool), Optional("falseBooleanValue", Bool),
  Optional("byteValue", I8), Optional("doubleValue", F64), Optional("floatValue", F32),
  Optional("integerValue", I32), Optional("longValue", I64), Optional("shortValue", I16),
  Optional("stringValue", Str), Optional("blobValue", Blob)>>)
SimpleScalarPropertiesOutputSerde == Structure(<<
  Optional("trueBooleanValue", Bool), Optional("falseBooleanValue", Bool),
  Optional("byteValue", I8), Optional("doubleValue", F64), Optional("floatValue", F32),
  Optional("integerValue", I32), Optional("longValue", I64), Optional("shortValue", I16),
  Optional("stringValue", Str), Optional("blobValue", Blob)>>)
SparseStringListSerde == SparseList(Str)
SparseNullsOperationInputSerde == Structure(<<
  Optional("sparseStringList", Ref("SparseStringList")),
  Optional("sparseStringMap", Ref("SparseStringMap"))>>)
SparseNullsOperationOutputSerde == Structure(<<
  Optional("sparseStringList", Ref("SparseStringList")),
  Optional("sparseStringMap", Ref("SparseStringMap"))>>)
RecursiveShapesInputSerde == Structure(<<
  Optional("nested", Ref("RecursiveShapesInputOutputNested1"))>>)
RecursiveShapesInputOutputNested1Serde == Structure(<<
  Optional("foo", Str), Optional("nested", Ref("RecursiveShapesInputOutputNested2"))>>)
RecursiveShapesInputOutputNested2Serde == Structure(<<
  Optional("bar", Str),
  Optional("recursiveMember", Ref("RecursiveShapesInputOutputNested1"))>>)
RecursiveShapesOutputSerde == Structure(<<
  Optional("nested", Ref("RecursiveShapesInputOutputNested1"))>>)

Serdes ==
  [ValidationExceptionField |-> ValidationExceptionFieldSerde,
   ValidationExceptionFieldList |-> ValidationExceptionFieldListSerde,
   ValidationException |-> ValidationExceptionSerde,
   ClientOptionalDefaults |-> ClientOptionalDefaultsSerde,
   ComplexNestedErrorData |-> ComplexNestedErrorDataSerde, ComplexError |-> ComplexErrorSerde,
   TestStringList |-> TestStringListSerde, TestStringMap |-> TestStringMapSerde,
   Defaults |-> DefaultsSerde, DenseBooleanMap |-> DenseBooleanMapSerde,
   DenseNumberMap |-> DenseNumberMapSerde, StringSet |-> StringSetSerde,
   DenseSetMap |-> DenseSetMapSerde, DenseStringMap |-> DenseStringMapSerde,
   GreetingStruct |-> GreetingStructSerde, DenseStructMap |-> DenseStructMapSerde,
   EmptyInputOutputInput |-> EmptyInputOutputInputSerde,
   EmptyInputOutputOutput |-> EmptyInputOutputOutputSerde, Float16Input |-> Float16InputSerde,
   Float16Output |-> Float16OutputSerde,
   FractionalSecondsInput |-> FractionalSecondsInputSerde,
   FractionalSecondsOutput |-> FractionalSecondsOutputSerde,
   GreetingWithErrorsInput |-> GreetingWithErrorsInputSerde,
   GreetingWithErrorsOutput |-> GreetingWithErrorsOutputSerde,
   InvalidGreeting |-> InvalidGreetingSerde, NoInputOutputInput |-> NoInputOutputInputSerde,
   NoInputOutputOutput |-> NoInputOutputOutputSerde,
   OperationWithDefaultsInput |-> OperationWithDefaultsInputSerde,
   OperationWithDefaultsOutput |-> OperationWithDefaultsOutputSerde,
   OptionalInputOutputInput |-> OptionalInputOutputInputSerde,
   OptionalInputOutputOutput |-> OptionalInputOutputOutputSerde,
   RpcV2CborDenseMapsInput |-> RpcV2CborDenseMapsInputSerde,
   RpcV2CborDenseMapsOutput |-> RpcV2CborDenseMapsOutputSerde, BlobList |-> BlobListSerde,
   BooleanList |-> BooleanListSerde, FooEnumList |-> FooEnumListSerde,
   IntegerList |-> IntegerListSerde, IntegerEnumList |-> IntegerEnumListSerde,
   StringList |-> StringListSerde, NestedStringList |-> NestedStringListSerde,
   StructureListMember |-> StructureListMemberSerde, StructureList |-> StructureListSerde,
   TimestampList |-> TimestampListSerde, RpcV2CborListsInput |-> RpcV2CborListsInputSerde,
   RpcV2CborListsOutput |-> RpcV2CborListsOutputSerde,
   RpcV2CborNestedUnion |-> RpcV2CborNestedUnionSerde,
   SparseBooleanMap |-> SparseBooleanMapSerde, SparseNumberMap |-> SparseNumberMapSerde,
   SparseSetMap |-> SparseSetMapSerde, SparseStringMap |-> SparseStringMapSerde,
   SparseStructMap |-> SparseStructMapSerde,
   RpcV2CborSparseMapsInput |-> RpcV2CborSparseMapsInputSerde,
   RpcV2CborSparseMapsOutput |-> RpcV2CborSparseMapsOutputSerde,
   RpcV2CborUnion |-> RpcV2CborUnionSerde, RpcV2CborUnionsInput |-> RpcV2CborUnionsInputSerde,
   RpcV2CborUnionsOutput |-> RpcV2CborUnionsOutputSerde,
   SimpleScalarPropertiesInput |-> SimpleScalarPropertiesInputSerde,
   SimpleScalarPropertiesOutput |-> SimpleScalarPropertiesOutputSerde,
   SparseStringList |-> SparseStringListSerde,
   SparseNullsOperationInput |-> SparseNullsOperationInputSerde,
   SparseNullsOperationOutput |-> SparseNullsOperationOutputSerde,
   RecursiveShapesInput |-> RecursiveShapesInputSerde,
   RecursiveShapesInputOutputNested1 |-> RecursiveShapesInputOutputNested1Serde,
   RecursiveShapesInputOutputNested2 |-> RecursiveShapesInputOutputNested2Serde,
   RecursiveShapesOutput |-> RecursiveShapesOutputSerde]

-----------------------------------------------------------------------------
(* client.cc: what each call sends and reads, and the errors it knows.     *)
EmptyInputOutputCall == Call("EmptyInputOutputInput", "", "")
Float16Call == Lenient(Call("", "", "Float16Output"))
FractionalSecondsCall == Lenient(Call("", "", "FractionalSecondsOutput"))
GreetingWithErrorsCall == Lenient(Call("", "", "GreetingWithErrorsOutput"))
NoInputOutputCall == Call("", "", "")
OperationWithDefaultsCall ==
  Lenient(Call("OperationWithDefaultsInput", "", "OperationWithDefaultsOutput"))
OptionalInputOutputCall ==
  Lenient(Call("OptionalInputOutputInput", "", "OptionalInputOutputOutput"))
RecursiveShapesCall == Lenient(Call("RecursiveShapesInput", "", "RecursiveShapesOutput"))
RpcV2CborDenseMapsCall == Lenient(Call("RpcV2CborDenseMapsInput", "", "RpcV2CborDenseMapsOutput"))
RpcV2CborListsCall == Lenient(Call("RpcV2CborListsInput", "", "RpcV2CborListsOutput"))
RpcV2CborSparseMapsCall ==
  Lenient(Call("RpcV2CborSparseMapsInput", "", "RpcV2CborSparseMapsOutput"))
RpcV2CborUnionsCall == Lenient(Call("RpcV2CborUnionsInput", "", "RpcV2CborUnionsOutput"))
SimpleScalarPropertiesCall ==
  Lenient(Call("SimpleScalarPropertiesInput", "", "SimpleScalarPropertiesOutput"))
SparseNullsOperationCall ==
  Lenient(Call("SparseNullsOperationInput", "", "SparseNullsOperationOutput"))
GreetingWithErrorsErrors == {"ComplexError", "InvalidGreeting"}
OperationWithDefaultsErrors == {"ValidationException"}
RpcV2CborDenseMapsErrors == {"ValidationException"}
RpcV2CborListsErrors == {"ValidationException"}
RpcV2CborSparseMapsErrors == {"ValidationException"}
ComplexErrorMade == "status"
InvalidGreetingMade == "status"
ValidationExceptionMade == "status"

Calls ==
  [EmptyInputOutput |-> EmptyInputOutputCall, Float16 |-> Float16Call,
   FractionalSeconds |-> FractionalSecondsCall, GreetingWithErrors |-> GreetingWithErrorsCall,
   NoInputOutput |-> NoInputOutputCall, OperationWithDefaults |-> OperationWithDefaultsCall,
   OptionalInputOutput |-> OptionalInputOutputCall, RecursiveShapes |-> RecursiveShapesCall,
   RpcV2CborDenseMaps |-> RpcV2CborDenseMapsCall, RpcV2CborLists |-> RpcV2CborListsCall,
   RpcV2CborSparseMaps |-> RpcV2CborSparseMapsCall, RpcV2CborUnions |-> RpcV2CborUnionsCall,
   SimpleScalarProperties |-> SimpleScalarPropertiesCall,
   SparseNullsOperation |-> SparseNullsOperationCall]
Errors ==
  [EmptyInputOutput |-> {}, Float16 |-> {}, FractionalSeconds |-> {},
   GreetingWithErrors |-> GreetingWithErrorsErrors, NoInputOutput |-> {},
   OperationWithDefaults |-> OperationWithDefaultsErrors, OptionalInputOutput |-> {},
   RecursiveShapes |-> {}, RpcV2CborDenseMaps |-> RpcV2CborDenseMapsErrors,
   RpcV2CborLists |-> RpcV2CborListsErrors, RpcV2CborSparseMaps |-> RpcV2CborSparseMapsErrors,
   RpcV2CborUnions |-> {}, SimpleScalarProperties |-> {}, SparseNullsOperation |-> {}]
Made ==
  [ComplexError |-> ComplexErrorMade, InvalidGreeting |-> InvalidGreetingMade,
   ValidationException |-> ValidationExceptionMade]

(* server.cc: what each route reads, checks and writes.                    *)
ValidateDefaults == Members(<<
  At("defaultEnum", OneOf("TestEnum")), At("defaultIntEnum", OneOf("TestIntEnum"))>>)
ValidateDenseSetMap == Each(UniqueItems)
ValidateOperationWithDefaultsInput == Members(<<IfSet("defaults", Via("Defaults"))>>)
ValidateRpcV2CborDenseMapsInput == Members(<<IfSet("denseSetMap", Via("DenseSetMap"))>>)
ValidateFooEnumList == Each(OneOf("FooEnum"))
ValidateIntegerEnumList == Each(OneOf("IntegerEnum"))
ValidateRpcV2CborListsInput == Members(<<
  IfSet("stringSet", UniqueItems), IfSet("enumList", Via("FooEnumList")),
  IfSet("intEnumList", Via("IntegerEnumList"))>>)
ValidateSparseSetMap == EachSet(UniqueItems)
ValidateRpcV2CborSparseMapsInput == Members(<<IfSet("sparseSetMap", Via("SparseSetMap"))>>)
EmptyInputOutputRoute == Route("EmptyInputOutputInput", "", "EmptyInputOutputOutput")
Float16Route == Route("", "", "Float16Output")
FractionalSecondsRoute == Route("", "", "FractionalSecondsOutput")
GreetingWithErrorsRoute == Route("", "", "GreetingWithErrorsOutput")
NoInputOutputRoute == Route("", "", "NoInputOutputOutput")
OperationWithDefaultsRoute ==
  Route("OperationWithDefaultsInput", "OperationWithDefaultsInput", "OperationWithDefaultsOutput")
OptionalInputOutputRoute == Route("OptionalInputOutputInput", "", "OptionalInputOutputOutput")
RecursiveShapesRoute == Route("RecursiveShapesInput", "", "RecursiveShapesOutput")
RpcV2CborDenseMapsRoute ==
  Route("RpcV2CborDenseMapsInput", "RpcV2CborDenseMapsInput", "RpcV2CborDenseMapsOutput")
RpcV2CborListsRoute == Route("RpcV2CborListsInput", "RpcV2CborListsInput", "RpcV2CborListsOutput")
RpcV2CborSparseMapsRoute ==
  Route("RpcV2CborSparseMapsInput", "RpcV2CborSparseMapsInput", "RpcV2CborSparseMapsOutput")
RpcV2CborUnionsRoute == Route("RpcV2CborUnionsInput", "", "RpcV2CborUnionsOutput")
SimpleScalarPropertiesRoute ==
  Route("SimpleScalarPropertiesInput", "", "SimpleScalarPropertiesOutput")
SparseNullsOperationRoute == Route("SparseNullsOperationInput", "", "SparseNullsOperationOutput")
ErrorStatuses == [ComplexError |-> 400, InvalidGreeting |-> 400, ValidationException |-> 400]

Validators ==
  [Defaults |-> ValidateDefaults, DenseSetMap |-> ValidateDenseSetMap,
   OperationWithDefaultsInput |-> ValidateOperationWithDefaultsInput,
   RpcV2CborDenseMapsInput |-> ValidateRpcV2CborDenseMapsInput,
   FooEnumList |-> ValidateFooEnumList, IntegerEnumList |-> ValidateIntegerEnumList,
   RpcV2CborListsInput |-> ValidateRpcV2CborListsInput, SparseSetMap |-> ValidateSparseSetMap,
   RpcV2CborSparseMapsInput |-> ValidateRpcV2CborSparseMapsInput]
Routes ==
  [EmptyInputOutput |-> EmptyInputOutputRoute, Float16 |-> Float16Route,
   FractionalSeconds |-> FractionalSecondsRoute,
   GreetingWithErrors |-> GreetingWithErrorsRoute, NoInputOutput |-> NoInputOutputRoute,
   OperationWithDefaults |-> OperationWithDefaultsRoute,
   OptionalInputOutput |-> OptionalInputOutputRoute, RecursiveShapes |-> RecursiveShapesRoute,
   RpcV2CborDenseMaps |-> RpcV2CborDenseMapsRoute, RpcV2CborLists |-> RpcV2CborListsRoute,
   RpcV2CborSparseMaps |-> RpcV2CborSparseMapsRoute, RpcV2CborUnions |-> RpcV2CborUnionsRoute,
   SimpleScalarProperties |-> SimpleScalarPropertiesRoute,
   SparseNullsOperation |-> SparseNullsOperationRoute]
=============================================================================
