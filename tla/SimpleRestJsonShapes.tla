------------------------ MODULE SimpleRestJsonShapes ------------------------
(***************************************************************************)
(* The shapes of the simpleRestJson protocol tests: the value types of     *)
(* types.h, and how serde.cc reads and writes each of them.                *)
(***************************************************************************)
EXTENDS ShapeTypes

PizzaBase == Enum({"C", "T"})
Ingredient ==
  Enum({"TOMATO", "CHEESE", "PINEAPPLE", "BACON", "CHICKEN", "Salad", "MUSHROOM", "OLIVES", "ONIONS", "PEPPERONI", "PEPPERS"})
Pizza == Struct(<<
  Plain("name", Str), Plain("base", Ref("PizzaBase")),
  Plain("toppings", List(Ref("Ingredient")))>>)
Salad == Struct(<<Plain("name", Str), Plain("ingredients", List(Ref("Ingredient")))>>)
Food == Union(<<Opt("pizza", Ref("Pizza")), Opt("salad", Ref("Salad"))>>)
MenuItem == Struct(<<Plain("food", Ref("Food")), Plain("price", F32)>>)
AddMenuItemInput == Struct(<<Plain("restaurant", Str), Plain("menuItem", Ref("MenuItem"))>>)
AddMenuItemOutput == Struct(<<Plain("itemId", Str), Plain("added", Time)>>)
GenericClientError == Struct(<<Plain("message", Str)>>)
GenericServerError == Struct(<<Plain("message", Str)>>)
PriceError == Struct(<<Plain("message", Str), Plain("code", I32)>>)
CustomCodeInput == Struct(<<Plain("code", I32)>>)
CustomCodeOutput == Struct(<<Opt("code", I32)>>)
UnknownServerErrorCode == Enum({"server.error"})
UnknownServerError == Struct(<<
  Plain("errorCode", Ref("UnknownServerErrorCode")), Opt("description", Str),
  Opt("stateHash", Str)>>)
EnumResult == IntEnum({1, 2})
FallbackError == Struct(<<Plain("error", Str)>>)
TheEnum == Enum({"v1", "v2"})
GetEnumInput == Struct(<<Plain("aa", Ref("TheEnum"))>>)
GetEnumOutput == Struct(<<Opt("result", Str)>>)
GetIntEnumInput == Struct(<<Plain("aa", Ref("EnumResult"))>>)
GetIntEnumOutput == Struct(<<Plain("result", Ref("EnumResult"))>>)
GetMenuInput == Struct(<<Plain("restaurant", Str)>>)
GetMenuOutput == Struct(<<Plain("menu", Map(Ref("MenuItem")))>>)
NotFoundError == Struct(<<Plain("name", Str)>>)
HeaderEndpointInput == Struct(<<
  Opt("uppercaseHeader", Str), Opt("capitalizedHeader", Str),
  Opt("lowercaseHeader", Str), Opt("mixedHeader", Str)>>)
HeaderEndpointOutput == Struct(<<
  Opt("uppercaseHeader", Str), Opt("capitalizedHeader", Str),
  Opt("lowercaseHeader", Str), Opt("mixedHeader", Str)>>)
HealthInput == Struct(<<Opt("query", Str)>>)
HealthOutput == Struct(<<Plain("status", Str)>>)
HttpPayloadRequiredWithDefaultInput == Struct(<<Def("body", Str, "default value")>>)
HttpPayloadRequiredWithDefaultOutput == Struct(<<Def("body", Str, "default value")>>)
HttpPayloadWithDefaultInput == Struct(<<Opt("body", Str)>>)
HttpPayloadWithDefaultOutput == Struct(<<Def("body", Str, "default value")>>)
SmallStruct == Struct(<<Plain("content", Str)>>)
OpenDiscriminatedUnion == Union(<<Opt("smol", Ref("SmallStruct")), Opt("other", Doc)>>)
OpenTaggedUnion == Union(<<Opt("str", Str), Opt("other", Doc)>>)
OpenUnionsPayload == Union(<<
  Opt("tagged", Ref("OpenTaggedUnion")),
  Opt("discriminated", Ref("OpenDiscriminatedUnion"))>>)
OpenUnionsInput == Struct(<<Plain("data", Ref("OpenUnionsPayload"))>>)
OpenUnionsOutput == Struct(<<Plain("data", Ref("OpenUnionsPayload"))>>)
PreserveOrderInput == Struct(<<Opt("map", Map(I32)), Opt("document", Doc)>>)
PreserveOrderOutput == Struct(<<Opt("map", Map(I32)), Opt("document", Doc)>>)
RoundTripInput == Struct(<<
  Plain("label", Str), Opt("header", Str), Opt("query", Str), Opt("body", Str)>>)
RoundTripOutput == Struct(<<
  Plain("label", Str), Opt("header", Str), Opt("query", Str), Opt("body", Str)>>)
VersionInput == Struct(<<>>)
VersionOutput == Struct(<<Plain("version", Str)>>)

Types ==
  [PizzaBase |-> PizzaBase, Ingredient |-> Ingredient, Pizza |-> Pizza, Salad |-> Salad,
   Food |-> Food, MenuItem |-> MenuItem, AddMenuItemInput |-> AddMenuItemInput,
   AddMenuItemOutput |-> AddMenuItemOutput, GenericClientError |-> GenericClientError,
   GenericServerError |-> GenericServerError, PriceError |-> PriceError,
   CustomCodeInput |-> CustomCodeInput, CustomCodeOutput |-> CustomCodeOutput,
   UnknownServerErrorCode |-> UnknownServerErrorCode,
   UnknownServerError |-> UnknownServerError, EnumResult |-> EnumResult,
   FallbackError |-> FallbackError, TheEnum |-> TheEnum, GetEnumInput |-> GetEnumInput,
   GetEnumOutput |-> GetEnumOutput, GetIntEnumInput |-> GetIntEnumInput,
   GetIntEnumOutput |-> GetIntEnumOutput, GetMenuInput |-> GetMenuInput,
   GetMenuOutput |-> GetMenuOutput, NotFoundError |-> NotFoundError,
   HeaderEndpointInput |-> HeaderEndpointInput, HeaderEndpointOutput |-> HeaderEndpointOutput,
   HealthInput |-> HealthInput, HealthOutput |-> HealthOutput,
   HttpPayloadRequiredWithDefaultInput |-> HttpPayloadRequiredWithDefaultInput,
   HttpPayloadRequiredWithDefaultOutput |-> HttpPayloadRequiredWithDefaultOutput,
   HttpPayloadWithDefaultInput |-> HttpPayloadWithDefaultInput,
   HttpPayloadWithDefaultOutput |-> HttpPayloadWithDefaultOutput, SmallStruct |-> SmallStruct,
   OpenDiscriminatedUnion |-> OpenDiscriminatedUnion, OpenTaggedUnion |-> OpenTaggedUnion,
   OpenUnionsPayload |-> OpenUnionsPayload, OpenUnionsInput |-> OpenUnionsInput,
   OpenUnionsOutput |-> OpenUnionsOutput, PreserveOrderInput |-> PreserveOrderInput,
   PreserveOrderOutput |-> PreserveOrderOutput, RoundTripInput |-> RoundTripInput,
   RoundTripOutput |-> RoundTripOutput, VersionInput |-> VersionInput,
   VersionOutput |-> VersionOutput]

-----------------------------------------------------------------------------
IngredientsSerde == List(EnumOf("Ingredient"))
PizzaSerde == Structure(<<
  Required("name", Str), Required("base", EnumOf("PizzaBase")),
  Required("toppings", Ref("Ingredients"))>>)
SaladSerde == Structure(<<Required("name", Str), Required("ingredients", Ref("Ingredients"))>>)
FoodSerde == Tagged(<<Optional("pizza", Ref("Pizza")), Optional("salad", Ref("Salad"))>>, FALSE)
MenuItemSerde == Structure(<<Required("food", Ref("Food")), Required("price", F32)>>)
AddMenuItemInputSerde == Structure(<<
  Required("restaurant", Str), Required("menuItem", Ref("MenuItem"))>>)
AddMenuItemOutputSerde == Structure(<<
  Required("itemId", Str), Required("added", TimeAs("epoch-seconds"))>>)
GenericClientErrorSerde == Structure(<<Required("message", Str)>>)
GenericServerErrorSerde == Structure(<<Required("message", Str)>>)
PriceErrorSerde == Structure(<<Required("message", Str), Required("code", I32)>>)
CustomCodeInputSerde == Structure(<<Required("code", I32)>>)
CustomCodeOutputSerde == Structure(<<Optional("code", I32)>>)
UnknownServerErrorSerde == Structure(<<
  Required("errorCode", EnumOf("UnknownServerErrorCode")), Optional("description", Str),
  Optional("stateHash", Str)>>)
FallbackErrorSerde == Structure(<<Required("error", Str)>>)
GetEnumInputSerde == Structure(<<Required("aa", EnumOf("TheEnum"))>>)
GetEnumOutputSerde == Structure(<<Optional("result", Str)>>)
GetIntEnumInputSerde == Structure(<<Required("aa", IntEnumOf("EnumResult"))>>)
GetIntEnumOutputSerde == Structure(<<Required("result", IntEnumOf("EnumResult"))>>)
GetMenuInputSerde == Structure(<<Required("restaurant", Str)>>)
MenuSerde == Map(Ref("MenuItem"))
GetMenuOutputSerde == Structure(<<Required("menu", Ref("Menu"))>>)
NotFoundErrorSerde == Structure(<<Required("name", Str)>>)
HeaderEndpointInputSerde == Structure(<<
  Optional("uppercaseHeader", Str), Optional("capitalizedHeader", Str),
  Optional("lowercaseHeader", Str), Optional("mixedHeader", Str)>>)
HeaderEndpointOutputSerde == Structure(<<
  Optional("uppercaseHeader", Str), Optional("capitalizedHeader", Str),
  Optional("lowercaseHeader", Str), Optional("mixedHeader", Str)>>)
HealthInputSerde == Structure(<<Optional("query", Str)>>)
HealthOutputSerde == Structure(<<Required("status", Str)>>)
HttpPayloadRequiredWithDefaultInputSerde == Structure(<<Filled("body", Str)>>)
HttpPayloadRequiredWithDefaultOutputSerde == Structure(<<Filled("body", Str)>>)
HttpPayloadWithDefaultInputSerde == Structure(<<FilledIn("body", Str, "default value")>>)
HttpPayloadWithDefaultOutputSerde == Structure(<<Filled("body", Str)>>)
MyMapSerde == Map(I32)
SmallStructSerde == Structure(<<Required("content", Str)>>)
OpenDiscriminatedUnionSerde == Discriminated("key", <<Optional("smol", Ref("SmallStruct"))>>, TRUE)
OpenTaggedUnionSerde == Tagged(<<Optional("str", Str)>>, TRUE)
OpenUnionsPayloadSerde == Tagged(<<
  Optional("tagged", Ref("OpenTaggedUnion")),
  Optional("discriminated", Ref("OpenDiscriminatedUnion"))>>, FALSE)
OpenUnionsInputSerde == Structure(<<Required("data", Ref("OpenUnionsPayload"))>>)
OpenUnionsOutputSerde == Structure(<<Required("data", Ref("OpenUnionsPayload"))>>)
PreserveOrderInputSerde == Structure(<<Optional("map", Ref("MyMap")), Optional("document", Doc)>>)
PreserveOrderOutputSerde == Structure(<<Optional("map", Ref("MyMap")), Optional("document", Doc)>>)
RoundTripInputSerde == Structure(<<
  Required("label", Str), Optional("header", Str), Optional("query", Str),
  Optional("body", Str)>>)
RoundTripOutputSerde == Structure(<<
  Required("label", Str), Optional("header", Str), Optional("query", Str),
  Optional("body", Str)>>)
VersionInputSerde == Structure(<<>>)
VersionOutputSerde == Structure(<<Required("version", Str)>>)

Serdes ==
  [Ingredients |-> IngredientsSerde, Pizza |-> PizzaSerde, Salad |-> SaladSerde,
   Food |-> FoodSerde, MenuItem |-> MenuItemSerde, AddMenuItemInput |-> AddMenuItemInputSerde,
   AddMenuItemOutput |-> AddMenuItemOutputSerde,
   GenericClientError |-> GenericClientErrorSerde,
   GenericServerError |-> GenericServerErrorSerde, PriceError |-> PriceErrorSerde,
   CustomCodeInput |-> CustomCodeInputSerde, CustomCodeOutput |-> CustomCodeOutputSerde,
   UnknownServerError |-> UnknownServerErrorSerde, FallbackError |-> FallbackErrorSerde,
   GetEnumInput |-> GetEnumInputSerde, GetEnumOutput |-> GetEnumOutputSerde,
   GetIntEnumInput |-> GetIntEnumInputSerde, GetIntEnumOutput |-> GetIntEnumOutputSerde,
   GetMenuInput |-> GetMenuInputSerde, Menu |-> MenuSerde,
   GetMenuOutput |-> GetMenuOutputSerde, NotFoundError |-> NotFoundErrorSerde,
   HeaderEndpointInput |-> HeaderEndpointInputSerde,
   HeaderEndpointOutput |-> HeaderEndpointOutputSerde, HealthInput |-> HealthInputSerde,
   HealthOutput |-> HealthOutputSerde,
   HttpPayloadRequiredWithDefaultInput |-> HttpPayloadRequiredWithDefaultInputSerde,
   HttpPayloadRequiredWithDefaultOutput |-> HttpPayloadRequiredWithDefaultOutputSerde,
   HttpPayloadWithDefaultInput |-> HttpPayloadWithDefaultInputSerde,
   HttpPayloadWithDefaultOutput |-> HttpPayloadWithDefaultOutputSerde, MyMap |-> MyMapSerde,
   SmallStruct |-> SmallStructSerde, OpenDiscriminatedUnion |-> OpenDiscriminatedUnionSerde,
   OpenTaggedUnion |-> OpenTaggedUnionSerde, OpenUnionsPayload |-> OpenUnionsPayloadSerde,
   OpenUnionsInput |-> OpenUnionsInputSerde, OpenUnionsOutput |-> OpenUnionsOutputSerde,
   PreserveOrderInput |-> PreserveOrderInputSerde,
   PreserveOrderOutput |-> PreserveOrderOutputSerde, RoundTripInput |-> RoundTripInputSerde,
   RoundTripOutput |-> RoundTripOutputSerde, VersionInput |-> VersionInputSerde,
   VersionOutput |-> VersionOutputSerde]
=============================================================================
