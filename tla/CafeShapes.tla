----------------------------- MODULE CafeShapes -----------------------------
(***************************************************************************)
(* The shapes of the cafe example: the value types of types.h, and how     *)
(* serde.cc reads and writes each of them.                                 *)
(***************************************************************************)
EXTENDS ShapeTypes

AlternativeMilk == Struct(<<Plain("kind", Str)>>)
GetOrderInput == Struct(<<Plain("orderId", Str)>>)
CoffeeType == Enum({"DRIP", "ESPRESSO", "CORTADO", "LATTE"})
CancelledStatus == Struct(<<Opt("reason", Str)>>)
PendingStatus == Struct(<<Plain("position", I32)>>)
ReadyStatus == Struct(<<Plain("readyAt", Time)>>)
OrderStatus == Union(<<
  Opt("pending", Ref("PendingStatus")), Opt("ready", Ref("ReadyStatus")),
  Opt("cancelled", Ref("CancelledStatus"))>>)
GetOrderOutput == Struct(<<
  Plain("orderId", Str), Plain("coffeeType", Ref("CoffeeType")),
  Plain("status", Ref("OrderStatus"))>>)
OrderNotFound == Struct(<<Plain("orderId", Str)>>)
DairyMilk == Struct(<<Plain("percentFat", F32)>>)
MilkOption == Union(<<
  Opt("none", Unit), Opt("dairy", Ref("DairyMilk")),
  Opt("alternative", Ref("AlternativeMilk"))>>)
OrderCoffeeInput == Struct(<<
  Plain("coffeeType", Ref("CoffeeType")), Opt("milk", Ref("MilkOption")),
  Opt("clientToken", SensitiveStr)>>)
OrderCoffeeOutput == Struct(<<Plain("orderId", Str), Plain("status", Ref("OrderStatus"))>>)
OutOfBeans == Struct(<<Opt("message", Str)>>)

Types ==
  [AlternativeMilk |-> AlternativeMilk, GetOrderInput |-> GetOrderInput,
   CoffeeType |-> CoffeeType, CancelledStatus |-> CancelledStatus,
   PendingStatus |-> PendingStatus, ReadyStatus |-> ReadyStatus, OrderStatus |-> OrderStatus,
   GetOrderOutput |-> GetOrderOutput, OrderNotFound |-> OrderNotFound,
   DairyMilk |-> DairyMilk, MilkOption |-> MilkOption, OrderCoffeeInput |-> OrderCoffeeInput,
   OrderCoffeeOutput |-> OrderCoffeeOutput, OutOfBeans |-> OutOfBeans]

-----------------------------------------------------------------------------
AlternativeMilkSerde == Structure(<<Required("kind", Str)>>)
GetOrderInputSerde == Structure(<<Required("orderId", Str)>>)
CancelledStatusSerde == Structure(<<Optional("reason", Str)>>)
PendingStatusSerde == Structure(<<Required("position", I32)>>)
ReadyStatusSerde == Structure(<<Required("readyAt", TimeAs("epoch-seconds"))>>)
OrderStatusSerde == Tagged(<<
  Optional("pending", Ref("PendingStatus")), Optional("ready", Ref("ReadyStatus")),
  Optional("cancelled", Ref("CancelledStatus"))>>, FALSE)
GetOrderOutputSerde == Structure(<<
  Required("orderId", Str), Required("coffeeType", EnumOf("CoffeeType")),
  Required("status", Ref("OrderStatus"))>>)
OrderNotFoundSerde == Structure(<<Required("orderId", Str)>>)
DairyMilkSerde == Structure(<<Required("percentFat", F32)>>)
MilkOptionSerde == Tagged(<<
  Optional("none", Unit), Optional("dairy", Ref("DairyMilk")),
  Optional("alternative", Ref("AlternativeMilk"))>>, FALSE)
OrderCoffeeInputSerde == Structure(<<
  Required("coffeeType", EnumOf("CoffeeType")), Optional("milk", Ref("MilkOption")),
  Optional("clientToken", Str)>>)
OrderCoffeeOutputSerde == Structure(<<
  Required("orderId", Str), Required("status", Ref("OrderStatus"))>>)
OutOfBeansSerde == Structure(<<Optional("message", Str)>>)

Serdes ==
  [AlternativeMilk |-> AlternativeMilkSerde, GetOrderInput |-> GetOrderInputSerde,
   CancelledStatus |-> CancelledStatusSerde, PendingStatus |-> PendingStatusSerde,
   ReadyStatus |-> ReadyStatusSerde, OrderStatus |-> OrderStatusSerde,
   GetOrderOutput |-> GetOrderOutputSerde, OrderNotFound |-> OrderNotFoundSerde,
   DairyMilk |-> DairyMilkSerde, MilkOption |-> MilkOptionSerde,
   OrderCoffeeInput |-> OrderCoffeeInputSerde, OrderCoffeeOutput |-> OrderCoffeeOutputSerde,
   OutOfBeans |-> OutOfBeansSerde]

-----------------------------------------------------------------------------
(* client.cc: what each call sends and reads, and the errors it knows.     *)
GetOrderCall == Call("GetOrderInput", "", "GetOrderOutput")
OrderCoffeeCall == Deflating(Call("OrderCoffeeInput", "clientToken", "OrderCoffeeOutput"))
GetOrderErrors == {"OrderNotFound"}
OrderCoffeeErrors == {"OutOfBeans"}
OrderNotFoundMade == "status"
OutOfBeansMade == "always"

Calls ==
  [GetOrder |-> GetOrderCall, OrderCoffee |-> OrderCoffeeCall]
Errors ==
  [GetOrder |-> GetOrderErrors, OrderCoffee |-> OrderCoffeeErrors]
Made ==
  [OrderNotFound |-> OrderNotFoundMade, OutOfBeans |-> OutOfBeansMade]

(* server.cc: what each route reads, checks and writes.                    *)
ValidateGetOrderInput == Members(<<At("orderId", Length(1, 128))>>)
ValidateOrderCoffeeInput == Members(<<At("coffeeType", OneOf("CoffeeType"))>>)
GetOrderRoute == Route("GetOrderInput", "GetOrderInput", "GetOrderOutput")
OrderCoffeeRoute == Inflating(Route("OrderCoffeeInput", "OrderCoffeeInput", "OrderCoffeeOutput"))
ErrorStatuses == [OrderNotFound |-> 400, OutOfBeans |-> 500]

Validators ==
  [GetOrderInput |-> ValidateGetOrderInput, OrderCoffeeInput |-> ValidateOrderCoffeeInput]
Routes ==
  [GetOrder |-> GetOrderRoute, OrderCoffee |-> OrderCoffeeRoute]
=============================================================================
