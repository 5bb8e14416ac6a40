-------------------------- MODULE CalculatorShapes --------------------------
(***************************************************************************)
(* The shapes of the calculator example: the value types of types.h, and   *)
(* how serde.cc reads and writes each of them.                             *)
(***************************************************************************)
EXTENDS ShapeTypes

Term == Struct(<<Plain("value", F64)>>)
Terms == Union(<<Opt("add", Ref("Term"))>>)
AccumulateInput == Struct(<<Opt("start", F64), Opt("terms", Ref("Terms"))>>)
RunningTotal == Struct(<<Plain("value", F64)>>)
Totals == Union(<<Opt("total", Ref("RunningTotal"))>>)
AccumulateOutput == Struct(<<Opt("totals", Ref("Totals"))>>)
Overflow == Struct(<<Plain("message", Str), Plain("limit", F64)>>)
AddInput == Struct(<<Plain("a", F64), Plain("b", F64)>>)
AddOutput == Struct(<<Plain("sum", F64)>>)
DivideInput == Struct(<<Plain("dividend", F64), Plain("divisor", F64), Opt("requestToken", Str)>>)
DivideOutput == Struct(<<Plain("quotient", F64)>>)
DivisionByZero == Struct(<<Plain("message", Str)>>)

Types ==
  [Term |-> Term, Terms |-> Terms, AccumulateInput |-> AccumulateInput,
   RunningTotal |-> RunningTotal, Totals |-> Totals, AccumulateOutput |-> AccumulateOutput,
   Overflow |-> Overflow, AddInput |-> AddInput, AddOutput |-> AddOutput,
   DivideInput |-> DivideInput, DivideOutput |-> DivideOutput,
   DivisionByZero |-> DivisionByZero]

-----------------------------------------------------------------------------
TermSerde == Structure(<<Required("value", F64)>>)
TermsSerde == Tagged(<<Optional("add", Ref("Term"))>>, FALSE)
AccumulateInputSerde == Structure(<<Optional("start", F64), Optional("terms", Ref("Terms"))>>)
RunningTotalSerde == Structure(<<Required("value", F64)>>)
TotalsSerde == Tagged(<<Optional("total", Ref("RunningTotal"))>>, FALSE)
AccumulateOutputSerde == Structure(<<Optional("totals", Ref("Totals"))>>)
OverflowSerde == Structure(<<Required("message", Str), Required("limit", F64)>>)
AddInputSerde == Structure(<<Required("a", F64), Required("b", F64)>>)
AddOutputSerde == Structure(<<Required("sum", F64)>>)
DivideInputSerde == Structure(<<
  Required("dividend", F64), Required("divisor", F64), Optional("requestToken", Str)>>)
DivideOutputSerde == Structure(<<Required("quotient", F64)>>)
DivisionByZeroSerde == Structure(<<Required("message", Str)>>)

Serdes ==
  [Term |-> TermSerde, Terms |-> TermsSerde, AccumulateInput |-> AccumulateInputSerde,
   RunningTotal |-> RunningTotalSerde, Totals |-> TotalsSerde,
   AccumulateOutput |-> AccumulateOutputSerde, Overflow |-> OverflowSerde,
   AddInput |-> AddInputSerde, AddOutput |-> AddOutputSerde, DivideInput |-> DivideInputSerde,
   DivideOutput |-> DivideOutputSerde, DivisionByZero |-> DivisionByZeroSerde]

-----------------------------------------------------------------------------
(* client.cc: what each call sends and reads, and the errors it knows.     *)
AddCall == Call("AddInput", "", "AddOutput")
DivideCall == Call("DivideInput", "requestToken", "DivideOutput")
DivideErrors == {"DivisionByZero"}
DivisionByZeroMade == "status"
OverflowMade == "status"

Calls ==
  [Add |-> AddCall, Divide |-> DivideCall]
Errors ==
  [Add |-> {}, Divide |-> DivideErrors]
Made ==
  [DivisionByZero |-> DivisionByZeroMade, Overflow |-> OverflowMade]

(* server.cc: what each route reads, checks and writes.                    *)
AddRoute == Route("AddInput", "", "AddOutput")
DivideRoute == Route("DivideInput", "", "DivideOutput")
ErrorStatuses == [DivisionByZero |-> 422, Overflow |-> 400]
Endpoint == [methods |-> {"Add", "Divide"}, gzip |-> FALSE]

Validators == [x \in {} |-> x]
Routes ==
  [Add |-> AddRoute, Divide |-> DivideRoute]
=============================================================================
