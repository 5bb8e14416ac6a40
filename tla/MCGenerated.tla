---------------------------- MODULE MCGenerated ----------------------------
(* The generated code: a value's trip over the wire, or a unary call.      *)
EXTENDS SerdeTrip, RpcCalls

Cbor == INSTANCE RpcV2CborShapes
Rest == INSTANCE SimpleRestJsonShapes
Rpc == INSTANCE JsonRpc2Shapes
RoundTrips == INSTANCE RoundTripShapes
Chat == INSTANCE ChatShapes
Cafe == INSTANCE CafeShapes
Weather == INSTANCE WeatherShapes
RoundTripRpc == INSTANCE RoundTripRpcShapes
RoundTripJsonRpc == INSTANCE RoundTripJsonRpcShapes
Calculator == INSTANCE CalculatorShapes
Bookstore == INSTANCE BookstoreShapes

MCModels ==
  [rpcv2cbor |-> [types |-> Cbor!Types, serdes |-> Cbor!Serdes, codec |-> "cbor"],
   simplerestjson |-> [types |-> Rest!Types, serdes |-> Rest!Serdes, codec |-> "json"],
   jsonrpc2 |-> [types |-> Rpc!Types, serdes |-> Rpc!Serdes, codec |-> "json"],
   roundtrip |-> [types |-> RoundTrips!Types, serdes |-> RoundTrips!Serdes, codec |-> "json"],
   chat |-> [types |-> Chat!Types, serdes |-> Chat!Serdes, codec |-> "json"],
   cafe |-> [types |-> Cafe!Types, serdes |-> Cafe!Serdes, codec |-> "cbor"],
   weather |-> [types |-> Weather!Types, serdes |-> Weather!Serdes, codec |-> "json"],
   roundtripRpc |-> [types |-> RoundTripRpc!Types, serdes |-> RoundTripRpc!Serdes, codec |-> "cbor"],
   roundtripJsonRpc |-> [types |-> RoundTripJsonRpc!Types, serdes |-> RoundTripJsonRpc!Serdes, codec |-> "json"],
   calculator |-> [types |-> Calculator!Types, serdes |-> Calculator!Serdes, codec |-> "json"],
   bookstore |-> [types |-> Bookstore!Types, serdes |-> Bookstore!Serdes, codec |-> "json"]]

NoEndpoint == [methods |-> {}, gzip |-> FALSE]

MCServices ==
  [rpcv2cbor |->
     [protocol |-> "rpcv2Cbor", codec |-> "cbor", types |-> Cbor!Types, serdes |-> Cbor!Serdes,
      calls |-> Cbor!Calls, errors |-> Cbor!Errors, made |-> Cbor!Made, routes |-> Cbor!Routes,
      statuses |-> Cbor!ErrorStatuses, validators |-> Cbor!Validators, endpoint |-> NoEndpoint],
   cafe |->
     [protocol |-> "rpcv2Cbor", codec |-> "cbor", types |-> Cafe!Types, serdes |-> Cafe!Serdes,
      calls |-> Cafe!Calls, errors |-> Cafe!Errors, made |-> Cafe!Made, routes |-> Cafe!Routes,
      statuses |-> Cafe!ErrorStatuses, validators |-> Cafe!Validators, endpoint |-> NoEndpoint],
   roundtripRpc |->
     [protocol |-> "rpcv2Cbor", codec |-> "cbor", types |-> RoundTripRpc!Types,
      serdes |-> RoundTripRpc!Serdes, calls |-> RoundTripRpc!Calls, errors |-> RoundTripRpc!Errors,
      made |-> RoundTripRpc!Made, routes |-> RoundTripRpc!Routes,
      statuses |-> RoundTripRpc!ErrorStatuses, validators |-> RoundTripRpc!Validators,
      endpoint |-> NoEndpoint],
   jsonrpc2 |->
     [protocol |-> "jsonRpc2", codec |-> "json", types |-> Rpc!Types, serdes |-> Rpc!Serdes,
      calls |-> Rpc!Calls, errors |-> Rpc!Errors, made |-> Rpc!Made, routes |-> Rpc!Routes,
      statuses |-> Rpc!ErrorStatuses, validators |-> Rpc!Validators, endpoint |-> Rpc!Endpoint],
   calculator |->
     [protocol |-> "jsonRpc2", codec |-> "json", types |-> Calculator!Types,
      serdes |-> Calculator!Serdes, calls |-> Calculator!Calls, errors |-> Calculator!Errors,
      made |-> Calculator!Made, routes |-> Calculator!Routes,
      statuses |-> Calculator!ErrorStatuses, validators |-> Calculator!Validators,
      endpoint |-> Calculator!Endpoint],
   roundtripJsonRpc |->
     [protocol |-> "jsonRpc2", codec |-> "json", types |-> RoundTripJsonRpc!Types,
      serdes |-> RoundTripJsonRpc!Serdes, calls |-> RoundTripJsonRpc!Calls,
      errors |-> RoundTripJsonRpc!Errors, made |-> RoundTripJsonRpc!Made,
      routes |-> RoundTripJsonRpc!Routes, statuses |-> RoundTripJsonRpc!ErrorStatuses,
      validators |-> RoundTripJsonRpc!Validators, endpoint |-> RoundTripJsonRpc!Endpoint]]

\* The window, scaled down to what TLC's integers hold.
MCMinMs == -2000
MCMaxMs == 9999

MCJunk == {Null, <<"bool", TRUE>>, Text("junk"), Integer(Wide(8, 20)), Double(Huge), Double(<<"ms", -2001>>),
           TimeText("date-time", MCMaxMs, -1), TimeText("date-time", 0, 500), TimeText("date-time", MCMinMs, 1),
           TimeText("http-date", 2000, 0)}

\* One of the two happens; the other's variables stand still.
NoTrip ==
  /\ model = "" /\ shape = "" /\ value = <<>> /\ wire = Failed /\ change = "none"
  /\ got = Failed /\ stage = "none"

NoCall ==
  /\ service = "calculator" /\ op = CHOOSE o \in DOMAIN C.calls : TRUE
  /\ caller = "client" /\ input = <<>> /\ request = None /\ tokens = 0 /\ attempt = 0
  /\ resent = FALSE /\ seen = {} /\ outcome = None /\ response = None /\ result = None
  /\ phase = "none"

MCInit == (TripInit /\ NoCall) \/ (Init /\ NoTrip)

MCNext ==
  \/ TripNext /\ UNCHANGED vars
  \/ Next /\ UNCHANGED tripVars

MCSpec == MCInit /\ [][MCNext]_<<tripVars, vars>>
=============================================================================
