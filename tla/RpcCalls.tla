----------------------------- MODULE RpcCalls -----------------------------
(***************************************************************************)
(* A unary call of a generated RPC client: the client prepares one request *)
(* and sends it with retries, the generated server decodes, validates and  *)
(* runs the handler, the answer or the error travels back, and the client  *)
(* makes a result of it.  Two protocols: rpcv2Cbor, where an error is an   *)
(* HTTP status, and jsonRpc2, where it is an envelope on HTTP 200.  The    *)
(* network loses requests and answers and has proxies; strangers call too. *)
(***************************************************************************)
EXTENDS Serde

CONSTANTS
  Services,     \* name |-> the tables of its generated code
  MaxAttempts   \* RetryPolicy.max_attempts

ASSUME AttemptsAssumption == MaxAttempts \in Nat \ {0}

VARIABLES
  service, op,
  caller,     \* "client", or "stranger": a peer that is not one of ours
  input,      \* what the application passed
  request,    \* what SendWithRetries holds
  tokens,     \* idempotency tokens generated
  attempt,
  resent,     \* the transport sent the request a second time in this attempt
  seen,       \* the inputs the handler ran with
  outcome,    \* what the handler returned in this attempt, or a refusal
  response,   \* what the transport returned for this attempt
  result,     \* what the application got
  phase

vars == <<service, op, caller, input, request, tokens, attempt, resent, seen, outcome,
          response, result, phase>>

C == Services[service]    \* the tables of this call's service; c in the operators
IsRpcV2(c) == c.protocol = "rpcv2Cbor"

NoBody == <<"none">>
NotGzip == <<"not gzip">>   \* what GzipDecompress refuses: corrupt, or past 64 MiB
None == <<"none">>
Token(n) == <<"token 1", "token 2", "token 3">>[n]   \* GenerateUuidV4
Qualified(name) == <<"str", "qualified", name>>   \* "namespace#Name"

-----------------------------------------------------------------------------
(* client.cc: the request.                                                 *)
Prepared(call, v, token) ==
  IF call.token # "" /\ v[call.token] = <<>> THEN [v EXCEPT ![call.token] = <<token>>] ELSE v

Body(c, v) ==
  LET call   == c.calls[op]
      params == IF call.sends = "" THEN EmptyMap
                ELSE [p \in {"params"} |-> Serialize(c, Ref(call.sends), v)]
  IN  IF IsRpcV2(c)
      THEN IF call.sends = "" THEN NoBody ELSE OnWire(c, Serialize(c, Ref(call.sends), v))
      ELSE OnWire(c, MapDoc(
             [k \in {"jsonrpc", "method", "id"} \cup DOMAIN params |->
                CASE k = "jsonrpc" -> Text("2.0") [] k = "method" -> Text(op)
                  [] k = "id" -> Integer(Small(1)) [] k = "params" -> params[k]]))

Request(c, v, large) ==
  [protocol |-> TRUE, gzip |-> c.calls[op].gzip /\ large, body |-> Body(c, v),
   media |-> IF IsRpcV2(c) /\ c.calls[op].sends = "" THEN "none" ELSE "own"]

-----------------------------------------------------------------------------
(* server.cc: constraint validation.                                       *)
RECURSIVE Valid(_, _, _)
Valid(c, check, v) ==
  CASE check[1] = "members" -> \A i \in DOMAIN check[2] : Valid(c, check[2][i], v)
    [] check[1] = "at" -> Valid(c, check[3], v[check[2]])
    [] check[1] = "ifSet" -> v[check[2]] = <<>> \/ Valid(c, check[3], v[check[2]][1])
    [] check[1] = "each" -> \A k \in DOMAIN v : Valid(c, check[2], v[k])
    [] check[1] = "eachSet" -> \A k \in DOMAIN v : v[k] = <<>> \/ Valid(c, check[2], v[k][1])
    [] check[1] = "via" -> Valid(c, c.validators[check[2]], v)
    [] check[1] = "oneOf" ->
         IF c.types[check[2]][1] = "enum" THEN v \in c.types[check[2]][2] ELSE v[2] \in c.types[check[2]][2]
    [] check[1] = "length" -> LET n == IF v = "" THEN 0 ELSE 1 IN n >= check[2] /\ n <= check[3]
    [] check[1] = "inRange" -> v[2] >= check[2] /\ v[2] <= check[3]
    [] check[1] = "pattern" -> v \in check[2]
    [] check[1] = "uniqueItems" -> \A i, j \in DOMAIN v : i # j => v[i] # v[j]

-----------------------------------------------------------------------------
(* server.cc: the answers.  An error of the handler is a record of its     *)
(* kind, code, message and typed detail.                                   *)
Success(c, output) ==
  LET doc == Serialize(c, Ref(c.routes[op].writes), output)
  IN  [status |-> 200,
       body |-> OnWire(c, IF IsRpcV2(c) THEN doc
                          ELSE MapDoc([jsonrpc |-> Text("2.0"), result |-> doc, id |-> Integer(Small(1))]))]

\* CborError
CborError(c, status, type, message, body) ==
  LET typed == With(body, "__type", type)
  IN  [status |-> status,
       body |-> OnWire(c, MapDoc(IF message = "" THEN typed ELSE With(typed, "message", Text(message))))]

\* JsonRpcError; the id is null until the envelope yielded one.
JsonRpcError(c, code, type, message, body, id) ==
  LET data == With(body, "__type", type)
      own  == Find(MapDoc(body), "message")
      text == IF message # "" THEN Text(message) ELSE IF own[1] = "str" THEN own ELSE Text("")
  IN  [status |-> 200,
       body |-> OnWire(c, MapDoc(
         [jsonrpc |-> Text("2.0"), id |-> id,
          error |-> MapDoc([code |-> Integer(Wide(4, code)), message |-> text, data |-> MapDoc(data)])]))]

ErrorAnswer(c, status, type, message, body) ==
  IF IsRpcV2(c) THEN CborError(c, status, type, message, body)
  ELSE JsonRpcError(c, status, type, message, body, Integer(Small(1)))

ErrorToResponse(c, e) ==
  LET detail == IF e.detail = <<>> THEN EmptyMap ELSE Serialize(c, Ref(e.code), e.detail[1])[2]
      body   == IF {"message", "Message"} \cap DOMAIN detail = {} /\ e.message # ""
                THEN With(detail, "message", Text(e.message)) ELSE detail
  IN  CASE e.kind = "modeled" /\ e.code \in DOMAIN c.statuses ->
             ErrorAnswer(c, c.statuses[e.code], Qualified(e.code), "", body)
        [] e.kind = "modeled" /\ e.code \notin DOMAIN c.statuses ->
             ErrorAnswer(c, 400, Text(e.code), e.message, EmptyMap)
        [] e.kind \in {"validation", "serialization"} ->
             ErrorAnswer(c, 400, Text("SerializationException"), e.message, EmptyMap)
        [] e.kind = "other" -> ErrorAnswer(c, 500, Text("InternalFailure"), "internal failure", EmptyMap)

ValidationErrorResponse(c) ==
  LET field == MapDoc([message |-> Text("failure"), path |-> Text("path")])
  IN  ErrorAnswer(c, 400, Qualified("ValidationException"), "summary",
                  [f \in {"fieldList"} |-> ListDoc(<<field>>)])

\* What becomes of a request before the handler: an answer, or the input.
Refuse(answer) == <<"refused", answer>>
Run(v) == <<"run", v>>

ReadInput(c, doc, malformed) ==
  LET route == c.routes[op]
      read  == Deserialize(c, Ref(route.reads), doc)
  IN  CASE route.reads = "" -> Run(<<>>)
        [] route.reads # "" /\ read = Failed ->
             Refuse(ErrorAnswer(c, malformed, Text("SerializationException"), "malformed", EmptyMap))
        [] route.reads # "" /\ read # Failed ->
             IF route.validates = "" \/ Valid(c, c.validators[route.validates], read[2])
             THEN Run(read[2]) ELSE Refuse(ValidationErrorResponse(c))

\* A gzip body nobody inflates is no document; NotGzip when it does not
\* inflate, which is refused before anything else is looked at.
Inflated(inflates) == IF request.gzip /\ ~inflates THEN Failed ELSE request.body

RpcV2Route(c) ==
  LET body == Inflated(c.routes[op].gzip)
      refuse(status, type) == Refuse(CborError(c, status, Text(type), "refused", EmptyMap))
  IN  IF body = NotGzip \/ ~request.protocol THEN refuse(400, "SerializationException")
      ELSE IF request.media = "other" THEN refuse(415, "UnsupportedMediaTypeException")
      ELSE IF c.routes[op].reads # "" /\ body = Failed THEN refuse(400, "SerializationException")
      ELSE ReadInput(c, IF body[1] = "ok" THEN body[2] ELSE MapDoc(EmptyMap), 400)

JsonRpcRoute(c) ==
  LET body   == Inflated(c.endpoint.gzip)
      isMap  == body[1] = "ok" /\ body[2][1] = "map"
      id     == IF isMap THEN Find(body[2], "id") ELSE Null
      method == Find(body[2], "method")
      params == IF Present(body[2], "params") THEN Find(body[2], "params") ELSE MapDoc(EmptyMap)
      refuse(code, type) == Refuse(JsonRpcError(c, code, Text(type), "refused", EmptyMap, id))
  IN  IF body = NotGzip THEN refuse(-32700, "SerializationException")
      ELSE IF request.media = "other" THEN refuse(-32600, "UnsupportedMediaTypeException")
      ELSE IF body[1] # "ok" THEN refuse(-32700, "SerializationException")
      ELSE IF ~isMap \/ Find(body[2], "jsonrpc") # Text("2.0") \/ method[1] # "str"
           THEN refuse(-32600, "SerializationException")
      ELSE IF method[3] \notin c.endpoint.methods THEN refuse(-32601, "UnknownOperationException")
      ELSE IF c.routes[op].reads # "" /\ params[1] # "map" THEN refuse(-32602, "SerializationException")
      ELSE ReadInput(c, params, -32602)

Admission(c) == IF IsRpcV2(c) THEN RpcV2Route(c) ELSE JsonRpcRoute(c)

-----------------------------------------------------------------------------
(* client.cc: what the caller gets.                                        *)
Unsuccessful(e) == <<"error", e>>
Error(kind, code, message, retryable) ==
  [kind |-> kind, code |-> code, message |-> message, retryable |-> retryable, detail |-> <<>>]

\* Mutant: the namespace stays.
SanitizeNothing(text) == text

\* SanitizeErrorCode
SanitizeErrorCode(text) == text[3]

ParsedCode(doc, keys) ==
  LET given == {k \in keys : Present(doc, k)}
      key   == IF "__type" \in given THEN "__type" ELSE "code"
  IN  IF given # {} /\ Find(doc, key)[1] = "str" THEN SanitizeErrorCode(Find(doc, key)) ELSE "UnknownError"

ParsedMessage(doc) == IF Find(doc, "message")[1] = "str" THEN Find(doc, "message")[3] ELSE "HTTP status"

ParseError(c, answer) ==
  LET doc   == IF answer.body[1] = "ok" THEN answer.body[2] ELSE Null
      error == Find(doc, "error")
      code  == Find(error, "code")
      data  == Find(error, "data")
      mapped == IF code[1] # "int" THEN answer.status
                ELSE IF code[2][2] >= 100 /\ code[2][2] < 600 THEN code[2][2]
                ELSE IF code[2][2] = -32603 THEN 500 ELSE 400
  IN  IF IsRpcV2(c)
      THEN [status |-> answer.status, code |-> ParsedCode(doc, {"__type", "code"}),
            message |-> ParsedMessage(doc), doc |-> doc]
      ELSE [status |-> mapped, code |-> ParsedCode(data, {"__type"}),
            message |-> ParsedMessage(error), doc |-> data]

\* The Make...Error functions and GenericError.
CallError(c, answer) ==
  LET parsed == ParseError(c, answer)
      doc    == IF parsed.doc[1] = "map" THEN parsed.doc ELSE MapDoc(EmptyMap)
      detail == Deserialize(c, Ref(parsed.code), doc)
      known  == parsed.code \in c.errors[op]
      sure   == known /\ c.made[parsed.code] = "always"
      error  == Error(IF parsed.code = "UnknownError" THEN "unknown" ELSE "modeled",
                      parsed.code, parsed.message, sure \/ parsed.status >= 500)
  IN  IF known /\ detail # Failed THEN [error EXCEPT !.detail = <<detail[2]>>] ELSE error

\* The rest of the call, from the transport's answer.
ReadOutput(c, doc) ==
  LET read == Deserialize(c, Ref(c.calls[op].reads), doc)
  IN  IF read = Failed THEN Unsuccessful(Error("serialization", "", "", FALSE)) ELSE read

\* No output on the wire: the default-initialised one, or a failure.
NoOutput(c) ==
  IF c.calls[op].lenient THEN Ok(Initial(c, Ref(c.calls[op].reads)))
  ELSE Unsuccessful(Error("serialization", "", "", FALSE))

CallResult(c, answer) ==
  LET reads == c.calls[op].reads
      isMap == answer.body[1] = "ok" /\ answer.body[2][1] = "map"
      failed == answer.status # 200 \/ (~IsRpcV2(c) /\ (~isMap \/ "error" \in DOMAIN answer.body[2][2]))
  IN  IF failed THEN Unsuccessful(CallError(c, answer))
      ELSE IF reads = "" THEN Ok(<<>>)
      ELSE IF IsRpcV2(c)
      THEN IF answer.body = NoBody THEN NoOutput(c)
           ELSE IF answer.body = Failed THEN Unsuccessful(Error("serialization", "", "", FALSE))
           ELSE ReadOutput(c, answer.body[2])
      ELSE IF "result" \notin DOMAIN answer.body[2][2] THEN NoOutput(c)   \* a null one is read
           ELSE ReadOutput(c, answer.body[2][2]["result"])

-----------------------------------------------------------------------------
Lost(retryable) == [status |-> 0, retryable |-> retryable, body |-> NoBody]

\* retry.cc
RetryableStatus(status) == status \in {429, 500, 502, 503, 504}
MayRetry == IF response.status = 0 THEN response.retryable ELSE RetryableStatus(response.status)

SampleSets ==
  [s \in DOMAIN Services |->
     [t \in DOMAIN Services[s].types |-> Samples(Services[s], Ref(t), SampleDepth)]]

Inputs(s, call) == IF call.sends = "" THEN {<<>>} ELSE SampleSets[s][call.sends]

\* An input the handler gets to see.  The handler's answers vary with this
\* one; with the others it returns one output: nothing on the way back
\* depends on the input.
UsualInput ==
  [s \in DOMAIN Services |-> [o \in DOMAIN Services[s].calls |->
     LET c     == Services[s]
         call  == c.calls[o]
         check == c.routes[o].validates
     IN  CHOOSE v \in Inputs(s, call) :
           \/ call.sends = ""
           \/ /\ Carries(c, Ref(call.sends), v)
              /\ OnWire(c, MapDoc([params |-> Serialize(c, Ref(call.sends), v)])) # Failed
              /\ check # "" => Valid(c, c.validators[check], v)]]

\* What a handler may return: an output, an error of the service with or
\* without its typed detail, or any other error.
Answers(o, answer) == outcome' = o /\ response' = answer
Fails(c, kind, code, message, detail) ==
  LET e == [kind |-> kind, code |-> code, message |-> message, detail |-> detail]
  IN  Answers(Unsuccessful(e), ErrorToResponse(c, e))

HandlerReturns(c) ==
  IF input # UsualInput[service][op]
  THEN LET v == Initial(c, Ref(c.routes[op].writes)) IN Answers(Ok(v), Success(c, v))
  ELSE \/ \E v \in SampleSets[service][c.routes[op].writes] : Answers(Ok(v), Success(c, v))
       \/ \E code \in DOMAIN c.statuses, message \in {"", "told"} :
            \/ Fails(c, "modeled", code, message, <<>>)
            \/ \E v \in SampleSets[service][code] : Fails(c, "modeled", code, message, <<v>>)
       \/ \E kind \in {"modeled", "validation", "serialization", "other"} :
            Fails(c, kind, "Strange", "told", <<>>)

Init ==
  /\ service \in DOMAIN Services
  /\ op \in DOMAIN C.calls
  /\ caller \in {"client", "stranger"}
  /\ input \in Inputs(service, C.calls[op])
  /\ request = None /\ tokens = 0 /\ attempt = 0 /\ resent = FALSE
  /\ seen = {} /\ outcome = None /\ response = None /\ result = None
  /\ phase = "called"

\* The client method, up to Send.
Prepare ==
  /\ phase = "called" /\ caller = "client"
  /\ LET call  == C.calls[op]
         fresh == call.token # "" /\ input[call.token] = <<>>
     IN  /\ tokens' = IF fresh THEN tokens + 1 ELSE tokens
         /\ \E large \in BOOLEAN : request' = Request(C, Prepared(call, input, Token(tokens + 1)), large)
  /\ attempt' = 1
  /\ phase' = "sent"
  /\ UNCHANGED <<service, op, caller, input, resent, seen, outcome, response, result>>

\* A request no generated client makes.
Stray ==
  /\ phase = "called" /\ caller = "stranger"
  /\ LET own  == Request(C, Prepared(C.calls[op], input, Token(1)), FALSE)
         body == own.body[2][2]
     IN  request' \in
           {[own EXCEPT !.media = "other"]}
             \cup (IF IsRpcV2(C) THEN {[own EXCEPT !.protocol = FALSE]}
                   ELSE IF own.body = Failed THEN {}
                   ELSE {[own EXCEPT !.body = Ok(MapDoc(b))] :
                           b \in {Without(body, "method"), With(body, "jsonrpc", Text("1.0")),
                                  With(body, "method", Text("Unheard"))}
                                 \cup IF C.routes[op].reads = "" THEN {}
                                      ELSE {With(body, "params", Text("x"))}}
                        \cup {[own EXCEPT !.body = Ok(Text("x"))]})
             \cup (IF C.routes[op].reads = "" THEN {}
                   ELSE {[own EXCEPT !.body = Failed], [own EXCEPT !.gzip = TRUE, !.body = NotGzip],
                         [own EXCEPT !.gzip = TRUE, !.body = NotGzip, !.media = "other"]})
  /\ attempt' = 1
  /\ phase' = "sent"
  /\ UNCHANGED <<service, op, caller, input, tokens, resent, seen, outcome, response, result>>

\* The route: refused, or one run of the handler and its answer.
Serve ==
  /\ phase = "sent"
  /\ LET admission == Admission(C)
     IN  \/ /\ admission[1] = "refused"
            /\ outcome' = admission /\ response' = admission[2]
            /\ UNCHANGED seen
         \/ /\ admission[1] = "run"
            /\ seen' = seen \cup {admission[2]}
            /\ HandlerReturns(C)
  /\ phase' = "answered"
  /\ UNCHANGED <<service, op, caller, input, request, tokens, attempt, resent, result>>

\* The connection breaks, before or after the server did its part.
Lose ==
  /\ phase \in {"sent", "answered"} /\ caller = "client"
  /\ \E retryable \in BOOLEAN : response' = Lost(retryable)
  /\ outcome' = None
  /\ phase' = "answered"
  /\ UNCHANGED <<service, op, caller, input, request, tokens, attempt, resent, seen, result>>

\* BeastHttpClient: the reused connection breaks before a byte of the answer,
\* and the request goes out once more on a fresh one.
Resend ==
  /\ phase \in {"sent", "answered"} /\ caller = "client"
  /\ phase = "answered" => outcome # None
  /\ ~resent
  /\ resent' = TRUE /\ outcome' = None /\ response' = None
  /\ phase' = "sent"
  /\ UNCHANGED <<service, op, caller, input, request, tokens, attempt, seen, result>>

\* Something on the way answers in the server's place.
Intervene ==
  /\ phase = "sent" /\ caller = "client"
  /\ LET bare == [jsonrpc |-> Text("2.0"), id |-> Integer(Small(1))]
         bodies == {NoBody, Failed} \cup IF IsRpcV2(C) THEN {}
                                         ELSE {Ok(MapDoc(bare)), Ok(MapDoc(With(bare, "result", Null)))}
     IN  \E status \in {200, 404, 503}, body \in bodies :
           response' = [status |-> status, body |-> body]
  /\ outcome' = None
  /\ phase' = "answered"
  /\ UNCHANGED <<service, op, caller, input, request, tokens, attempt, resent, seen, result>>

\* Mutant: every attempt prepares the request again.
RetryAfresh ==
  /\ phase = "answered" /\ caller = "client"
  /\ attempt < MaxAttempts /\ MayRetry
  /\ attempt' = attempt + 1 /\ tokens' = tokens + 1
  /\ request' = Request(C, Prepared(C.calls[op], input, Token(tokens + 1)), request.gzip)
  /\ resent' = FALSE /\ outcome' = None /\ response' = None
  /\ phase' = "sent"
  /\ UNCHANGED <<service, op, caller, input, seen, result>>

\* SendWithRetries sends the same request again.
Retry ==
  /\ phase = "answered" /\ caller = "client"
  /\ attempt < MaxAttempts /\ MayRetry
  /\ attempt' = attempt + 1
  /\ resent' = FALSE /\ outcome' = None /\ response' = None
  /\ phase' = "sent"
  /\ UNCHANGED <<service, op, caller, input, request, tokens, seen, result>>

\* The last attempt's outcome becomes the call's.
Return ==
  /\ phase = "answered" /\ caller = "client"
  /\ attempt = MaxAttempts \/ ~MayRetry
  /\ result' = IF response.status = 0
               THEN Unsuccessful(Error("transport", "", "", response.retryable))
               ELSE CallResult(C, response)
  /\ phase' = "done"
  /\ UNCHANGED <<service, op, caller, input, request, tokens, attempt, resent, seen, outcome, response>>

Next == Prepare \/ Stray \/ Serve \/ Lose \/ Resend \/ Intervene \/ Retry \/ Return

Spec == Init /\ [][Next]_vars

-----------------------------------------------------------------------------
\* However often a call is sent again, by SendWithRetries or by the transport
\* within one attempt, every run of the handler gets the caller's input, one
\* and the same idempotency token with it (the token is made before
\* SendWithRetries, not per attempt), an input that satisfies the model's
\* constraints; a request that is not of the protocol, or whose compressed
\* body does not inflate, never reaches the handler.
HandlerSeesTheCall ==
  LET call  == C.calls[op]
      route == C.routes[op]
      sent  == Kept(C, Ref(call.sends), Prepared(call, input, Token(1)))
  IN  /\ caller = "stranger" => seen = {}
      /\ call.sends # "" => \A v \in seen :
           /\ v = sent
           /\ route.validates # "" => Valid(C, C.validators[route.validates], v)

\* A typed detail arrives whole; only a message it left out may be filled in
\* with the error's own.
SameDetail(c, code, message, sent, got) ==
  \A f \in DOMAIN sent :
    IF f = "message" /\ \E i \in DOMAIN c.types[code][2] : c.types[code][2][i] = Opt("message", Str)
    THEN got[f] = IF sent[f] = <<>> /\ message # "" THEN <<message>> ELSE sent[f]
    ELSE got[f] = sent[f]

\* The caller is told what the handler returned in the last run whose answer
\* arrived: its output, or its error under the same code, with its detail,
\* and retryable exactly as the model says.  What the handler said of an
\* unexpected failure is not told ("Never leak internal detail").  Failures
\* of the network or of a peer never pass for an output, with one exception
\* of the generated clients: a 200 without a body, or without a "result",
\* is the default-initialised output where every member of it is optional,
\* and where there is no output to read nothing of a 200 is looked at.
CallerToldTheTruth ==
  phase = "done" =>
    LET call == C.calls[op]
        lost == response.status # 0 /\ response.body = Failed
        told == result[2]
    IN  CASE outcome[1] = "ok" ->
               IF call.reads = "" THEN result = IF lost /\ ~IsRpcV2(C) THEN Unsuccessful(told) ELSE Ok(<<>>)
               ELSE IF lost \/ ~Carries(C, Ref(call.reads), outcome[2]) THEN result[1] = "error"
               ELSE result = Ok(Kept(C, Ref(call.reads), outcome[2]))
          [] outcome[1] = "error" ->
               LET e == outcome[2]
               IN  /\ result[1] = "error"
                   /\ e.kind = "other" => told.message # e.message
                   /\ ~lost /\ e.kind = "other" => told.code = "InternalFailure" /\ told.retryable
                   /\ ~lost /\ e.kind \in {"validation", "serialization"} =>
                        told.code = "SerializationException" /\ ~told.retryable
                   /\ ~lost /\ e.kind = "modeled" =>
                        /\ told.kind = "modeled" /\ told.code = e.code
                        /\ e.code \in C.errors[op] =>
                             /\ told.retryable = (C.made[e.code] = "always" \/ C.statuses[e.code] >= 500)
                             /\ e.detail # <<>> /\ Carries(C, Ref(e.code), e.detail[1]) =>
                                  /\ told.detail # <<>>
                                  /\ SameDetail(C, e.code, e.message,
                                                Kept(C, Ref(e.code), e.detail[1]), told.detail[1])
          [] outcome[1] = "refused" -> result[1] = "error" /\ ~told.retryable
          [] outcome[1] = "none" ->
               \/ result[1] = "error"
               \/ /\ response.status = 200
                  /\ IF call.reads = "" THEN result = Ok(<<>>)
                     ELSE /\ call.lenient
                          /\ response.body = NoBody \/ "result" \notin DOMAIN response.body[2][2]
                          /\ result = Ok(Initial(C, Ref(call.reads)))
=============================================================================
