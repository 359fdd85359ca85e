----------------------------- MODULE MCGateway -----------------------------
(* Two requests and a process that is started, stopped and fails.          *)
EXTENDS Gateway, TLC

Rt(method, command, kind) == [method |-> method, command |-> command, kind |-> kind]

MCRoutes ==
    ("GET /health/live" :> Rt("GET", "C3", "live")) @@ ("GET /health/ready" :> Rt("GET", "C3", "ready"))
    @@ ("GET /openapi.json" :> Rt("GET", "", "open")) @@ ("GET /nothing" :> Rt("GET", "", "none"))
    @@ ("OPTIONS /topics" :> Rt("OPTIONS", "", "none")) @@ ("GET /topics" :> Rt("GET", "T1", "read"))
    @@ ("GET /users" :> Rt("GET", "S1", "read")) @@ ("DELETE /topics" :> Rt("DELETE", "T7", "write"))
    @@ ("GET /records" :> Rt("GET", "M1", "scan"))

Text(key) == <<"text", key>>

MCKeys ==
    <<[id |-> "op", tier |-> "operator", sha256 |-> Sha(Text("o"))],
      [id |-> "rd", tier |-> "reader", sha256 |-> Sha(Text("r"))]>>

A(route, key) ==
    [route |-> route, key |-> key, id |-> "x", peer |-> "client", forwarded |-> <<>>, origin |-> "",
     breakGlass |-> FALSE, maxTime |-> 0]

Via(route, key, entries) == [A(route, key) EXCEPT !.peer = "proxy", !.forwarded = entries]

MCAsks ==
    {A("GET /health/live", Nothing), A("GET /health/ready", Text("r")), A("GET /nothing", Text("r")),
     A("GET /openapi.json", Text("o")), A("GET /users", Nothing), A("GET /topics", Text("r")),
     [A("OPTIONS /topics", Nothing) EXCEPT !.origin = "app"],
     [A("GET /topics", Text("none")) EXCEPT !.origin = "app", !.id = "{"],
     Via("DELETE /topics", Nothing, << <<"forged", "client", "", "proxy">> >>),
     Via("DELETE /topics", Nothing, << <<"forged">>, <<"client">> >>),
     [Via("DELETE /topics", Text("r"), << <<"proxy">> >>) EXCEPT !.breakGlass = TRUE],
     [A("DELETE /topics", Text("o")) EXCEPT !.forwarded = << <<"forged">> >>],
     [A("GET /records", Text("r")) EXCEPT !.maxTime = 1],
     [A("GET /records", Text("o")) EXCEPT !.maxTime = 2, !.breakGlass = TRUE],
     [A("GET /records", Text("o")) EXCEPT !.maxTime = -1],
     [A("GET /records", Text("o")) EXCEPT !.maxTime = 3]}

Open == [readOnly |-> FALSE, dataPlaneLock |-> FALSE, disabled |-> {}]

C ==
    [auth |-> TRUE, keys |-> MCKeys, proxies |-> {"proxy"}, origins |-> {"app"}, sink |-> "stdout",
     topic |-> FALSE, maxTime |-> 2, writeTimeout |-> 0, logLevel |-> "info", policy |-> Open]

MCConfigs ==
    {C, [C EXCEPT !.sink = "kafka", !.topic = TRUE, !.policy.dataPlaneLock = TRUE],
     [C EXCEPT !.auth = FALSE, !.keys = <<>>, !.origins = {"*"}, !.policy.readOnly = TRUE],
     [C EXCEPT !.logLevel = "warn"], [C EXCEPT !.logLevel = "trace"],
     [C EXCEPT !.writeTimeout = 4, !.policy.disabled = {"T7"}, !.proxies = {}],
     [C EXCEPT !.writeTimeout = 2], [C EXCEPT !.origins = {"*"}]}

(* The key and the digest that keygen printed, each where it is to go.     *)
Bytes == <<"bytes", "b">>

MCDrawn == {Bytes}

MCMinted == {[C EXCEPT !.keys = <<[id |-> "op", tier |-> "operator", sha256 |-> Minted(Bytes).sha256]>>]}

MCMintedAsks == {A("GET /topics", Minted(Bytes).key), A("DELETE /topics", Minted(Bytes).key)}
=============================================================================
