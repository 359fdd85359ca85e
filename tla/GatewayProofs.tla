--------------------------- MODULE GatewayProofs ---------------------------
(***************************************************************************)
(* The shutdown of the gateway, for every number of requests, every        *)
(* configuration and every slack: nothing in flight loses what it works    *)
(* with, success is only reported when nothing was cut short, and a scan   *)
(* with a bound is not.                                                    *)
(***************************************************************************)
EXTENDS Gateway, FiniteSetTheorems, WellFoundedInduction, TLAPS

(* A request is the record of its fields.                                  *)
HasFields(q) ==
    q = [stage |-> q.stage, ask |-> q.ask, id |-> q.id, ip |-> q.ip, key |-> q.key, status |-> q.status,
         cors |-> q.cors, left |-> q.left, todo |-> q.todo, ran |-> q.ran]

Records == \A r \in Requests : HasFields(req[r])

(* The data of every state, as far as the theorem needs it.                *)
Shape ==
    /\ DOMAIN req = Requests /\ Records
    /\ \A r \in Requests : req[r].stage # "absent" => req[r].ask.maxTime \in Int
    /\ config.maxTime \in Int /\ config.writeTimeout \in Int
    /\ phase \notin {"load", "exited"} => config.maxTime > 0 /\ config.writeTimeout >= config.maxTime + Slack

(* The steps of the start.                                                 *)
Up == {"telemetry", "client", "audit", "server", "listen"}

(* Requests are served from the moment all is open until none is left.     *)
Serving ==
    /\ \A r \in Requests : InFlight(r) => phase \in {"serving", "draining"}
    /\ phase \in {"client", "audit", "server", "listen", "serving", "draining"} => "telemetry" \in open
    /\ phase \in {"audit", "server", "listen", "serving", "draining"} => "data" \in open
    /\ phase \in {"server", "listen", "serving", "draining"} => (config.sink = "kafka" => "audit" \in open)

(* Only the end of the process cuts requests short, and not a good one.    *)
Ending ==
    /\ phase # "exited" => exit = "running"
    /\ exit = "0" => open = {}
    /\ \A r \in Requests : req[r].stage = "cut" => phase = "exited" /\ exit # "0"

(* A scan that was under way when the shutdown began ends before it does.  *)
InTime ==
    /\ \A r \in Requests : Scans(r) => req[r].left \in Nat /\ req[r].left <= config.maxTime
    /\ scanning \subseteq Requests
    /\ phase \in Up \cup {"load", "serving"} => scanning = {}
    /\ phase = "draining" =>
          /\ grace \in Nat
          /\ \A r \in scanning : /\ req[r].stage \in {"scan", "answered"}
                                 /\ Scans(r) => req[r].left + Slack <= grace
    /\ \A r \in scanning : req[r].stage = "cut" => req[r].ask.maxTime <= 0

(* The inductive invariant.                                                *)
Inv == Shape /\ Serving /\ Ending /\ InTime

-----------------------------------------------------------------------------
(* What the end of the process makes of the requests.                      *)
LEMMA ExitsCut ==
    ASSUME Shape, NEW code, Exits(code)
    PROVE  /\ DOMAIN req' = Requests /\ Records'
           /\ \A r \in Requests :
                 /\ UNCHANGED <<req[r].ask, req[r].left>>
                 /\ req'[r].stage = IF InFlight(r) THEN "cut" ELSE req[r].stage
BY DEF Shape, Records, HasFields, Exits

(* The end of the process: no request is in flight after it.               *)
LEMMA ExitKept ==
    ASSUME Inv, NEW code, Exits(code), UNCHANGED scanning, config' = config \/ config' = Derived(config),
           config'.maxTime \in Int, config'.writeTimeout \in Int,
           code = "0" => Quiet /\ open' = {} /\ \A r \in Requests : req[r].stage # "cut",
           code # "0" => code = "1",
           \A r \in scanning : InFlight(r) => req[r].ask.maxTime <= 0
    PROVE  Inv'
<1>1. /\ DOMAIN req' = Requests /\ Records'
      /\ \A r \in Requests :
            /\ UNCHANGED <<req[r].ask, req[r].left>>
            /\ req'[r].stage = IF InFlight(r) THEN "cut" ELSE req[r].stage
  BY ExitsCut DEF Inv
<1>2. phase' = "exited" /\ exit' = code
  BY DEF Exits
<1>3. \A r \in Requests : req'[r].stage \in {"absent", "answered", "cut"}
  BY <1>1 DEF InFlight
<1>4. Shape'
  BY <1>1, <1>2 DEF Inv, Shape, InFlight
<1>5. Serving'
  BY <1>2, <1>3 DEF Serving, InFlight
<1>6. Ending'
  BY <1>1, <1>2 DEF Ending, Quiet
<1>7. InTime'
  <2>1. \A r \in Requests : ~ Scans(r)'
    BY <1>3 DEF Scans
  <2>2. \A r \in scanning : req'[r].stage = "cut" => req'[r].ask.maxTime <= 0
    BY <1>1 DEF Inv, InTime
  <2> QED
    BY <1>2, <2>1, <2>2 DEF Inv, InTime, Up
<1> QED
  BY <1>4, <1>5, <1>6, <1>7 DEF Inv

(* A step of the process that leaves the requests alone.                   *)
LEMMA StillKept ==
    ASSUME Inv, UNCHANGED <<req, config, exit, scanning>>, Serving',
           \/ phase # "exited" /\ UNCHANGED <<phase, grace>>
           \/ phase \in Up /\ phase' \in Up \cup {"serving"}
           \/ phase \in {"draining", "flushing"} /\ phase' \in {"flushing", "closing"}
    PROVE  Inv'
<1>1. Shape'
  BY DEF Inv, Shape, Records, HasFields, Up
<1>2. Ending'
  BY DEF Inv, Ending, Up
<1>3. InTime'
  BY DEF Inv, InTime, Scans, Up
<1> QED
  BY <1>1, <1>2, <1>3 DEF Inv

(* A step of one request that begins no scan keeps the rest as it is.      *)
LEMMA OneMoves ==
    ASSUME Inv, NEW r \in Requests, UNCHANGED <<procVars, scanning>>,
           phase # "exited",
           DOMAIN req' = Requests,
           \A q \in Requests \ {r} : req'[q] = req[q],
           HasFields(req'[r]),
           req'[r].stage # "absent" => req'[r].ask.maxTime \in Int,
           req'[r].stage # "cut",
           InFlight(r)' => phase \in {"serving", "draining"},
           Scans(r)' => req'[r].left \in Nat /\ req'[r].left <= config.maxTime,
           req[r].stage = "scan" => req'[r].stage = "answered",
           req[r].stage = "answered" => req'[r].stage = "answered"
    PROVE  Inv'
<1>0. UNCHANGED <<phase, config, open, healthy, signalled, grace, exit, scanning>>
  BY DEF procVars
<1>1. Shape'
  BY <1>0 DEF Inv, Shape, Records, HasFields
<1>2. Serving'
  BY <1>0 DEF Inv, Serving, InFlight
<1>3. Ending'
  BY <1>0 DEF Inv, Ending
<1>4. InTime'
  <2>1. \A q \in Requests \ {r} : Scans(q)' = Scans(q)
    BY DEF Scans
  <2>2. \A q \in Requests : Scans(q)' => req'[q].left \in Nat /\ req'[q].left <= config.maxTime
    BY <2>1 DEF Inv, InTime
  <2>3. phase = "draining" =>
           \A q \in scanning : /\ req'[q].stage \in {"scan", "answered"}
                                /\ Scans(q)' => req'[q].left + Slack <= grace
    BY <2>1 DEF Inv, InTime, Scans
  <2>4. \A q \in scanning : req'[q].stage = "cut" => req'[q].ask.maxTime <= 0
    BY DEF Inv, InTime
  <2> QED
    BY <1>0, <2>2, <2>3, <2>4 DEF Inv, InTime
<1> QED
  BY <1>1, <1>2, <1>3, <1>4 DEF Inv

(* Every step of a request.                                                *)
LEMMA RequestKept ==
    ASSUME Inv, NEW r \in Requests, Request(r)
    PROVE  Inv'
<1>1. /\ DOMAIN req = Requests
      /\ HasFields(req[r])
      /\ req[r].stage # "absent" => req[r].ask.maxTime \in Int
      /\ config.maxTime \in Int
  BY DEF Inv, Shape, Records, HasFields
<1>2. UNCHANGED <<procVars, scanning>>
  BY DEF Request, At, Arrive, Chain, RecordsRejection, Dispatch, WorkEnds, ScanBegins, ScanEnds
<1>3. CASE Arrive(r)
  <2>1. PICK a \in Asks : req' = [req EXCEPT ![r].stage = "chain", ![r].ask = a]
    BY <1>3 DEF Arrive
  <2>2. req[r].stage = "absent" /\ phase \in {"serving", "draining"} /\ a.maxTime \in Int
    BY <1>3, GatewayAssumption DEF Arrive, At
  <2> QED
    BY <1>1, <1>2, <2>1, <2>2, OneMoves DEF Scans, HasFields
<1>4. SUFFICES ASSUME ~ Arrive(r) PROVE Inv'
  BY <1>3
<1>5. InFlight(r) /\ phase \in {"serving", "draining"} /\ req[r].stage # "absent"
  BY <1>4 DEF Request, At, Arrive, Chain, RecordsRejection, Dispatch, WorkEnds, ScanBegins, ScanEnds,
              Inv, Serving, InFlight
<1>6. ASSUME NEW status, Answer(r, status)
      PROVE  Inv'
  BY <1>1, <1>2, <1>5, <1>6, OneMoves DEF Answer, InFlight, Scans, HasFields
<1>7. ASSUME NEW stage, Goes(r, stage), stage \notin {"absent", "cut", "scan", "answered"}, req[r].stage # "scan"
      PROVE  Inv'
  BY <1>1, <1>2, <1>5, <1>7, OneMoves DEF Goes, InFlight, Scans, HasFields
<1>8. CASE Chain(r)
  <2> DEFINE a == req[r].ask
             passes == Authenticated(a, config)
             id == RequestId(a.id)
             ip == ClientIP(a.peer, a.forwarded, config.proxies)
             cors == (Preflight(a) \/ passes) /\ AllowsOrigin(a, config)
             known == [req[r] EXCEPT !.id = id, !.ip = ip, !.cors = cors]
             next ==
                 IF Preflight(a) THEN [known EXCEPT !.stage = "answered", !.status = 204]
                 ELSE IF passes THEN [known EXCEPT !.stage = "mux", !.key = KeyOf(a, config)]
                 ELSE IF RouteIsWrite(a) THEN [known EXCEPT !.stage = "reject", !.status = 401, !.todo = Sinks]
                 ELSE [known EXCEPT !.stage = "answered", !.status = 401]
  <2>0. req' = [req EXCEPT ![r] = next]
    BY <1>8 DEF Chain
  <2>1. /\ DOMAIN req' = Requests /\ req'[r] = next
        /\ \A q \in Requests \ {r} : req'[q] = req[q]
    BY <1>1, <2>0
  <2>2. req[r].stage = "chain"
    BY <1>8 DEF Chain, At
  <2>3. /\ HasFields(req'[r])
        /\ req'[r].ask = req[r].ask
        /\ req'[r].stage \in {"answered", "mux", "reject"}
    <3> HIDE DEF passes, id, ip, cors
    <3>1. known = [req[r] EXCEPT !.id = id, !.ip = ip, !.cors = cors] /\ HasFields(req[r])
      BY <1>1 DEF HasFields
    <3> HIDE DEF known
    <3>2. known.ask = req[r].ask /\ HasFields(known)
      BY <3>1 DEF HasFields
    <3>3. /\ HasFields(next)
          /\ next.ask = known.ask
          /\ next.stage \in {"answered", "mux", "reject"}
      BY <3>2, ZenonT(60) DEF HasFields
    <3> QED
      BY <2>1, <3>2, <3>3 DEF HasFields
  <2> QED
    BY <1>1, <1>2, <1>5, <2>1, <2>2, <2>3, OneMoves DEF Scans
<1>9. CASE RecordsRejection(r)
  <2>1. /\ req[r].stage = "reject"
        /\ req' = [req EXCEPT ![r].todo = Tail(@), ![r].stage = IF Len(req[r].todo) = 1 THEN "answered" ELSE @]
    BY <1>9 DEF RecordsRejection, At
  <2> QED
    BY <1>1, <1>2, <1>5, <2>1, OneMoves DEF Scans, HasFields
<1>10. CASE Dispatch(r)
  <2>1. req[r].stage = "mux"
    BY <1>10 DEF Dispatch, At
  <2>2. CASE Gated(r)
    <3>1. CASE Goes(r, "work")
      BY <1>7, <2>1, <3>1
    <3>2. ASSUME NEW status,
                 req' = [req EXCEPT ![r].stage = "reject", ![r].status = status, ![r].todo = Sinks]
          PROVE  Inv'
      BY <1>1, <1>2, <1>5, <2>1, <3>2, OneMoves DEF Scans, HasFields
    <3> QED
      BY <2>2, <3>1, <3>2 DEF Gated
  <2> QED
    BY <1>6, <1>7, <1>10, <2>1, <2>2 DEF Dispatch
<1>11. CASE WorkEnds(r)
  BY <1>6, <1>11 DEF WorkEnds
<1>12. CASE ScanBegins(r)
  <2>1. req[r].stage = "work"
    BY <1>12 DEF ScanBegins, At
  <2>2. CASE req[r].ask.maxTime > config.maxTime
    BY <1>6, <1>12, <2>2 DEF ScanBegins
  <2>3. CASE ~ req[r].ask.maxTime > config.maxTime
    <3>1. req' = [req EXCEPT ![r].stage = "scan",
                             ![r].left = IF req[r].ask.maxTime > 0 THEN req[r].ask.maxTime ELSE 0]
      BY <1>12, <2>3 DEF ScanBegins
    <3>2. /\ DOMAIN req' = Requests
          /\ \A q \in Requests \ {r} : req'[q] = req[q]
          /\ HasFields(req'[r])
          /\ req'[r].stage = "scan" /\ req'[r].ask = req[r].ask
          /\ req'[r].left = IF req[r].ask.maxTime > 0 THEN req[r].ask.maxTime ELSE 0
      BY <1>1, <3>1 DEF HasFields
    <3>3. Scans(r)' => req'[r].left \in Nat /\ req'[r].left <= config.maxTime
      BY <1>1, <1>5, <2>3, <3>2 DEF Scans
    <3> QED
      BY <1>1, <1>2, <1>5, <2>1, <3>2, <3>3, OneMoves
  <2> QED
    BY <2>2, <2>3
<1>13. CASE ScanEnds(r)
  BY <1>6, <1>13 DEF ScanEnds
<1> QED
  BY <1>4, <1>8, <1>9, <1>10, <1>11, <1>12, <1>13 DEF Request

(* Every step of the process and of time.                                  *)
LEMMA ProcessKept ==
    ASSUME Inv, Process \/ Fails \/ Signal \/ Tick
    PROVE  Inv'
<1>1. CASE Load
  <2>1. phase = "load" /\ scanning = {} /\ UNCHANGED <<open, scanning>> /\ config' = Derived(config)
    BY <1>1 DEF Load, Inv, InTime
  <2>2. config.maxTime \in Int /\ config.writeTimeout \in Int
    BY DEF Inv, Shape
  <2>3. config'.maxTime \in Int /\ config'.writeTimeout \in Int
    BY <2>1, <2>2, GatewayAssumption DEF Derived
  <2>4. CASE Exits("1")
    BY <2>1, <2>3, <2>4, ExitKept
  <2>5. CASE Valid(config') /\ phase' = "telemetry" /\ UNCHANGED <<exit, req>>
    <3>1. Shape'
      BY <2>3, <2>5 DEF Inv, Shape, Records, HasFields, Valid
    <3>2. Serving'
      BY <2>1, <2>5 DEF Inv, Serving, InFlight
    <3>3. Ending'
      BY <2>1, <2>5 DEF Inv, Ending
    <3>4. InTime'
      <4>1. \A r \in Requests : ~ Scans(r)'
        BY <2>1, <2>5 DEF Inv, Serving, InFlight, Scans
      <4> QED
        BY <2>1, <2>5, <4>1 DEF InTime
    <3> QED
      BY <3>1, <3>2, <3>3, <3>4 DEF Inv
  <2> QED
    BY <1>1, <2>4, <2>5 DEF Load
<1>2. CASE OpenTelemetry \/ OpenClient \/ OpenAudit \/ OpenServer \/ Listen
  <2>1. /\ UNCHANGED <<req, config, exit, scanning>>
        /\ open \subseteq open'
        /\ \/ phase = "telemetry" /\ phase' = "client" /\ "telemetry" \in open'
           \/ phase = "client" /\ phase' = "audit" /\ "data" \in open'
           \/ phase = "audit" /\ phase' = "server" /\ (config.sink = "kafka" => "audit" \in open')
           \/ phase = "server" /\ phase' = "listen"
           \/ phase = "listen" /\ phase' = "serving"
    BY <1>2 DEF OpenTelemetry, OpenClient, OpenAudit, OpenServer, Listen, Boot
  <2>2. Serving'
    BY <2>1 DEF Inv, Serving, InFlight
  <2> QED
    BY <2>1, <2>2, StillKept DEF Up
<1>3. CASE Fails
  <2>1. /\ Exits("1") /\ UNCHANGED <<config, scanning>>
        /\ phase \in Up \cup {"serving"}
    BY <1>3 DEF Fails, Up
  <2>2. scanning = {}
    BY <2>1 DEF Inv, InTime
  <2> QED
    BY <2>1, <2>2, ExitKept DEF Inv, Shape
<1>4. CASE Signal
  <2>1. Serving'
    BY <1>4 DEF Signal, Inv, Serving, InFlight
  <2> QED
    BY <1>4, <2>1, StillKept DEF Signal
<1>5. CASE BeginsShutdown
  <2>1. /\ phase = "serving" /\ phase' = "draining" /\ open' = open \ {"listener"}
        /\ grace' = config.writeTimeout
        /\ scanning' = {r \in Requests : req[r].stage = "scan"}
        /\ UNCHANGED <<config, exit, req>>
    BY <1>5 DEF BeginsShutdown
  <2>2. Shape'
    BY <2>1 DEF Inv, Shape, Records, HasFields
  <2>3. Serving'
    BY <2>1 DEF Inv, Serving, InFlight
  <2>4. Ending'
    BY <2>1 DEF Inv, Ending
  <2>5. InTime'
    <3>1. \A r \in Requests : Scans(r)' = Scans(r)
      BY <2>1 DEF Scans
    <3>2. config.writeTimeout \in Nat /\ config.writeTimeout >= config.maxTime + Slack /\ config.maxTime \in Nat
      BY <2>1, GatewayAssumption DEF Inv, Shape
    <3>3. \A r \in scanning' : r \in Requests /\ req'[r].stage = "scan"
      BY <2>1
    <3>4. \A r \in Requests : Scans(r)' => req'[r].left \in Nat /\ req'[r].left <= config'.maxTime
      BY <2>1, <3>1 DEF Inv, InTime
    <3>5. \A r \in scanning' : Scans(r)' => req'[r].left + Slack <= grace'
      BY <2>1, <3>2, <3>3, <3>4, GatewayAssumption
    <3> QED
      BY <2>1, <3>2, <3>3, <3>4, <3>5 DEF InTime, Up
  <2> QED
    BY <2>2, <2>3, <2>4, <2>5 DEF Inv
<1>6. CASE Drained
  <2>1. phase = "draining" /\ phase' = "flushing" /\ Quiet /\ UNCHANGED <<req, config, exit, scanning, open>>
    BY <1>6 DEF Drained
  <2>2. Serving'
    BY <2>1 DEF Inv, Serving, Quiet, InFlight
  <2> QED
    BY <2>1, <2>2, StillKept
<1>7. CASE DrainTimesOut
  <2>1. phase = "draining" /\ grace = 0 /\ Exits("1") /\ UNCHANGED <<config, scanning>>
    BY <1>7 DEF DrainTimesOut
  <2>2. ASSUME NEW r \in scanning, InFlight(r) PROVE req[r].ask.maxTime <= 0
    <3>1. r \in Requests /\ req[r].stage = "scan"
      BY <2>1, <2>2 DEF Inv, InTime, InFlight
    <3>2. Scans(r) => req[r].left \in Nat /\ req[r].left + Slack <= 0
      BY <2>1, <3>1 DEF Inv, InTime
    <3> QED
      BY <3>1, <3>2, GatewayAssumption DEF Scans, Inv, Shape
  <2> QED
    BY <2>1, <2>2, ExitKept DEF Inv, Shape
<1>8. CASE Flush
  <2>1. phase = "flushing" /\ UNCHANGED <<config, scanning>> /\ Quiet
    BY <1>8 DEF Flush, Inv, Serving, Quiet
  <2>2. CASE Exits("1")
    BY <2>1, <2>2, ExitKept DEF Inv, Shape, InTime, Quiet
  <2>3. CASE phase' = "closing" /\ UNCHANGED <<exit, req>>
    <3>1. Serving'
      BY <2>1, <2>3 DEF Serving, Quiet, InFlight
    <3> QED
      BY <2>1, <2>3, <3>1, StillKept
  <2> QED
    BY <1>8, <2>2, <2>3 DEF Flush
<1>9. CASE Close
  <2>1. phase = "closing" /\ UNCHANGED <<config, scanning>> /\ Quiet /\ \A r \in Requests : req[r].stage # "cut"
    BY <1>9 DEF Close, Inv, Serving, Ending, Quiet
  <2>2. CASE open' = {} /\ Exits("0")
    BY <2>1, <2>2, ExitKept DEF Inv, Shape, InTime, Quiet
  <2>3. CASE UNCHANGED <<phase, exit, req>>
    <3>1. Serving'
      BY <2>1, <2>3 DEF Serving, Quiet, InFlight
    <3>2. UNCHANGED grace
      BY <1>9 DEF Close
    <3> QED
      BY <2>1, <2>3, <3>1, <3>2, StillKept
  <2> QED
    BY <1>9, <2>2, <2>3 DEF Close
<1>10. CASE Tick
  <2>1. /\ UNCHANGED <<phase, config, open, exit, scanning>>
        /\ phase \in {"serving", "draining"}
        /\ \A r \in Requests : Scans(r) => req[r].left > 0
        /\ phase = "draining" => grace > 0 /\ grace' = grace - 1
        /\ req' = [r \in Requests |-> IF Scans(r) THEN [req[r] EXCEPT !.left = @ - 1] ELSE req[r]]
    BY <1>10 DEF Tick
  <2>2. ASSUME NEW r \in Requests
        PROVE  /\ HasFields(req'[r])
               /\ req'[r].stage = req[r].stage /\ req'[r].ask = req[r].ask
               /\ req'[r].left = IF Scans(r) THEN req[r].left - 1 ELSE req[r].left
    <3>1. HasFields(req[r])
      BY DEF Inv, Shape, Records, HasFields
    <3>2. req'[r] = IF Scans(r) THEN [req[r] EXCEPT !.left = @ - 1] ELSE req[r]
      BY <2>1
    <3> QED
      BY <3>1, <3>2 DEF HasFields
  <2>3. Shape'
    BY <2>1, <2>2 DEF Inv, Shape, Records, HasFields
  <2>4. Serving' /\ Ending'
    BY <2>1, <2>2 DEF Inv, Serving, Ending, InFlight
  <2>5. InTime'
    <3>1. \A r \in Requests : Scans(r)' = Scans(r)
      BY <2>2 DEF Scans
    <3>2. \A r \in Requests : Scans(r)' => /\ req'[r].left \in Nat /\ req'[r].left <= config'.maxTime
                                            /\ req'[r].left = req[r].left - 1
      BY <2>1, <2>2, <3>1 DEF Inv, InTime, Shape
    <3>3. \A r \in scanning : r \in Requests /\ req'[r].stage = req[r].stage /\ req'[r].ask = req[r].ask
      BY <2>2 DEF Inv, InTime
    <3>4. phase = "draining" =>
             /\ grace' \in Nat
             /\ \A r \in scanning : /\ req'[r].stage \in {"scan", "answered"}
                                    /\ Scans(r)' => req'[r].left + Slack <= grace'
      BY <2>1, <3>1, <3>2, <3>3, GatewayAssumption DEF Inv, InTime
    <3> QED
      BY <2>1, <3>2, <3>3, <3>4 DEF Inv, InTime, Up
  <2> QED
    BY <2>3, <2>4, <2>5 DEF Inv
<1> QED
  BY <1>1, <1>2, <1>3, <1>4, <1>5, <1>6, <1>7, <1>8, <1>9, <1>10 DEF Process

(* What the theorem needs holds in every state.                            *)
LEMMA InvHolds == Spec => []Inv
<1>1. Init => Inv
  <2> SUFFICES ASSUME Init PROVE Inv
    OBVIOUS
  <2>1. \A r \in Requests : req[r] = Absent
    BY DEF Init
  <2>2. Shape
    BY <2>1, GatewayAssumption DEF Init, Shape, Records, HasFields, Absent
  <2>3. Serving /\ Ending
    BY <2>1 DEF Init, Serving, Ending, InFlight, Absent
  <2>4. InTime
    BY <2>1 DEF Init, InTime, Scans, Absent, Up
  <2> QED
    BY <2>2, <2>3, <2>4 DEF Inv
<1>2. Inv /\ [Next]_vars => Inv'
  <2> SUFFICES ASSUME Inv, [Next]_vars PROVE Inv'
    OBVIOUS
  <2>1. CASE UNCHANGED vars
    BY <2>1 DEF Inv, Shape, Records, HasFields, Serving, Ending, InTime, Scans, InFlight, vars, procVars
  <2>2. CASE \E r \in Requests : Request(r)
    BY <2>2, RequestKept
  <2> QED
    BY <2>1, <2>2, ProcessKept DEF Next
<1> QED
  BY <1>1, <1>2, PTL DEF Spec

(* internal/app/shutdown.go: in every state of the gateway, what is in     *)
(* flight has what it works with open, a good exit cut nothing short, and  *)
(* no scan with a bound that was under way was.                            *)
THEOREM ShutdownIsOrderly == Spec => []OrderlyShutdown
<1>1. Inv => OrderlyShutdown
  BY DEF Inv, Serving, Ending, InTime, OrderlyShutdown, Quiet
<1> QED
  BY <1>1, InvHolds, PTL

-----------------------------------------------------------------------------
(* What the chain knows of a request, the refusals of it, and the events.  *)
Waiting == {"absent", "chain", "mux", "work", "scan"}

Logged(r) == {e \in trail : e.req = r /\ e.sink = "stdout"}

(* The one event the log has of a refusal, if its level lets it through.   *)
OneLogged(r) == IF Keeps("stdout") THEN \E e \in trail : Logged(r) = {e} ELSE Logged(r) = {}

(* The X-Forwarded-For headers, and the entries of each, come in an order. *)
Listed(a) == IsList(a.forwarded) /\ \A i \in DOMAIN a.forwarded : IsList(a.forwarded[i])

(* The key of a request that went on is one of the configuration's.        *)
Opened(r) ==
    IF config.auth
    THEN \E i \in DOMAIN config.keys :
            config.keys[i].sha256 = Sha(req[r].ask.key) /\ req[r].key = config.keys[i]
    ELSE req[r].key.id = ""

(* A refusal: why, and whose.                                              *)
Refused(r) ==
    /\ RouteIsWrite(req[r].ask) \/ req[r].status = 403
    /\ \/ req[r].status = 401 /\ req[r].key = NoKey
       \/ req[r].status = 403 /\ (req[r].key.id = "" <=> ~ config.auth)
    /\ Vouched(req[r].ip, req[r].ask)

(* No operation ran without a key and the right to it.                     *)
Allowed(r) ==
    req[r].ran =>
        /\ config.auth => \E i \in DOMAIN config.keys :
              /\ config.keys[i].sha256 = Sha(req[r].ask.key)
              /\ Kind(r) = "write" => config.keys[i].tier = "operator"
        /\ Kind(r) = "write" => ~ config.policy.readOnly

(* One request, and the events of it.                                      *)
Entry(r) ==
    LET told == req[r] IN
    /\ told.stage \in Waiting \cup {"reject", "answered", "cut"}
    /\ told.stage \in {"absent", "chain"} => told.key = NoKey /\ ~ told.ran
    /\ told.stage # "absent" =>
          Listed(told.ask) /\ (Kind(r) = "write" => Command(r) \in WriteIds)
    /\ told.stage \in {"mux", "work", "scan"} => Opened(r) /\ Vouched(told.ip, told.ask)
    /\ told.stage \in Waiting => told.status = 0 /\ \A e \in trail : e.req # r
    /\ told.stage = "reject" =>
          /\ Refused(r)
          /\ \/ told.todo = Sinks /\ \A e \in trail : e.req # r
             \/ told.todo = <<"kafka">> /\ OneLogged(r)
    /\ told.stage = "answered" /\ told.status \in {401, 403} =>
          IF RouteIsWrite(told.ask) \/ told.status = 403
          THEN OneLogged(r)
          ELSE Logged(r) = {}
    /\ Allowed(r)

(* An event says what is true of its request.                              *)
Truthful(e) ==
    /\ e.req \in Requests
    /\ Refused(e.req)
    /\ e.id = req[e.req].id /\ e.ip = req[e.req].ip /\ e.key = req[e.req].key.id
    /\ e.severity = IF req[e.req].ask.breakGlass THEN "HIGH" ELSE "WARN"

(* Before it serves, the process has no requests; after, no unnamed keys.  *)
Keyed ==
    /\ IsList(config.keys)
    /\ phase = "load" => config \in Configs
    /\ phase \in Up \cup {"load"} => \A r \in Requests : req[r].stage = "absent"
    /\ phase \in Up \cup {"serving", "draining", "flushing", "closing"} =>
          \A i \in DOMAIN config.keys : config.keys[i].id # ""

(* The inductive invariant of the refusals, with that of the process.      *)
OnRecord ==
    /\ Inv
    /\ Keyed
    /\ \A r \in Requests : Entry(r)
    /\ \A e \in trail : Truthful(e)

-----------------------------------------------------------------------------
(* The gates alone answer 403, and nothing that ran does.                  *)
LEMMA StatusOfRun ==
    ASSUME NEW outcome, outcome \notin Refusals
    PROVE  Status(outcome) \notin {401, 403}
<1>1. outcome \in DOMAIN KindTable => KindTable[outcome] \notin {401, 403}
  BY DEF KindTable
<1>2. outcome \in DOMAIN CodeTable => CodeTable[outcome] \notin {401, 403}
  BY DEF CodeTable, Refusals
<1> QED
  BY <1>1, <1>2 DEF Status

(* A refusal of the gates is answered with 403.                            *)
LEMMA StatusOfRefusal ==
    ASSUME NEW refusal \in Refusals
    PROVE  Status(refusal) = 403
<1>1. refusal # "ok" /\ refusal \notin DOMAIN KindTable
  BY DEF Refusals, KindTable
<1>2. refusal \in DOMAIN CodeTable /\ CodeTable[refusal] = 403
  BY DEF Refusals, CodeTable
<1> QED
  BY <1>1, <1>2 DEF Status

(* What the gates let pass, if it is a mutation, is an operator's, and     *)
(* mutations are allowed.                                                  *)
LEMMA GateAllows ==
    ASSUME NEW caller, NEW id \in WriteIds, NEW policy, Check(caller, id, policy) = "pass"
    PROVE  caller.tier = "operator" /\ ~ policy.readOnly
BY DEF Check, WriteRefusal

(* What they do not let pass, they refuse.                                 *)
LEMMA GateRefuses ==
    ASSUME NEW caller, NEW id, NEW policy, Check(caller, id, policy) # "pass"
    PROVE  Check(caller, id, policy) \in Refusals
BY DEF Check, WriteRefusal, LockRefusal, Refusals

(* A set of numbers up to a bound has a greatest member.                   *)
LEMMA LastOf ==
    ASSUME NEW n \in Nat, NEW S, S \subseteq 1..n, S # {}
    PROVE  \E m \in S : \A i \in S : i <= m
<1> DEFINE T == {n - i : i \in S}
<1>1. T \subseteq Nat /\ T # {}
  <2>1. \A i \in S : n - i \in Nat
    OBVIOUS
  <2> QED
    BY <2>1
<1>2. PICK t \in T : \A u \in T : ~ (<<u, t>> \in OpToRel(<,Nat))
  <2> HIDE DEF T
  <2> QED
    BY <1>1, NatLessThanWellFounded, WFMin
<1>3. PICK m \in S : t = n - m
  OBVIOUS
<1>4. ASSUME NEW i \in S PROVE i <= m
  <2>1. n - i \in T /\ n - i \in Nat /\ t \in Nat
    BY <1>1
  <2>2. n - i < t => <<n - i, t>> \in OpToRel(<,Nat)
    BY <2>1 DEF OpToRel
  <2>3. ~ (n - i < t)
    BY <1>2, <2>1, <2>2
  <2> QED
    BY <1>3, <2>1, <2>3
<1> QED
  BY <1>4

(* A set of numbers has a least member.                                    *)
LEMMA FirstOf ==
    ASSUME NEW S, S \subseteq Nat, S # {}
    PROVE  \E m \in S : \A i \in S : m <= i
<1>1. PICK m \in S : \A i \in S : ~ (<<i, m>> \in OpToRel(<,Nat))
  BY NatLessThanWellFounded, WFMin
<1>2. \A i \in S : i < m => <<i, m>> \in OpToRel(<,Nat)
  BY DEF OpToRel
<1>3. \A i \in S : ~ (i < m)
  BY <1>1, <1>2
<1> QED
  BY <1>3

(* The client's address is the peer's, or one its proxies vouch for.       *)
LEMMA ClientVouched ==
    ASSUME NEW a, Listed(a)
    PROVE  Vouched(ClientIP(a.peer, a.forwarded, config.proxies), a)
<1> DEFINE entries == FirstHeader(a.forwarded)
           outside == {i \in DOMAIN entries : entries[i] # "" /\ entries[i] \notin config.proxies}
           last == CHOOSE i \in outside : \A j \in outside : j <= i
           ip == ClientIP(a.peer, a.forwarded, config.proxies)
<1>0. Len(entries) \in Nat /\ DOMAIN entries = 1..Len(entries)
  BY DEF FirstHeader, Listed, IsList
<1>1. ip = IF a.peer \notin config.proxies \/ outside = {} THEN a.peer ELSE entries[last]
  BY DEF ClientIP
<1>2. CASE a.peer \notin config.proxies \/ outside = {}
  BY <1>1, <1>2 DEF Vouched
<1>3. CASE ~ (a.peer \notin config.proxies \/ outside = {})
  <2>1. Len(entries) \in Nat /\ outside \subseteq 1..Len(entries)
    BY <1>0
  <2>2. \E i \in outside : \A j \in outside : j <= i
    <3> HIDE DEF outside
    <3> QED
      BY <1>3, <2>1, LastOf
  <2>3. last \in outside /\ \A j \in outside : j <= last
    <3> HIDE DEF outside
    <3> QED
      BY <2>2
  <2>4. last \in DOMAIN entries /\ ip = entries[last]
    BY <1>1, <1>3, <2>3
  <2>5. ASSUME NEW j \in DOMAIN entries, j > last
        PROVE  entries[j] \in config.proxies \cup {""}
    <3>1. j \notin outside
      <4> HIDE DEF outside, last
      <4>1. last \in Int
        BY <2>1, <2>3
      <4>2. j \in outside => j \in Int /\ j <= last
        BY <2>1, <2>3
      <4> QED
        BY <2>5, <4>1, <4>2
    <3> QED
      BY <3>1
  <2> HIDE DEF outside, last, ip
  <2>6. Vouched(ip, a)
    BY <1>3, <2>4, <2>5 DEF Vouched
  <2> QED
    BY <2>6 DEF ip
<1> QED
  BY <1>2, <1>3

(* Who is authenticated has one of the keys there are, if it takes one.    *)
LEMMA KeyIsOne ==
    ASSUME IsList(config.keys), NEW a, Authenticated(a, config)
    PROVE  IF config.auth
           THEN \E i \in DOMAIN config.keys :
                   config.keys[i].sha256 = Sha(a.key) /\ KeyOf(a, config) = config.keys[i]
           ELSE KeyOf(a, config) = NoKey
<1>1. CASE ~ config.auth
  BY <1>1 DEF KeyOf
<1>2. CASE config.auth
  <2> DEFINE match == MatchKey(a.key, config.keys)
             first == CHOOSE i \in match : \A j \in match : i <= j
  <2>1. match # {} /\ KeyOf(a, config) = config.keys[first]
    BY <1>2 DEF Authenticated, KeyOf
  <2>2. \A i \in match : i \in DOMAIN config.keys /\ config.keys[i].sha256 = Sha(a.key)
    BY DEF MatchKey
  <2>3. match \subseteq Nat
    BY <2>2 DEF IsList
  <2>4. first \in match
    <3> HIDE DEF match
    <3>1. \E i \in match : \A j \in match : i <= j
      BY <2>1, <2>3, FirstOf
    <3> QED
      BY <3>1
  <2> HIDE DEF match, first
  <2>5. /\ first \in DOMAIN config.keys
        /\ config.keys[first].sha256 = Sha(a.key) /\ KeyOf(a, config) = config.keys[first]
    BY <2>1, <2>2, <2>4
  <2> QED
    BY <1>2, <2>5
<1> QED
  BY <1>1, <1>2

-----------------------------------------------------------------------------
(* A refusal stays what it is.                                             *)
LEMMA RefusedKept ==
    ASSUME NEW r, UNCHANGED <<config, req[r].ask, req[r].ip, req[r].key, req[r].status>>
    PROVE  Refused(r)' <=> Refused(r)
<1>1. Vouched(req[r].ip, req[r].ask)' <=> Vouched(req[r].ip, req[r].ask)
  BY DEF Vouched
<1>2. RouteIsWrite(req[r].ask)' <=> RouteIsWrite(req[r].ask)
  BY DEF RouteIsWrite
<1>3. (req'[r].status = 403 /\ (req'[r].key.id = "" <=> ~ config'.auth))
          <=> (req[r].status = 403 /\ (req[r].key.id = "" <=> ~ config.auth))
  OBVIOUS
<1>4. (req'[r].status = 401 /\ req'[r].key = NoKey) <=> (req[r].status = 401 /\ req[r].key = NoKey)
  OBVIOUS
<1>5. req'[r].status = 403 <=> req[r].status = 403
  OBVIOUS
<1>6. Refused(r) => Refused(r)'
  BY <1>1, <1>2, <1>3, <1>4, <1>5 DEF Refused
<1>7. Refused(r)' => Refused(r)
  BY <1>1, <1>2, <1>3, <1>4, <1>5 DEF Refused
<1> QED
  BY <1>6, <1>7

(* The log keeps what it has of a request, and its level.                  *)
LEMMA LoggedKept ==
    ASSUME NEW r, UNCHANGED config, Logged(r)' = Logged(r)
    PROVE  OneLogged(r)' <=> OneLogged(r)
<1>1. Keeps("stdout")' <=> Keeps("stdout")
  BY DEF Keeps
<1>2. \A e : Logged(r) = {e} => e \in trail
  BY DEF Logged
<1>3. \A e : Logged(r)' = {e} => e \in trail'
  BY DEF Logged
<1> QED
  BY <1>1, <1>2, <1>3 DEF OneLogged

(* The entries of the other requests stay as they are.                     *)
LEMMA OthersKept ==
    ASSUME OnRecord, NEW r \in Requests, UNCHANGED config,
           \A q \in Requests \ {r} : req'[q] = req[q],
           trail \subseteq trail', \A e \in trail' : e \notin trail => e.req = r
    PROVE  /\ \A q \in Requests \ {r} : Entry(q)'
           /\ \A e \in trail' : e.req # r => Truthful(e)'
<1>1. ASSUME NEW q \in Requests \ {r} PROVE Entry(q)'
  <2>1. Logged(q)' = Logged(q) /\ req'[q] = req[q]
    BY <1>1 DEF Logged
  <2>2. \A e \in trail' : e.req = q => e \in trail
    BY <1>1
  <2>3. /\ Opened(q)' = Opened(q) /\ Refused(q)' = Refused(q) /\ Allowed(q)' = Allowed(q)
        /\ Kind(q)' = Kind(q) /\ Command(q)' = Command(q) /\ Sinks' = Sinks
        /\ Vouched(req[q].ip, req[q].ask)' = Vouched(req[q].ip, req[q].ask)
    BY <2>1 DEF Opened, Refused, Allowed, Kind, Command, Sinks, Vouched, RouteIsWrite
  <2>4. Entry(q)
    BY DEF OnRecord
  <2>5. req[q].stage \in Waiting \/ (req[q].stage = "reject" /\ req[q].todo = Sinks) =>
            ((\A e \in trail : e.req # q) => \A e \in trail' : e.req # q)
    BY <2>2
  <2>6. OneLogged(q)' <=> OneLogged(q)
    BY <2>1, LoggedKept
  <2> QED
    BY <2>1, <2>2, <2>3, <2>4, <2>5, <2>6 DEF Entry
<1>2. ASSUME NEW e \in trail', e.req # r PROVE Truthful(e)'
  <2>1. e \in trail /\ Truthful(e)
    BY <1>2 DEF OnRecord
  <2>2. e.req \in Requests /\ req'[e.req] = req[e.req]
    BY <1>2, <2>1 DEF Truthful
  <2>3. Refused(e.req)' = Refused(e.req)
    BY <2>2 DEF Refused, Vouched, RouteIsWrite
  <2> QED
    BY <2>1, <2>2, <2>3 DEF Truthful
<1> QED
  BY <1>1, <1>2

(* A step of one request that the gateway goes on with keeps the rest.     *)
LEMMA OneRecorded ==
    ASSUME OnRecord, Inv', NEW r \in Requests, UNCHANGED procVars,
           phase \in {"serving", "draining"},
           \A q \in Requests \ {r} : req'[q] = req[q],
           trail \subseteq trail', \A e \in trail' : e \notin trail => e.req = r,
           Entry(r)', \A e \in trail' : e.req = r => Truthful(e)'
    PROVE  OnRecord'
<1>0. UNCHANGED <<phase, config>>
  BY DEF procVars
<1>1. Keyed'
  BY <1>0 DEF OnRecord, Keyed, Up
<1>2. \A q \in Requests \ {r} : Entry(q)'
  BY <1>0, OthersKept
<1>3. \A e \in trail' : e.req # r => Truthful(e)'
  BY <1>0, OthersKept
<1> QED
  BY <1>1, <1>2, <1>3 DEF OnRecord

(* A request that waits has no events.                                     *)
LEMMA NoneLogged ==
    ASSUME NEW r \in Requests, \A e \in trail : e.req # r
    PROVE  Logged(r) = {}
BY DEF Logged

(* An operation's answer is not a refusal.                                 *)
LEMMA AnswerRecorded ==
    ASSUME OnRecord, Inv', NEW r \in Requests, UNCHANGED procVars, phase \in {"serving", "draining"},
           NEW status, Answer(r, status), status \notin {401, 403},
           req[r].stage \in {"mux", "work", "scan"}
    PROVE  OnRecord'
<1>1. /\ DOMAIN req = Requests /\ HasFields(req[r]) /\ Entry(r) /\ UNCHANGED <<config, trail>>
  BY DEF OnRecord, Inv, Shape, Records, HasFields, Answer, procVars
<1>2. /\ req'[r].stage = "answered" /\ req'[r].status = status
      /\ UNCHANGED <<req[r].ask, req[r].ran, req[r].key>>
      /\ \A q \in Requests \ {r} : req'[q] = req[q]
  BY <1>1 DEF Answer, HasFields
<1>3. \A e \in trail' : e.req # r
  BY <1>1 DEF Entry, Waiting
<1>4. Allowed(r)' = Allowed(r) /\ Kind(r)' = Kind(r) /\ Command(r)' = Command(r)
  BY <1>1, <1>2 DEF Allowed, Kind, Command
<1>5. Entry(r)'
  BY <1>1, <1>2, <1>4 DEF Entry, Waiting
<1> QED
  BY <1>1, <1>2, <1>3, <1>5, OneRecorded

(* A request that is let in to its operation may run it.                   *)
LEMMA GoesRecorded ==
    ASSUME OnRecord, Inv', NEW r \in Requests, UNCHANGED procVars, phase \in {"serving", "draining"},
           Goes(r, "work"), req[r].stage = "mux",
           Kind(r) = "write" => req[r].key.tier = "operator" /\ ~ config.policy.readOnly
    PROVE  OnRecord'
<1>1. /\ DOMAIN req = Requests /\ HasFields(req[r]) /\ Entry(r) /\ UNCHANGED <<config, trail>>
  BY DEF OnRecord, Inv, Shape, Records, HasFields, Goes, procVars
<1>2. /\ req'[r].stage = "work" /\ req'[r].ran
      /\ UNCHANGED <<req[r].ask, req[r].key, req[r].status, req[r].ip>>
      /\ \A q \in Requests \ {r} : req'[q] = req[q]
  BY <1>1 DEF Goes, HasFields
<1>3. \A e \in trail' : e.req # r
  BY <1>1 DEF Entry, Waiting
<1>4. /\ Kind(r)' = Kind(r) /\ Command(r)' = Command(r) /\ Opened(r) /\ Opened(r)'
      /\ Vouched(req[r].ip, req[r].ask)'
  <2>1. Kind(r)' = Kind(r) /\ Command(r)' = Command(r)
    BY <1>2 DEF Kind, Command
  <2>2. Opened(r) /\ Vouched(req[r].ip, req[r].ask)
    BY <1>1 DEF Entry
  <2>3. Opened(r)'
    BY <1>1, <1>2, <2>2 DEF Opened
  <2>4. Vouched(req[r].ip, req[r].ask)'
    BY <1>1, <1>2, <2>2 DEF Vouched
  <2> QED
    BY <2>1, <2>2, <2>3, <2>4
<1>5. Allowed(r)'
  BY <1>1, <1>2, <1>4 DEF Allowed, Opened
<1>6. Entry(r)'
  BY <1>1, <1>2, <1>3, <1>4, <1>5 DEF Entry, Waiting
<1> QED
  BY <1>1, <1>2, <1>3, <1>6, OneRecorded

(* A refusal of the gates is to be recorded.                               *)
LEMMA RefusalRecorded ==
    ASSUME OnRecord, Inv', NEW r \in Requests, UNCHANGED procVars, phase \in {"serving", "draining"},
           req[r].stage = "mux", UNCHANGED trail,
           req' = [req EXCEPT ![r].stage = "reject", ![r].status = 403, ![r].todo = Sinks]
    PROVE  OnRecord'
<1>1. /\ DOMAIN req = Requests /\ HasFields(req[r]) /\ Entry(r) /\ UNCHANGED config
  BY DEF OnRecord, Inv, Shape, Records, HasFields, procVars
<1>2. /\ req'[r].stage = "reject" /\ req'[r].status = 403 /\ req'[r].todo = Sinks
      /\ UNCHANGED <<req[r].ask, req[r].key, req[r].ip, req[r].ran>>
      /\ \A q \in Requests \ {r} : req'[q] = req[q]
  BY <1>1 DEF HasFields
<1>3. \A e \in trail' : e.req # r
  BY <1>1 DEF Entry, Waiting
<1>4. /\ Kind(r)' = Kind(r) /\ Command(r)' = Command(r) /\ Allowed(r)' = Allowed(r) /\ Sinks' = Sinks
      /\ Vouched(req[r].ip, req[r].ask)' /\ Opened(r)
  <2>1. Kind(r)' = Kind(r) /\ Command(r)' = Command(r) /\ Sinks' = Sinks
    BY <1>1, <1>2 DEF Kind, Command, Sinks
  <2>2. Opened(r) /\ Vouched(req[r].ip, req[r].ask)
    BY <1>1 DEF Entry
  <2>3. Vouched(req[r].ip, req[r].ask)'
    <3>1. req'[r].ip = req[r].ip /\ req'[r].ask = req[r].ask /\ config' = config
      BY <1>1, <1>2
    <3> QED
      BY <2>2, <3>1 DEF Vouched
  <2>4. Allowed(r)' = Allowed(r)
    BY <1>1, <1>2, <2>1 DEF Allowed
  <2> QED
    BY <2>1, <2>2, <2>3, <2>4
<1>5. req[r].key.id = "" <=> ~ config.auth
  <2>1. \A i \in DOMAIN config.keys : config.keys[i].id # ""
    BY DEF OnRecord, Keyed
  <2> QED
    BY <1>4, <2>1 DEF Opened
<1>6. Refused(r)'
  <2>1. req'[r].status = 403 /\ req'[r].key = req[r].key /\ config' = config
    BY <1>1, <1>2
  <2>2. req'[r].key.id = "" <=> ~ config'.auth
    BY <1>5, <2>1
  <2> QED
    BY <1>4, <2>1, <2>2 DEF Refused
<1>7. Entry(r)'
  BY <1>1, <1>2, <1>3, <1>4, <1>6 DEF Entry, Waiting
<1> QED
  BY <1>1, <1>2, <1>3, <1>7, OneRecorded

(* The request that arrives.                                               *)
LEMMA ArriveRecorded ==
    ASSUME OnRecord, Inv', NEW r \in Requests, Arrive(r)
    PROVE  OnRecord'
<1>1. /\ DOMAIN req = Requests /\ HasFields(req[r]) /\ Entry(r)
      /\ req[r].stage = "absent" /\ phase \in {"serving", "draining"} /\ UNCHANGED <<procVars, config, trail>>
  BY DEF OnRecord, Inv, Shape, Records, HasFields, Arrive, At, procVars
<1>2. PICK a \in Asks : req' = [req EXCEPT ![r].stage = "chain", ![r].ask = a]
  BY DEF Arrive
<1>3. /\ req'[r].stage = "chain" /\ req'[r].ask = a
      /\ UNCHANGED <<req[r].key, req[r].status, req[r].ran>>
      /\ \A q \in Requests \ {r} : req'[q] = req[q]
  BY <1>1, <1>2 DEF HasFields
<1>4. Listed(a) /\ (Routes[a.route].kind = "write" => Routes[a.route].command \in WriteIds)
  BY GatewayAssumption DEF Listed
<1>5. \A e \in trail' : e.req # r
  BY <1>1 DEF Entry, Waiting
<1>6. Allowed(r)'
  BY <1>1, <1>3 DEF Allowed, Entry
<1>7. Entry(r)'
  BY <1>1, <1>3, <1>4, <1>5, <1>6 DEF Entry, Waiting, Kind, Command
<1> QED
  BY <1>1, <1>3, <1>5, <1>7, OneRecorded

(* What the chain decides about a request.                                 *)
LEMMA ChainDecides ==
    ASSUME Inv, NEW r \in Requests, Chain(r)
    PROVE  LET told == req'[r]
               a == req[r].ask
           IN  /\ \A q \in Requests \ {r} : req'[q] = req[q]
               /\ told.ask = a /\ told.ran = req[r].ran
               /\ told.ip = ClientIP(a.peer, a.forwarded, config.proxies)
               /\ \/ told.stage = "answered" /\ told.status = 204
                  \/ /\ Authenticated(a, config) /\ told.stage = "mux" /\ told.key = KeyOf(a, config)
                     /\ told.status = req[r].status
                  \/ /\ told.stage = "reject" /\ told.status = 401 /\ told.todo = Sinks
                     /\ RouteIsWrite(a) /\ told.key = req[r].key
                  \/ told.stage = "answered" /\ told.status = 401 /\ ~ RouteIsWrite(a)
<1> DEFINE a == req[r].ask
           passes == Authenticated(a, config)
           id == RequestId(a.id)
           ip == ClientIP(a.peer, a.forwarded, config.proxies)
           cors == (Preflight(a) \/ passes) /\ AllowsOrigin(a, config)
           known == [req[r] EXCEPT !.id = id, !.ip = ip, !.cors = cors]
           next ==
               IF Preflight(a) THEN [known EXCEPT !.stage = "answered", !.status = 204]
               ELSE IF passes THEN [known EXCEPT !.stage = "mux", !.key = KeyOf(a, config)]
               ELSE IF RouteIsWrite(a) THEN [known EXCEPT !.stage = "reject", !.status = 401, !.todo = Sinks]
               ELSE [known EXCEPT !.stage = "answered", !.status = 401]
<1>1. DOMAIN req = Requests /\ HasFields(req[r])
  BY DEF Inv, Shape, Records, HasFields
<1>2. req' = [req EXCEPT ![r] = next]
  BY DEF Chain
<1>3. req'[r] = next /\ \A q \in Requests \ {r} : req'[q] = req[q]
  BY <1>1, <1>2
<1>4. known = [req[r] EXCEPT !.id = id, !.ip = ip, !.cors = cors]
  OBVIOUS
<1>5. /\ HasFields(known) /\ known.ip = ip /\ known.ask = a /\ known.ran = req[r].ran
      /\ known.key = req[r].key /\ known.status = req[r].status
  <2> HIDE DEF id, ip, cors, known
  <2> QED
    BY <1>1, <1>4 DEF HasFields
<1> HIDE DEF passes, id, ip, cors, known
<1>6. CASE Preflight(a)
  <2>1. req'[r] = [known EXCEPT !.stage = "answered", !.status = 204]
    BY <1>3, <1>6
  <2>2. /\ req'[r].stage = "answered" /\ req'[r].status = 204
        /\ req'[r].ask = a /\ req'[r].ran = req[r].ran /\ req'[r].ip = ip
    BY <1>5, <2>1 DEF HasFields
  <2> QED
    BY <1>3, <2>2 DEF ip
<1>7. CASE ~ Preflight(a) /\ passes
  <2>1. req'[r] = [known EXCEPT !.stage = "mux", !.key = KeyOf(a, config)]
    BY <1>3, <1>7
  <2>2. /\ req'[r].stage = "mux" /\ req'[r].key = KeyOf(a, config) /\ req'[r].status = req[r].status
        /\ req'[r].ask = a /\ req'[r].ran = req[r].ran /\ req'[r].ip = ip
    BY <1>5, <2>1 DEF HasFields
  <2> QED
    BY <1>3, <1>7, <2>2 DEF ip, passes
<1>8. CASE ~ Preflight(a) /\ ~ passes /\ RouteIsWrite(a)
  <2>1. req'[r] = [known EXCEPT !.stage = "reject", !.status = 401, !.todo = Sinks]
    BY <1>3, <1>8
  <2>2. /\ req'[r].stage = "reject" /\ req'[r].status = 401 /\ req'[r].todo = Sinks
        /\ req'[r].ask = a /\ req'[r].ran = req[r].ran /\ req'[r].ip = ip /\ req'[r].key = req[r].key
    BY <1>5, <2>1 DEF HasFields
  <2> QED
    BY <1>3, <1>8, <2>2 DEF ip
<1>9. CASE ~ Preflight(a) /\ ~ passes /\ ~ RouteIsWrite(a)
  <2>1. req'[r] = [known EXCEPT !.stage = "answered", !.status = 401]
    BY <1>3, <1>9
  <2>2. /\ req'[r].stage = "answered" /\ req'[r].status = 401
        /\ req'[r].ask = a /\ req'[r].ran = req[r].ran /\ req'[r].ip = ip
    BY <1>5, <2>1 DEF HasFields
  <2> QED
    BY <1>3, <1>9, <2>2 DEF ip
<1> QED
  BY <1>6, <1>7, <1>8, <1>9

(* The chain.                                                              *)
LEMMA ChainRecorded ==
    ASSUME OnRecord, Inv', NEW r \in Requests, Chain(r), phase \in {"serving", "draining"}
    PROVE  OnRecord'
<1> DEFINE a == req[r].ask
<1>1. /\ Inv /\ Entry(r) /\ req[r].stage = "chain" /\ UNCHANGED <<procVars, config, trail>>
  BY DEF OnRecord, Chain, At, procVars
<1>2. /\ \A q \in Requests \ {r} : req'[q] = req[q]
      /\ req'[r].ask = a /\ req'[r].ran = req[r].ran
      /\ req'[r].ip = ClientIP(a.peer, a.forwarded, config.proxies)
  BY <1>1, ChainDecides
<1>3. /\ req[r].key = NoKey /\ ~ req[r].ran /\ Listed(a)
      /\ req[r].status = 0 /\ \A e \in trail' : e.req # r
  BY <1>1 DEF Entry, Waiting
<1>4. /\ Kind(r)' = Kind(r) /\ Command(r)' = Command(r) /\ Allowed(r)' /\ Sinks' = Sinks
      /\ RouteIsWrite(req[r].ask)' = RouteIsWrite(a)
  BY <1>1, <1>2, <1>3 DEF Kind, Command, Allowed, Sinks, RouteIsWrite
<1>5. Vouched(req[r].ip, req[r].ask)'
  <2>1. Vouched(req'[r].ip, a)
    BY <1>2, <1>3, ClientVouched
  <2>2. req'[r].ask = a /\ config' = config
    BY <1>1, <1>2
  <2> QED
    BY <2>1, <2>2 DEF Vouched
<1>6. Logged(r)' = {}
  BY <1>3 DEF Logged
<1>7. CASE req'[r].stage = "answered" /\ (req'[r].status = 401 => ~ RouteIsWrite(a)) /\ req'[r].status # 403
  <2>1. Entry(r)'
    BY <1>1, <1>2, <1>3, <1>4, <1>6, <1>7 DEF Entry, Waiting
  <2> QED
    BY <1>1, <1>2, <1>3, <2>1, OneRecorded
<1>8. CASE /\ Authenticated(a, config) /\ req'[r].stage = "mux" /\ req'[r].key = KeyOf(a, config)
           /\ req'[r].status = req[r].status
  <2>1. IsList(config.keys) /\ config' = config
    BY <1>1 DEF OnRecord, Keyed
  <2>2. Opened(r)'
    <3>1. IF config.auth
          THEN \E i \in DOMAIN config.keys :
                  config.keys[i].sha256 = Sha(a.key) /\ req'[r].key = config.keys[i]
          ELSE req'[r].key = NoKey
      BY <1>8, <2>1, KeyIsOne
    <3>2. req'[r].ask = a /\ config' = config
      BY <1>2, <2>1
    <3>3. CASE config.auth
      BY <3>1, <3>2, <3>3 DEF Opened
    <3>4. CASE ~ config.auth
      <4>1. req'[r].key = NoKey /\ NoKey.id = ""
        BY <3>1, <3>4 DEF NoKey
      <4> QED
        BY <3>2, <3>4, <4>1 DEF Opened
    <3> QED
      BY <3>3, <3>4
  <2>3. Entry(r)'
    BY <1>1, <1>2, <1>3, <1>4, <1>5, <1>8, <2>2 DEF Entry, Waiting
  <2> QED
    BY <1>1, <1>2, <1>3, <2>3, OneRecorded
<1>9. CASE /\ req'[r].stage = "reject" /\ req'[r].status = 401 /\ req'[r].todo = Sinks
           /\ RouteIsWrite(a) /\ req'[r].key = req[r].key
  <2>1. Refused(r)'
    BY <1>3, <1>4, <1>5, <1>9 DEF Refused
  <2>2. Entry(r)'
    BY <1>1, <1>2, <1>3, <1>4, <1>9, <2>1 DEF Entry, Waiting
  <2> QED
    BY <1>1, <1>2, <1>3, <2>2, OneRecorded
<1> QED
  BY <1>1, <1>7, <1>8, <1>9, ChainDecides

(* The next sink takes the event of a refusal, or the audit topic does     *)
(* not.                                                                    *)
LEMMA SinkRecorded ==
    ASSUME OnRecord, Inv', NEW r \in Requests, RecordsRejection(r), phase \in {"serving", "draining"}
    PROVE  OnRecord'
<1> DEFINE sink == Head(req[r].todo)
           event == Event(r, sink)
<1>1. /\ DOMAIN req = Requests /\ HasFields(req[r]) /\ Entry(r) /\ req[r].stage = "reject"
      /\ UNCHANGED <<procVars, config>>
      /\ \A e \in trail : e.req = r => Truthful(e)
  BY DEF OnRecord, Inv, Shape, Records, HasFields, RecordsRejection, At, procVars
<1>2. /\ req' = [req EXCEPT ![r].todo = Tail(@), ![r].stage = IF Len(req[r].todo) = 1 THEN "answered" ELSE @]
      /\ trail' = trail \cup {event} \/ trail' = trail
      /\ sink = "stdout" => trail' = IF Keeps("stdout") THEN trail \cup {event} ELSE trail
  BY DEF RecordsRejection, Keeps
<1>3. /\ req'[r].todo = Tail(req[r].todo)
      /\ req'[r].stage = IF Len(req[r].todo) = 1 THEN "answered" ELSE "reject"
      /\ req'[r].status = req[r].status /\ req'[r].id = req[r].id /\ req'[r].ip = req[r].ip
      /\ req'[r].ask = req[r].ask /\ req'[r].key = req[r].key /\ req'[r].ran = req[r].ran
      /\ \A q \in Requests \ {r} : req'[q] = req[q]
  BY <1>1, <1>2 DEF HasFields
<1>4. Refused(r) /\ Allowed(r)
  BY <1>1 DEF Entry
<1>5. /\ Kind(r)' = Kind(r) /\ Command(r)' = Command(r) /\ Sinks' = Sinks
      /\ RouteIsWrite(req[r].ask)' = RouteIsWrite(req[r].ask)
  BY <1>1, <1>3 DEF Kind, Command, Sinks, RouteIsWrite
<1>6. Allowed(r)'
  BY <1>1, <1>3, <1>4, <1>5 DEF Allowed
<1>7. Refused(r)'
  BY <1>1, <1>3, <1>4, RefusedKept
<1>8. /\ event.req = r /\ event.sink = sink /\ event.id = req[r].id /\ event.ip = req[r].ip
      /\ event.key = req[r].key.id
      /\ event.severity = IF req[r].ask.breakGlass THEN "HIGH" ELSE "WARN"
  BY DEF Event, SeverityFor
<1>9. \A e \in trail' : e.req = r => Truthful(e)'
  <2>1. ASSUME NEW e \in trail', e.req = r PROVE Truthful(e)'
    <3>1. /\ e.id = req[r].id /\ e.ip = req[r].ip /\ e.key = req[r].key.id
          /\ e.severity = IF req[r].ask.breakGlass THEN "HIGH" ELSE "WARN"
      BY <1>1, <1>2, <1>8, <2>1 DEF Truthful
    <3> QED
      BY <1>3, <1>7, <2>1, <3>1 DEF Truthful
  <2> QED
    BY <2>1
<1>10. Refused(r) => (req[r].status \in {401, 403} /\ (RouteIsWrite(req[r].ask) \/ req[r].status = 403))
  BY DEF Refused
<1>11. CASE req[r].todo = Sinks /\ \A e \in trail : e.req # r
  <2>1. sink = "stdout"
    BY <1>11 DEF Sinks
  <2>2. trail' = IF Keeps("stdout") THEN trail \cup {event} ELSE trail
    BY <1>2, <2>1
  <2>3. OneLogged(r)'
    <3>1. Keeps("stdout")' <=> Keeps("stdout")
      BY <1>1 DEF Keeps
    <3>2. CASE Keeps("stdout")
      <4>1. Logged(r)' = {event} /\ event \in trail'
        BY <1>8, <1>11, <2>1, <2>2, <3>2 DEF Logged
      <4> QED
        BY <3>1, <3>2, <4>1 DEF OneLogged
    <3>3. CASE ~ Keeps("stdout")
      <4>1. Logged(r)' = {}
        BY <1>11, <2>2, <3>3 DEF Logged
      <4> QED
        BY <3>1, <3>3, <4>1 DEF OneLogged
    <3> QED
      BY <3>2, <3>3
  <2>4. CASE config.sink = "kafka"
    <3>1. req'[r].stage = "reject" /\ req'[r].todo = <<"kafka">>
      BY <1>3, <1>11, <2>4 DEF Sinks
    <3>2. Entry(r)'
      BY <1>1, <1>3, <1>5, <1>6, <1>7, <2>3, <3>1 DEF Entry, Waiting
    <3> QED
      BY <1>1, <1>2, <1>3, <1>8, <1>9, <3>2, OneRecorded
  <2>5. CASE config.sink # "kafka"
    <3>1. req'[r].stage = "answered"
      BY <1>3, <1>11, <2>5 DEF Sinks
    <3>2. OneLogged(r)'
      BY <2>3
    <3>3. req'[r].status = 403 \/ RouteIsWrite(req[r].ask)'
      BY <1>3, <1>4, <1>5, <1>10
    <3>4. Listed(req'[r].ask) /\ (Kind(r)' = "write" => Command(r)' \in WriteIds)
      BY <1>1, <1>3, <1>5 DEF Entry
    <3>5. Entry(r)'
      BY <1>6, <3>1, <3>2, <3>3, <3>4 DEF Entry, Waiting
    <3> QED
      BY <1>1, <1>2, <1>3, <1>8, <1>9, <3>5, OneRecorded
  <2> QED
    BY <2>4, <2>5
<1>12. CASE req[r].todo = <<"kafka">> /\ OneLogged(r)
  <2>1. sink = "kafka" /\ req'[r].stage = "answered"
    BY <1>3, <1>12
  <2>2. Logged(r)' = Logged(r)
    BY <1>2, <1>8, <2>1 DEF Logged
  <2>3. OneLogged(r)'
    BY <1>1, <1>12, <2>2, LoggedKept
  <2>4. Entry(r)'
    BY <1>1, <1>3, <1>4, <1>5, <1>6, <1>10, <1>12, <2>1, <2>2, <2>3 DEF Entry, Waiting
  <2> QED
    BY <1>1, <1>2, <1>3, <1>8, <1>9, <2>4, OneRecorded
<1> QED
  BY <1>1, <1>11, <1>12 DEF Entry

(* Every step of a request.                                                *)
LEMMA RequestRecorded ==
    ASSUME OnRecord, Inv', NEW r \in Requests, Request(r)
    PROVE  OnRecord'
<1>1. UNCHANGED procVars /\ Inv
  BY DEF OnRecord, Request, At, Arrive, Chain, RecordsRejection, Dispatch, WorkEnds, ScanBegins, ScanEnds
<1>2. CASE Arrive(r)
  BY <1>2, ArriveRecorded
<1>3. SUFFICES ASSUME ~ Arrive(r) PROVE OnRecord'
  BY <1>2
<1>4. phase \in {"serving", "draining"}
  BY <1>1, <1>3 DEF Request, At, Arrive, Chain, RecordsRejection, Dispatch, WorkEnds, ScanBegins, ScanEnds,
              Inv, Serving, InFlight
<1>5. Status("Validation") \notin {401, 403} /\ Status("BoundExceeded") \notin {401, 403}
  BY StatusOfRun DEF Refusals
<1>6. CASE Chain(r)
  BY <1>4, <1>6, ChainRecorded
<1>7. CASE RecordsRejection(r)
  BY <1>4, <1>7, SinkRecorded
<1>8. CASE Dispatch(r)
  <2>1. req[r].stage = "mux"
    BY <1>8 DEF Dispatch, At
  <2>2. ASSUME NEW status, status \notin {401, 403}, Answer(r, status) PROVE OnRecord'
    BY <1>1, <1>4, <2>1, <2>2, AnswerRecorded
  <2>3. CASE Gated(r)
    <3> DEFINE refusal == Check(CallerOf(r), Command(r), config.policy)
    <3>1. CASE refusal = "pass"
      <4>1. Kind(r) = "write" => Command(r) \in WriteIds
        BY <2>1 DEF OnRecord, Entry
      <4>2. Kind(r) = "write" => CallerOf(r).tier = "operator" /\ ~ config.policy.readOnly
        BY <3>1, <4>1, GateAllows
      <4>3. Goes(r, "work")
        BY <2>3, <3>1 DEF Gated
      <4> QED
        BY <1>1, <1>4, <2>1, <4>2, <4>3, GoesRecorded DEF CallerOf
    <3>2. CASE refusal # "pass"
      <4>1. Status(refusal) = 403
        BY <3>2, GateRefuses, StatusOfRefusal
      <4>2. /\ req' = [req EXCEPT ![r].stage = "reject", ![r].status = 403, ![r].todo = Sinks]
            /\ UNCHANGED trail
        BY <2>3, <3>2, <4>1 DEF Gated
      <4> QED
        BY <1>1, <1>4, <2>1, <4>2, RefusalRecorded
    <3> QED
      BY <3>1, <3>2
  <2>4. CASE Kind(r) = "read" /\ Goes(r, "work")
    BY <1>1, <1>4, <2>1, <2>4, GoesRecorded
  <2> QED
    BY <1>5, <1>8, <2>2, <2>3, <2>4 DEF Dispatch
<1>9. CASE WorkEnds(r)
  <2>1. PICK outcome \in Ends : Answer(r, Status(outcome))
    BY <1>9 DEF WorkEnds
  <2>2. Status(outcome) \notin {401, 403}
    BY GatewayAssumption, StatusOfRun
  <2> QED
    BY <1>1, <1>4, <1>9, <2>1, <2>2, AnswerRecorded DEF WorkEnds, At
<1>10. CASE ScanBegins(r)
  <2>1. CASE Answer(r, Status("BoundExceeded"))
    BY <1>1, <1>4, <1>5, <1>10, <2>1, AnswerRecorded DEF ScanBegins, At
  <2>2. CASE /\ req' = [req EXCEPT ![r].stage = "scan",
                                  ![r].left = IF req[r].ask.maxTime > 0 THEN req[r].ask.maxTime ELSE 0]
             /\ UNCHANGED trail
    <3>1. /\ DOMAIN req = Requests /\ HasFields(req[r]) /\ Entry(r) /\ UNCHANGED config
          /\ req[r].stage = "work"
      BY <1>1, <1>10 DEF OnRecord, Inv, Shape, Records, HasFields, procVars, ScanBegins, At
    <3>2. /\ req'[r].stage = "scan"
          /\ req'[r].status = req[r].status /\ req'[r].ip = req[r].ip
          /\ req'[r].ask = req[r].ask /\ req'[r].key = req[r].key /\ req'[r].ran = req[r].ran
          /\ \A q \in Requests \ {r} : req'[q] = req[q]
      BY <2>2, <3>1 DEF HasFields
    <3>3. \A e \in trail' : e.req # r
      BY <2>2, <3>1 DEF Entry, Waiting
    <3>4. Kind(r)' = Kind(r) /\ Command(r)' = Command(r)
      BY <3>2 DEF Kind, Command
    <3>5. Opened(r)' /\ Vouched(req[r].ip, req[r].ask)'
      <4>1. req'[r].ip = req[r].ip /\ req'[r].ask = req[r].ask /\ req'[r].key = req[r].key /\ config' = config
        BY <3>1, <3>2
      <4>2. Opened(r) /\ Vouched(req[r].ip, req[r].ask)
        BY <3>1 DEF Entry
      <4>3. Opened(r)'
        BY <4>1, <4>2 DEF Opened
      <4>4. Vouched(req[r].ip, req[r].ask)'
        BY <4>1, <4>2 DEF Vouched
      <4> QED
        BY <4>3, <4>4
    <3>6. Allowed(r)'
      BY <3>1, <3>2, <3>4 DEF Allowed, Entry
    <3>7. Entry(r)'
      BY <3>1, <3>2, <3>3, <3>4, <3>5, <3>6 DEF Entry, Waiting
    <3> QED
      BY <1>1, <1>4, <2>2, <3>2, <3>3, <3>7, OneRecorded
  <2> QED
    BY <1>10, <2>1, <2>2 DEF ScanBegins
<1>11. CASE ScanEnds(r)
  BY <1>1, <1>4, <1>11, AnswerRecorded DEF ScanEnds, At
<1> QED
  BY <1>3, <1>6, <1>7, <1>8, <1>9, <1>10, <1>11 DEF Request

(* A step of the process at most cuts requests short.                      *)
LEMMA CutRecorded ==
    ASSUME OnRecord, Inv', Keyed', UNCHANGED trail,
           config' = config \/ phase = "load",
           \A r \in Requests :
              /\ UNCHANGED <<req[r].ask, req[r].id, req[r].ip, req[r].key, req[r].status, req[r].todo, req[r].ran>>
              /\ req'[r].stage = req[r].stage \/ (InFlight(r) /\ req'[r].stage = "cut")
    PROVE  OnRecord'
<1>1. CASE config' = config
  <2>1. ASSUME NEW r \in Requests PROVE Entry(r)'
    <3>1. /\ Entry(r)
          /\ UNCHANGED <<req[r].ask, req[r].id, req[r].ip, req[r].key, req[r].status, req[r].todo, req[r].ran>>
      BY <2>1 DEF OnRecord
    <3>2. /\ Kind(r)' = Kind(r) /\ Command(r)' = Command(r) /\ Sinks' = Sinks /\ Logged(r)' = Logged(r)
          /\ RouteIsWrite(req[r].ask)' = RouteIsWrite(req[r].ask)
      BY <1>1, <3>1 DEF Kind, Command, Sinks, Logged, RouteIsWrite
    <3>3. Allowed(r)'
      BY <1>1, <3>1, <3>2 DEF Allowed, Entry
    <3>6. OneLogged(r)' <=> OneLogged(r)
      BY <1>1, <3>2, LoggedKept
    <3>4. CASE req'[r].stage = "cut" /\ InFlight(r)
      BY <3>1, <3>2, <3>3, <3>4 DEF Entry, InFlight, Waiting
    <3>5. CASE req'[r].stage = req[r].stage
      <4>1. Opened(r)' <=> Opened(r)
        BY <1>1, <3>1 DEF Opened
      <4>2. Vouched(req[r].ip, req[r].ask)' <=> Vouched(req[r].ip, req[r].ask)
        BY <1>1, <3>1 DEF Vouched
      <4>3. Refused(r)' <=> Refused(r)
        BY <1>1, <3>1, RefusedKept
      <4> QED
        BY <3>1, <3>2, <3>3, <3>5, <3>6, <4>1, <4>2, <4>3 DEF Entry
    <3> QED
      BY <3>4, <3>5
  <2>2. ASSUME NEW e \in trail PROVE Truthful(e)'
    <3>1. Truthful(e) /\ e.req \in Requests
      BY <2>2 DEF OnRecord, Truthful
    <3> DEFINE r == e.req
    <3>2. UNCHANGED <<req[r].ask, req[r].id, req[r].ip, req[r].key, req[r].status>>
      BY <3>1
    <3>3. Refused(r)' <=> Refused(r)
      BY <1>1, <3>2, RefusedKept
    <3> QED
      BY <3>1, <3>2, <3>3 DEF Truthful
  <2> QED
    BY <2>1, <2>2 DEF OnRecord
<1>2. CASE phase = "load"
  <2>1. ASSUME NEW r \in Requests PROVE Entry(r)' /\ \A e \in trail : e.req # r
    <3>1. Entry(r) /\ req[r].stage = "absent"
      BY <1>2, <2>1 DEF OnRecord, Keyed
    <3>2. req'[r].stage = "absent" /\ req'[r].key = req[r].key /\ req'[r].ran = req[r].ran /\ req'[r].status = req[r].status
      BY <2>1, <3>1 DEF InFlight
    <3> QED
      BY <3>1, <3>2 DEF Entry, Waiting, Allowed
  <2>2. trail = {}
    BY <2>1 DEF OnRecord, Truthful
  <2> QED
    BY <2>1, <2>2 DEF OnRecord
<1> QED
  BY <1>1, <1>2

(* What the end of the process leaves of the requests.                     *)
LEMMA CutOnly ==
    ASSUME Inv, NEW code, Exits(code), NEW r \in Requests
    PROVE  /\ UNCHANGED <<req[r].ask, req[r].id, req[r].ip, req[r].key, req[r].status, req[r].todo, req[r].ran>>
           /\ req'[r].stage = req[r].stage \/ (InFlight(r) /\ req'[r].stage = "cut")
<1>1. HasFields(req[r]) /\ req'[r] = IF InFlight(r) THEN [req[r] EXCEPT !.stage = "cut"] ELSE req[r]
  BY DEF Inv, Shape, Records, HasFields, Exits
<1> QED
  BY <1>1 DEF HasFields

(* Every step of the process and of time.                                  *)
LEMMA ProcessRecorded ==
    ASSUME OnRecord, Inv', Process \/ Fails \/ Signal \/ Tick
    PROVE  OnRecord'
<1>1. Inv /\ UNCHANGED trail
  BY DEF OnRecord, Process, Fails, Signal, Tick, Load, OpenTelemetry, OpenClient, OpenAudit, OpenServer, Listen,
         Boot, BeginsShutdown, Drained, DrainTimesOut, Flush, Close
<1>2. CASE Load
  <2>1. phase = "load" /\ config \in Configs /\ config' = Derived(config)
    BY <1>2 DEF Load, OnRecord, Keyed
  <2>2. config'.keys = config.keys
    <3>1. config = [auth |-> config.auth, keys |-> config.keys, proxies |-> config.proxies,
                    origins |-> config.origins, sink |-> config.sink, topic |-> config.topic,
                    maxTime |-> config.maxTime, writeTimeout |-> config.writeTimeout,
                    logLevel |-> config.logLevel, policy |-> config.policy]
      BY <2>1, GatewayAssumption
    <3>2. \E t : config' = [config EXCEPT !.writeTimeout = t]
      BY <2>1 DEF Derived
    <3> QED
      BY <3>1, <3>2
  <2>3. CASE Exits("1")
    <3>1. Keyed'
      BY <2>2, <2>3 DEF OnRecord, Keyed, Exits, Up, IsList
    <3> QED
      BY <1>1, <2>1, <2>3, <3>1, CutOnly, CutRecorded
  <2>4. CASE Valid(config') /\ phase' = "telemetry" /\ UNCHANGED <<exit, req>>
    <3>1. Keyed'
      BY <2>1, <2>2, <2>4 DEF OnRecord, Keyed, Up, Valid, IsList
    <3> QED
      BY <1>1, <2>1, <2>4, <3>1, CutRecorded
  <2> QED
    BY <1>2, <2>3, <2>4 DEF Load
<1>3. CASE \E code : Exits(code) /\ UNCHANGED config
  <2>1. Keyed'
    BY <1>3 DEF OnRecord, Keyed, Exits, Up, IsList
  <2> QED
    BY <1>1, <1>3, <2>1, CutOnly, CutRecorded
<1>4. CASE /\ UNCHANGED <<config, req>>
           /\ \/ phase' = phase
              \/ phase \in Up /\ phase' \in Up \cup {"serving"}
              \/ phase \in {"serving", "draining", "flushing"} /\ phase' \in {"draining", "flushing", "closing"}
  <2>1. Keyed'
    BY <1>4 DEF OnRecord, Keyed, Up
  <2> QED
    BY <1>1, <1>4, <2>1, CutRecorded
<1>5. CASE Tick
  <2>1. /\ UNCHANGED <<phase, config>> /\ phase \in {"serving", "draining"}
        /\ req' = [r \in Requests |-> IF Scans(r) THEN [req[r] EXCEPT !.left = @ - 1] ELSE req[r]]
    BY <1>5 DEF Tick
  <2>2. ASSUME NEW r \in Requests
        PROVE  UNCHANGED <<req[r].ask, req[r].id, req[r].ip, req[r].key, req[r].status, req[r].todo, req[r].ran,
                           req[r].stage>>
    <3>1. HasFields(req[r]) /\ req'[r] = IF Scans(r) THEN [req[r] EXCEPT !.left = @ - 1] ELSE req[r]
      BY <1>1, <2>1 DEF Inv, Shape, Records, HasFields
    <3> QED
      BY <3>1 DEF HasFields
  <2>3. Keyed'
    BY <2>1 DEF OnRecord, Keyed, Up
  <2> QED
    BY <1>1, <2>1, <2>2, <2>3, CutRecorded
<1>6. CASE Fails \/ DrainTimesOut
  BY <1>3, <1>6 DEF Fails, DrainTimesOut
<1>7. CASE Flush \/ Close
  BY <1>3, <1>4, <1>7 DEF Flush, Close
<1>8. CASE OpenTelemetry \/ OpenClient \/ OpenAudit \/ OpenServer \/ Listen
  BY <1>4, <1>8 DEF OpenTelemetry, OpenClient, OpenAudit, OpenServer, Listen, Boot, Up
<1>9. CASE BeginsShutdown \/ Drained \/ Signal
  BY <1>4, <1>9 DEF BeginsShutdown, Drained, Signal
<1> QED
  BY <1>2, <1>5, <1>6, <1>7, <1>8, <1>9 DEF Process

(* The refusals are on record in every state.                              *)
LEMMA OnRecordHolds == Spec => []OnRecord
<1>1. Init /\ Inv => OnRecord
  <2> SUFFICES ASSUME Init, Inv PROVE OnRecord
    OBVIOUS
  <2>1. Keyed
    BY GatewayAssumption DEF Init, Keyed, Absent, Up
  <2>2. ASSUME NEW r \in Requests PROVE Entry(r)
    <3>1. req[r] = Absent /\ trail = {}
      BY DEF Init
    <3>2. /\ req[r].stage = "absent" /\ req[r].key = NoKey /\ ~ req[r].ran /\ req[r].status = 0
      <4>1. Absent.stage = "absent" /\ Absent.key = NoKey /\ Absent.status = 0
        BY DEF Absent
      <4>2. Absent.ran = FALSE
        BY Zenon DEF Absent
      <4> QED
        BY <3>1, <4>1, <4>2, Zenon
    <3>3. Allowed(r)
      BY <3>2 DEF Allowed
    <3> QED
      BY <3>1, <3>2, <3>3 DEF Entry, Waiting
  <2> QED
    BY <2>1, <2>2 DEF OnRecord, Init
<1>2. OnRecord /\ Inv' /\ [Next]_vars => OnRecord'
  <2> SUFFICES ASSUME OnRecord, Inv', [Next]_vars PROVE OnRecord'
    OBVIOUS
  <2>1. CASE UNCHANGED vars
    <3>1. UNCHANGED <<phase, config, req, trail>>
      BY <2>1 DEF vars, procVars
    <3>2. Keyed'
      BY <3>1 DEF OnRecord, Keyed
    <3> QED
      BY <3>1, <3>2, CutRecorded
  <2>2. CASE \E r \in Requests : Request(r)
    BY <2>2, RequestRecorded
  <2> QED
    BY <2>1, <2>2, ProcessRecorded DEF Next
<1> QED
  BY <1>1, <1>2, InvHolds, PTL DEF Spec

(* Of every mutation refused for want of a key or of a right, and of       *)
(* nothing else, a log whose level lets it through has one event, and it   *)
(* is true; nothing ran without a key and the right to it.                 *)
THEOREM RefusalsRecorded == Spec => []RefusalsOnRecord
<1>1. OnRecord => RefusalsOnRecord
  <2> SUFFICES ASSUME OnRecord PROVE RefusalsOnRecord
    OBVIOUS
  <2>1. ASSUME NEW r \in Requests, req[r].stage = "answered", req[r].status \in {401, 403}
        PROVE  Cardinality({e \in trail : e.req = r /\ e.sink = "stdout"})
                   = IF Keeps("stdout") /\ (RouteIsWrite(req[r].ask) \/ req[r].status = 403) THEN 1 ELSE 0
    <3>1. IF Keeps("stdout") /\ (RouteIsWrite(req[r].ask) \/ req[r].status = 403)
          THEN \E e \in trail : Logged(r) = {e}
          ELSE Logged(r) = {}
      BY <2>1 DEF OnRecord, Entry, OneLogged
    <3>2. CASE Keeps("stdout") /\ (RouteIsWrite(req[r].ask) \/ req[r].status = 403)
      <4>1. PICK e \in trail : Logged(r) = {e}
        BY <3>1, <3>2
      <4>2. Cardinality(Logged(r)) = 1
        BY <4>1, FS_Singleton
      <4> QED
        BY <3>2, <4>2 DEF Logged
    <3>3. CASE ~ (Keeps("stdout") /\ (RouteIsWrite(req[r].ask) \/ req[r].status = 403))
      <4>1. Cardinality(Logged(r)) = 0
        BY <3>1, <3>3, FS_EmptySet
      <4> QED
        BY <3>3, <4>1 DEF Logged
    <3> QED
      BY <3>2, <3>3
  <2>2. \A r \in Requests : Allowed(r)
    BY DEF OnRecord, Entry
  <2>3. \A e \in trail :
            /\ req[e.req].status \in {401, 403}
            /\ e.id = req[e.req].id /\ Vouched(e.ip, req[e.req].ask)
            /\ (e.key = "") <=> (req[e.req].status = 401 \/ ~ config.auth)
            /\ e.severity = IF req[e.req].ask.breakGlass THEN "HIGH" ELSE "WARN"
    <3> SUFFICES ASSUME NEW e \in trail
                 PROVE  /\ req[e.req].status \in {401, 403}
                        /\ e.id = req[e.req].id /\ Vouched(e.ip, req[e.req].ask)
                        /\ (e.key = "") <=> (req[e.req].status = 401 \/ ~ config.auth)
                        /\ e.severity = IF req[e.req].ask.breakGlass THEN "HIGH" ELSE "WARN"
      OBVIOUS
    <3>1. Truthful(e) /\ NoKey.id = ""
      BY DEF OnRecord, NoKey
    <3>2. /\ e.id = req[e.req].id /\ e.ip = req[e.req].ip /\ e.key = req[e.req].key.id
          /\ e.severity = IF req[e.req].ask.breakGlass THEN "HIGH" ELSE "WARN"
          /\ Refused(e.req)
      BY <3>1 DEF Truthful
    <3>3. /\ Vouched(req[e.req].ip, req[e.req].ask)
          /\ \/ req[e.req].status = 401 /\ req[e.req].key = NoKey
             \/ req[e.req].status = 403 /\ (req[e.req].key.id = "" <=> ~ config.auth)
      BY <3>2 DEF Refused
    <3>4. (e.key = "") <=> (req[e.req].status = 401 \/ ~ config.auth)
      <4>1. req[e.req].status = 403 => req[e.req].status # 401
        OBVIOUS
      <4>2. req[e.req].key = NoKey => e.key = ""
        BY <3>1, <3>2
      <4>3. CASE req[e.req].status = 401 /\ req[e.req].key = NoKey
        BY <4>2, <4>3
      <4>4. CASE req[e.req].status = 403 /\ (req[e.req].key.id = "" <=> ~ config.auth)
        <5>1. e.key = req[e.req].key.id
          BY <3>2
        <5>2. (e.key = "") <=> ~ config.auth
          BY <4>4, <5>1, Zenon
        <5> QED
          BY <4>1, <4>4, <5>2, Zenon
      <4> QED
        BY <3>3, <4>3, <4>4, Zenon
    <3> QED
      BY <3>2, <3>3, <3>4
  <2> QED
    BY <2>1, <2>2, <2>3 DEF RefusalsOnRecord, Allowed
<1> QED
  BY <1>1, OnRecordHolds, PTL
=============================================================================
