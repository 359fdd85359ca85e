------------------------------ MODULE Gateway ------------------------------
(***************************************************************************)
(* The gateway process, from its configuration to its exit (cmd/gateway,   *)
(* internal/app), and the requests that pass through its chain meanwhile   *)
(* (internal/api).  What a command does is in the other modules: here an   *)
(* operation runs, for as long as it likes unless it is a scan, and ends.  *)
(***************************************************************************)
EXTENDS HttpChain

CONSTANTS
    Requests,   \* the requests there may be
    Asks,       \* what they may be
    Configs,    \* what the process may be configured with
    Ends,       \* how operations may end
    Drawn       \* the bytes keygen may have drawn

(* A finite sequence, of whatever elements.                                *)
IsList(s) == Len(s) \in Nat /\ DOMAIN s = 1..Len(s)

(* Durations are numbers, the keys, the X-Forwarded-For headers and their  *)
(* entries come in an order, the mutating routes are those of mutating commands, and    *)
(* only the gates refuse as they do.                                       *)
ASSUME GatewayAssumption ==
    /\ Slack \in Nat \ {0}
    /\ Ends \subseteq STRING /\ Ends \cap Refusals = {}
    /\ \A a \in Asks :
          /\ a.maxTime \in Int /\ IsList(a.forwarded)
          /\ \A i \in DOMAIN a.forwarded : IsList(a.forwarded[i])
          /\ Routes[a.route].kind = "write" => Routes[a.route].command \in WriteIds
    /\ \A c \in Configs :
          /\ c = [auth |-> c.auth, keys |-> c.keys, proxies |-> c.proxies, origins |-> c.origins, sink |-> c.sink,
                  topic |-> c.topic, maxTime |-> c.maxTime, writeTimeout |-> c.writeTimeout, logLevel |-> c.logLevel,
                  policy |-> c.policy]
          /\ c.maxTime \in Int /\ c.writeTimeout \in Int /\ IsList(c.keys)

VARIABLES
    phase,      \* the step the process takes next
    config,     \* its configuration
    open,       \* what it has opened
    healthy,    \* the audit health it reports
    signalled,  \* SIGTERM has come
    grace,      \* the time left to shut down
    exit,       \* how it ended
    req,        \* the requests
    trail,      \* history: the REJECTED events of the chain and the gates, by sink
    scanning    \* history: the scans under way when the shutdown began

procVars == <<phase, config, open, healthy, signalled, grace, exit>>
vars == <<procVars, req, trail, scanning>>

Absent ==
    [stage |-> "absent", ask |-> <<>>, id |-> "", ip |-> "", key |-> NoKey, status |-> 0,
     cors |-> FALSE, left |-> 0, todo |-> <<>>, ran |-> FALSE]

Init ==
    /\ phase = "load" /\ config \in Configs
    /\ open = {} /\ healthy = TRUE /\ signalled = FALSE /\ grace = 0 /\ exit = "running"
    /\ req = [r \in Requests |-> Absent]
    /\ trail = {} /\ scanning = {}

-----------------------------------------------------------------------------
InFlight(r) == req[r].stage \notin {"absent", "answered", "cut"}

Quiet == \A r \in Requests : ~ InFlight(r)

(* The process ends: whatever it was doing for a request is cut short. *)
Exits(code) ==
    /\ exit' = code
    /\ phase' = "exited"
    /\ req' = [r \in Requests |-> IF InFlight(r) THEN [req[r] EXCEPT !.stage = "cut"] ELSE req[r]]

Load ==
    /\ phase = "load"
    /\ config' = Derived(config)
    /\ IF Valid(config') THEN phase' = "telemetry" /\ UNCHANGED <<exit, req>> ELSE Exits("1")
    /\ UNCHANGED <<open, healthy, signalled, grace, trail, scanning>>

Boot(step, next, opened) ==
    /\ phase = step /\ phase' = next
    /\ open' = open \cup opened
    /\ UNCHANGED <<config, signalled, grace, exit, req, trail, scanning>>

OpenTelemetry == Boot("telemetry", "client", {"telemetry"}) /\ UNCHANGED healthy

OpenClient == Boot("client", "audit", {"data"}) /\ UNCHANGED healthy

(* An audit topic that fails its check is reported, and nothing else. *)
OpenAudit ==
    IF config.sink = "kafka" THEN Boot("audit", "server", {"audit"}) /\ healthy' \in BOOLEAN
    ELSE Boot("audit", "server", {}) /\ UNCHANGED healthy

OpenServer == Boot("server", "listen", {}) /\ UNCHANGED healthy

Listen == Boot("listen", "serving", {"listener"}) /\ UNCHANGED healthy

(* A step that fails ends Run at once, as does Serve. *)
Fails ==
    /\ \/ phase \in {"telemetry", "client", "server", "listen", "serving"}
       \/ phase = "audit" /\ config.sink = "kafka"
    /\ Exits("1")
    /\ UNCHANGED <<config, open, healthy, signalled, grace, trail, scanning>>

Signal ==
    /\ phase # "exited" /\ ~ signalled
    /\ signalled' = TRUE
    /\ UNCHANGED <<phase, config, open, healthy, grace, exit, req, trail, scanning>>

-----------------------------------------------------------------------------
(* runServer, once its context is cancelled. *)
BeginsShutdown ==
    /\ phase = "serving" /\ signalled
    /\ phase' = "draining"
    /\ open' = open \ {"listener"}
    /\ grace' = config.writeTimeout
    /\ scanning' = {r \in Requests : req[r].stage = "scan"}
    /\ UNCHANGED <<config, healthy, signalled, exit, req, trail>>

Drained ==
    /\ phase = "draining" /\ Quiet
    /\ phase' = "flushing"
    /\ UNCHANGED <<config, open, healthy, signalled, grace, exit, req, trail, scanning>>

Mutant_GoesOn ==
    /\ phase = "draining" /\ grace = 0
    /\ phase' = "flushing"
    /\ UNCHANGED <<config, open, healthy, signalled, grace, exit, req, trail, scanning>>

Mutant_NoDeadline ==
    /\ phase = "draining" /\ grace = 0 /\ Quiet
    /\ Exits("1")
    /\ UNCHANGED <<config, open, healthy, signalled, grace, trail, scanning>>

DrainTimesOut ==
    /\ phase = "draining" /\ grace = 0
    /\ Exits("1")
    /\ UNCHANGED <<config, open, healthy, signalled, grace, trail, scanning>>

Flush ==
    /\ phase = "flushing"
    /\ open' = open \ {"telemetry"}
    /\ \/ phase' = "closing" /\ UNCHANGED <<exit, req>>
       \/ Exits("1")
    /\ UNCHANGED <<config, healthy, signalled, grace, trail, scanning>>

Close ==
    /\ phase = "closing"
    /\ open' = open \ IF "data" \in open THEN {"data"} ELSE {"audit"}
    /\ IF open' = {} THEN Exits("0") ELSE UNCHANGED <<phase, exit, req>>
    /\ UNCHANGED <<config, healthy, signalled, grace, trail, scanning>>

(* Time passes for scans, and for a shutdown; a scan whose time is up      *)
(* ends, and a shutdown whose time is up gives up, before more time does.  *)
Scans(r) == req[r].stage = "scan" /\ req[r].ask.maxTime > 0

Tick ==
    /\ phase \in {"serving", "draining"}
    /\ phase = "draining" \/ \E r \in Requests : Scans(r)
    /\ \A r \in Requests : Scans(r) => req[r].left > 0
    /\ phase = "draining" => grace > 0
    /\ grace' = IF phase = "draining" THEN grace - 1 ELSE grace
    /\ req' = [r \in Requests |-> IF Scans(r) THEN [req[r] EXCEPT !.left = @ - 1] ELSE req[r]]
    /\ UNCHANGED <<phase, config, open, healthy, signalled, exit, trail, scanning>>
-----------------------------------------------------------------------------
(* The requests.                                                           *)
Kind(r) == Routes[req[r].ask.route].kind

Command(r) == Routes[req[r].ask.route].command

Sinks == IF config.sink = "kafka" THEN <<"stdout", "kafka">> ELSE <<"stdout">>

At(r, stage) == req[r].stage = stage /\ UNCHANGED <<procVars, scanning>>

Answer(r, status) ==
    req' = [req EXCEPT ![r].stage = "answered", ![r].status = status] /\ UNCHANGED trail

Goes(r, stage) == req' = [req EXCEPT ![r].stage = stage, ![r].ran = TRUE] /\ UNCHANGED trail

(* A connection accepted before the shutdown may bring its request after.  *)
Arrive(r) ==
    /\ At(r, "absent")
    /\ phase \in {"serving", "draining"}
    /\ \E a \in Asks : req' = [req EXCEPT ![r].stage = "chain", ![r].ask = a]
    /\ UNCHANGED trail

(* RequestID, ClientIP, APIKey and CORS; what they do not answer goes on.  *)
Chain(r) ==
    LET a == req[r].ask
        passes == Authenticated(a, config)
        known ==
            [req[r] EXCEPT
                !.id = RequestId(a.id),
                !.ip = ClientIP(a.peer, a.forwarded, config.proxies),
                !.cors = (Preflight(a) \/ passes) /\ AllowsOrigin(a, config)]
        next ==
            IF Preflight(a) THEN [known EXCEPT !.stage = "answered", !.status = 204]
            ELSE IF passes THEN [known EXCEPT !.stage = "mux", !.key = KeyOf(a, config)]
            ELSE IF RouteIsWrite(a) THEN [known EXCEPT !.stage = "reject", !.status = 401, !.todo = Sinks]
            ELSE [known EXCEPT !.stage = "answered", !.status = 401]
    IN  /\ At(r, "chain")
        /\ req' = [req EXCEPT ![r] = next]
        /\ UNCHANGED trail

CallerOf(r) == [tier |-> req[r].key.tier, breakGlass |-> req[r].ask.breakGlass]

(* SlogSink writes an Info record, which the logger drops above its level. *)
Keeps(sink) == sink = "stdout" => config.logLevel \in {"debug", "info"}

(* Auditor.Result: the next sink takes the event, or the audit topic does  *)
(* not, and after the last one the refusal is answered.                    *)
Event(r, sink) ==
    [sink |-> sink, req |-> r, command |-> Command(r), id |-> req[r].id, ip |-> req[r].ip,
     key |-> req[r].key.id,
     severity |-> SeverityFor(Command(r), "REJECTED", req[r].ask.breakGlass)]

RecordsRejection(r) ==
    LET sink == Head(req[r].todo) IN
    /\ At(r, "reject")
    /\ \/ Keeps(sink) /\ trail' = trail \cup {Event(r, sink)}
       \/ (sink = "kafka" \/ ~ Keeps(sink)) /\ UNCHANGED trail
    /\ req' = [req EXCEPT ![r].todo = Tail(@),
                          ![r].stage = IF Len(req[r].todo) = 1 THEN "answered" ELSE @]

(* CheckAudited. *)
Gated(r) ==
    LET refusal == Check(CallerOf(r), Command(r), config.policy) IN
    IF refusal = "pass" THEN Goes(r, "work")
    ELSE /\ req' = [req EXCEPT ![r].stage = "reject", ![r].status = Status(refusal), ![r].todo = Sinks]
         /\ UNCHANGED trail

(* The probes, the commands, what has no command, and what has no route. *)
Dispatch(r) ==
    /\ At(r, "mux")
    /\ \/ Kind(r) \in {"live", "open"} /\ Answer(r, 200)
       \/ Kind(r) = "ready" /\ \E status \in {200, 503} : Answer(r, status)
       \/ Kind(r) = "none" /\ Answer(r, 404)
       \/ Kind(r) = "read" /\ Goes(r, "work")
       \/ Kind(r) \in {"write", "scan"} /\ (Gated(r) \/ Answer(r, Status("Validation")))

WorkEnds(r) ==
    /\ At(r, "work")
    /\ \E outcome \in Ends : Answer(r, Status(outcome))

ScanBegins(r) ==
    /\ At(r, "work") /\ Kind(r) = "scan"
    /\ IF req[r].ask.maxTime > config.maxTime THEN Answer(r, Status("BoundExceeded"))
       ELSE /\ req' = [req EXCEPT ![r].stage = "scan",
                                  ![r].left = IF req[r].ask.maxTime > 0 THEN req[r].ask.maxTime ELSE 0]
            /\ UNCHANGED trail

ScanEnds(r) == At(r, "scan") /\ Answer(r, 200)

Request(r) ==
    \/ Arrive(r) \/ Chain(r) \/ RecordsRejection(r) \/ Dispatch(r)
    \/ WorkEnds(r) \/ ScanBegins(r) \/ ScanEnds(r)

Process ==
    \/ Load \/ OpenTelemetry \/ OpenClient \/ OpenAudit \/ OpenServer \/ Listen
    \/ BeginsShutdown \/ Drained \/ DrainTimesOut \/ Flush \/ Close

Next == Process \/ Fails \/ Signal \/ Tick \/ \E r \in Requests : Request(r)

Spec == Init /\ [][Next]_vars

(* The process and time go on, and a scan ends in time (Scan!Returns); an  *)
(* operation need not end.                                                 *)
FairSpec ==
    /\ Spec
    /\ WF_vars(Process) /\ WF_vars(Tick)
    /\ \A r \in Requests : WF_vars(Scans(r) /\ ScanEnds(r))
-----------------------------------------------------------------------------
(* internal/app/shutdown.go promises that no handler sees a tracer or a    *)
(* Kafka client that was shut down.  So whatever is in flight has them     *)
(* open; the process only says that it shut down (0) when nothing was cut  *)
(* short and nothing is left open; and no scan under way when the shutdown *)
(* began is cut short, as the time to drain was derived from its bound.    *)
OrderlyShutdown ==
    /\ phase \in {"flushing", "closing"} => Quiet
    /\ \A r \in Requests :
          InFlight(r) => /\ {"telemetry", "data"} \subseteq open
                         /\ config.sink = "kafka" => "audit" \in open
    /\ exit = "0" => open = {} /\ \A r \in Requests : req[r].stage # "cut"
    /\ \A r \in scanning : req[r].stage = "cut" => req[r].ask.maxTime <= 0

(* After a SIGTERM the process ends, whatever its operations do (M2 polls  *)
(* without a deadline, a negative maxTimeMs scans without one).            *)
Stops == signalled ~> phase = "exited"

(* An address nobody but trusted proxies can have put where it was read:   *)
(* the peer's own, or an entry of the first X-Forwarded-For header with    *)
(* only trusted ones after it in that header.  Behind a proxy that adds a  *)
(* header of its own, the first one is the client's, and so is all of it.  *)
Vouched(ip, a) ==
    \/ ip = a.peer
    \/ /\ a.peer \in config.proxies
       /\ LET entries == FirstHeader(a.forwarded) IN
          \E i \in DOMAIN entries :
             /\ entries[i] = ip
             /\ \A j \in DOMAIN entries : j > i => entries[j] \in config.proxies \cup {""}

(* Of every mutation refused for want of a key or of a right, a log whose  *)
(* level lets it through has one event, with the id the caller was told,   *)
(* the key it had and an address that was vouched for; of nothing else is  *)
(* there one, and no operation ran without a key and the right to it       *)
(* (FUNC-SPEC 9.1).                                                        *)
RefusalsOnRecord ==
    /\ \A r \in Requests :
          LET told == req[r] IN
          /\ told.stage = "answered" /\ told.status \in {401, 403} =>
                Cardinality({e \in trail : e.req = r /\ e.sink = "stdout"})
                    = IF Keeps("stdout") /\ (RouteIsWrite(told.ask) \/ told.status = 403) THEN 1 ELSE 0
          /\ told.ran => /\ config.auth => \E i \in DOMAIN config.keys :
                               /\ config.keys[i].sha256 = Sha(told.ask.key)
                               /\ Kind(r) = "write" => config.keys[i].tier = "operator"
                         /\ Kind(r) = "write" => ~ config.policy.readOnly
    /\ \A e \in trail :
          /\ req[e.req].status \in {401, 403}
          /\ e.id = req[e.req].id /\ Vouched(e.ip, req[e.req].ask)
          /\ (e.key = "") <=> (req[e.req].status = 401 \/ ~ config.auth)
          /\ e.severity = IF req[e.req].ask.breakGlass THEN "HIGH" ELSE "WARN"

(* docs/operations.md:129 and configs/config.example.yaml:53: the key that *)
(* keygen prints opens the gateway whose auth.keys has the digest printed  *)
(* with it.                                                                *)
MintedKeyOpens ==
    \A r \in Requests, bytes \in Drawn :
        /\ req[r].status = 401
        /\ \E i \in DOMAIN config.keys : config.keys[i].sha256 = Minted(bytes).sha256
        => req[r].ask.key # Minted(bytes).key
=============================================================================
