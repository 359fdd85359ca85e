----------------------------- MODULE HttpChain -----------------------------
(***************************************************************************)
(* What the gateway decides about an HTTP request before an operation sees *)
(* it (internal/api, internal/api/middleware), from the configuration it   *)
(* was started with (internal/config), and the status it answers with.     *)
(* There is no state here.                                                 *)
(*                                                                         *)
(* A configuration: auth, keys (a sequence of [id, tier, sha256]), proxies *)
(* and origins (sets), sink ("stdout" or "kafka"), topic (whether the      *)
(* audit topic is named), maxTime (the ceiling of a scan's time),          *)
(* writeTimeout (0: not set), logLevel and policy.                         *)
(*                                                                         *)
(* A request: route, key (Nothing: no header), id, peer, forwarded (the    *)
(* X-Forwarded-For headers, each its entries: a proxy extends the one it   *)
(* finds or adds one of its own), origin ("": none), breakGlass, and       *)
(* maxTime, the time a scan asks for.                                      *)
(***************************************************************************)
EXTENDS Gates, Integers, Sequences, FiniteSets, Functions

CONSTANTS
    Routes,    \* by route: its method, its command ("": none), and whether it mutates or scans
    WellFormed, \* the request ids that are echoed
    Slack      \* writeTimeoutSlack

Nothing == <<"text", "">>

(* Hashing and encoding are injective, and neither is the identity. *)
Sha(bytes) == <<"sha256", bytes>>

Base64url(bytes) == <<"base64url", bytes>>

(* What keygen prints of the bytes it draws. *)
Minted(bytes) == [key |-> Base64url(bytes), sha256 |-> Sha(bytes)]

-----------------------------------------------------------------------------
(* Load and Validate: what is not set is derived, or the start is refused. *)
Derived(c) == [c EXCEPT !.writeTimeout = IF @ = 0 THEN c.maxTime + Slack ELSE @]

Valid(c) ==
    /\ c.writeTimeout >= c.maxTime + Slack
    /\ c.auth => "*" \notin c.origins /\ Len(c.keys) > 0
    /\ \A i, j \in DOMAIN c.keys : c.keys[i].id = c.keys[j].id => i = j
    /\ \A i \in DOMAIN c.keys : c.keys[i].id # "" /\ c.keys[i].tier \in {"reader", "operator"}
    /\ c.maxTime > 0
    /\ c.sink = "stdout" \/ (c.sink = "kafka" /\ c.topic)
    /\ c.logLevel \in {"debug", "info", "warn", "error"}

-----------------------------------------------------------------------------
RequestId(given) == IF given \in WellFormed THEN given ELSE "generated"

(* Header.Get: of several headers of a name, the first. *)
FirstHeader(forwarded) == IF Len(forwarded) = 0 THEN <<>> ELSE forwarded[1]

Mutant_LeftMost(peer, forwarded, proxies) ==
    LET entries == FirstHeader(forwarded)
        outside == {i \in DOMAIN entries : entries[i] # "" /\ entries[i] \notin proxies}
    IN  IF peer \notin proxies \/ outside = {} THEN peer
        ELSE entries[CHOOSE i \in outside : \A j \in outside : i <= j]

(* The right-most entry no trusted proxy answers for. *)
ClientIP(peer, forwarded, proxies) ==
    LET entries == FirstHeader(forwarded)
        outside == {i \in DOMAIN entries : entries[i] # "" /\ entries[i] \notin proxies}
    IN  IF peer \notin proxies \/ outside = {} THEN peer
        ELSE entries[CHOOSE i \in outside : \A j \in outside : j <= i]

(* The keys a presented one opens, by index; the first one counts. *)
MatchKey(presented, keys) ==
    IF presented = Nothing THEN {} ELSE {i \in DOMAIN keys : keys[i].sha256 = Sha(presented)}

NoKey == [id |-> "", tier |-> "operator"]

KeyOf(ask, c) ==
    IF ~ c.auth THEN NoKey
    ELSE LET match == MatchKey(ask.key, c.keys)
         IN  c.keys[CHOOSE i \in match : \A j \in match : i <= j]

Authenticated(ask, c) == ~ c.auth \/ MatchKey(ask.key, c.keys) # {}

(* Whether the browser is told that its origin may call. *)
AllowsOrigin(ask, c) ==
    ask.origin # "" /\ (ask.origin \in c.origins \/ (~ c.auth /\ "*" \in c.origins))

Preflight(ask) == Routes[ask.route].method = "OPTIONS"

(* The command of the route, for the audit of a 401. *)
RouteIsWrite(ask) == Routes[ask.route].command \in WriteIds

-----------------------------------------------------------------------------
(* internal/api/errors: kafka.Kind, core.Code, and everything else.        *)
KindTable ==
    [NotFound |-> 404, AlreadyExists |-> 409, GroupActive |-> 409, ReassignmentInProgress |-> 409,
     Timeout |-> 504, Unavailable |-> 503, Unsupported |-> 502, Broker |-> 502]

CodeTable ==
    [TierForbidden |-> 403, ReadOnlyMode |-> 403, OperationDisabled |-> 403, DataPlaneLocked |-> 403,
     ConfirmationMismatch |-> 400, BoundExceeded |-> 400, Validation |-> 400, InvalidRegex |-> 400,
     InvalidJSONPath |-> 400, BulkValidationFailed |-> 400, AuditUnavailable |-> 503,
     PayloadTooLarge |-> 413, PartitionMismatch |-> 400, ReplayFailed |-> 502]

Status(outcome) ==
    IF outcome = "ok" THEN 200
    ELSE IF outcome \in DOMAIN KindTable THEN KindTable[outcome]
    ELSE IF outcome \in DOMAIN CodeTable THEN CodeTable[outcome]
    ELSE 500
=============================================================================
