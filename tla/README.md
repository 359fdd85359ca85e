# A verification project for the Kafka3O Gateway

The gateway is an HTTP service over a Kafka cluster: 41 commands, from listing
topics to deleting records, behind keys, switches, confirmations and an audit
trail. It keeps no state between requests (FUNC-SPEC 9.6). What is hard about it
is not its state but what happens *between its steps*: a destructive command is
planned, confirmed, announced, applied and reported in five calls to a cluster
others change; a scan reads a log that grows, is compacted and truncated
underneath; a caller pages, retries and loops on offsets it was given earlier.

## 1. Inventory

| Part | Code | State it keeps | Operations |
|---|---|---|---|
| Policy gates | `service/gates`, `service/core/policy.go`, `command/table.go` | none (switches fixed at start) | `Check`: write gate, operation gate, data-plane lock, break-glass |
| Destructive lifecycle | `service/core/destructive.go`, `run.go` | one request: how far it is, its plan, its ATTEMPT | `CheckAudited`, `Destructive`: gate, plan, dry run, confirm, ATTEMPT, apply, RESULT |
| Bulk lifecycle | `service/core/bulk.go` | one request: outcome per item | `BulkValidate`, `BulkExecute`, `BulkRun` |
| Audit trail | `audit` | the sinks (stdout, Kafka topic) | `Attempt` (fail-closed, all sinks), `Result` (best effort) |
| Scan engine | `scan` | cursor, batch, counters, buffer for `latest` | `Run`: assign, poll, evaluate, bounds, drain |
| Matchers | `scan`, `service/message/filter.go` | none | match by regex or JSONPath, encode in a format |
| Message reads M1-M4 | `service/message/{read,get,search,window,bounds}.go` | none | resolve windows from offset listings, scan, audit break-glass reads |
| Message writes M5-M8 | `service/message/{produce,producebulk,tombstone,replay}.go` | none; the caller of M8 keeps a cursor | produce one or many, tombstone; plan and apply of a replay |
| Topic commands T1-T12 | `service/topic` | none | list, describe, size, count; create, delete, configure, partition, truncate, purge |
| Group commands G1-G7 | `service/group` | none | list, describe, consumers of a topic, reset, delete, remove members, clone offsets |
| Cluster commands C1-C12 | `service/cluster` | none | describe, health, broker configs, reassignment, election, throughput, export and import |
| Security S1, S2 | `service/security` | none | users, quotas |
| HTTP chain | `api`, `api/middleware`, `api/errors` | none | request id, client address, key, CORS, route; 401 and its audit; statuses |
| Kafka port | `kafka/port.go`, `kafka/franz` | a shared client, a dedicated consumer per scan | admin, produce, assign and poll |
| Start and shutdown | `cmd/gateway`, `app` | audit health, fixed at start | load, verify the audit topic, serve, drain, flush, close; keygen |
| Configuration | `config` | none | defaults, derived values, validation |
| Telemetry | `telemetry` | none | - |

How they interact. A handler authenticates (`APIKey`), then calls one service
method. A destructive method hands `core.Destructive` a plan function and an
apply function; a bulk method hands `core.BulkRun` a validator and an executor;
a read calls `CheckAudited` itself. All three call `gates.Check`, and write
events through the `Auditor` to every sink in order. Reads and replay resolve a
window with the admin client and run `scan.Run` on a consumer of their own.
Requests share only the sinks, the Kafka client and the cluster.

What is hard:

* *crash and partial failure*: the process may die, a sink may fail and a Kafka
  call may be applied though it failed, between any two steps of a lifecycle;
* *stale plans*: what was planned and confirmed is applied later, to a cluster
  that may have changed (T8, T10, T12, C9, C12, G4), and the confirmation is
  often just a name;
* *a moving log*: records appear and disappear during a scan, offsets need not
  hold a record, and the end of a window may never be polled;
* *loops of the caller*: continuation and replay cursor must lose nothing over
  any number of calls, failures and lost replies;
* *bounds and endings*: each scan must stop, and say truthfully why.

What makes each part correct is in the properties below, run by run.

## 2. The modules

| Module | Models | Composition |
|---|---|---|
| `Gates` | `command/table.go`, `service/gates/check.go`, `audit.SeverityFor` as operators over commands, policies and callers | used by `Destructive` |
| `Destructive` | the lifecycle of any number of concurrent destructive requests over any number of sinks, at any log level | EXTENDS `Gates`; implements `AuditedChange` |
| `AuditedChange` | the promise of the lifecycle, without gates, plans or failures: a change is declared first and judged truthfully | abstract |
| `DestructiveProofs` | the proofs about `Destructive` | EXTENDS it |
| `Scan` | one `scan.Run` over a topic others write to, compact and truncate | - |
| `ScanProofs` | the proofs about `Scan` | EXTENDS it |
| `Replay` | M8: `ApplyReplay` over the scan, and the loop of calls of its caller | EXTENDS `Scan` |
| `ReplayProofs` | the proofs about `Replay` | EXTENDS it and `ScanProofs` |
| `Matching` | what a matcher says of a record, what a format makes of its fields | used by `Reads`, `Writes` |
| `Reads` | M1-M4, the plan of M8, and T4, from handler to reply | EXTENDS `Scan`, `Gates`, `Matching` |
| `Writes` | M5-M7, from body to acknowledgements; composed with `Reads` | EXTENDS `Reads` |
| `MessageProofs` | the proofs about `Reads` and `Writes` | EXTENDS `Writes` and `ScanProofs` |
| `Topics` | the topics of the cluster, and what other clients and retention do to them (external) | used by `TopicAdmin` |
| `TopicAdmin` | T5-T12: what each plan reads, what is confirmed, what applying it does to topics others change | EXTENDS `Topics` |
| `TopicAdminProofs` | the proofs about `TopicAdmin` | EXTENDS it |
| `Paging` | the page of a listing, in the arithmetic of an `int` | used by `TopicViews`, `GroupAdmin` |
| `GroupAdmin` | G1-G7 over a group whose members come, go and commit | EXTENDS `Paging` |
| `GroupAdminProofs` | the proofs about `GroupAdmin` | EXTENDS it |
| `AdminCommand` | what cluster and security requests have in common: confirm, ATTEMPT, errors | used by the next three |
| `ClusterAdmin` | C1, C2, C4-C12 over topics, replicas and broker configurations | EXTENDS `AdminCommand` |
| `TopicViews` | T1-T3 over the same cluster | EXTENDS `ClusterAdmin`, `Paging` |
| `SecurityAdmin` | S1 and S2 over users and quotas | EXTENDS `AdminCommand` |
| `Admin` | one request of the last three, and what others do meanwhile | EXTENDS `TopicViews`, `SecurityAdmin` |
| `AdminProofs` | the proofs about `Admin` | EXTENDS it |
| `HttpChain` | the layers of the HTTP chain and the configuration they have, as operators | EXTENDS `Gates` |
| `Gateway` | the process from start to exit, and requests passing through the chain meanwhile | EXTENDS `HttpChain` |
| `GatewayProofs` | the proofs about `Gateway` | EXTENDS it |
| `MC*` | values for the constants | - |

Operators called `Mutant_*` stand before the definition they vary. They are not
part of the model: each is a plausible slip in the code (a dropped guard, a
swapped order), kept so that every property can be seen to catch one.

### Destructive

A request `r` has a `call[r]` (command, caller, dry run, what it would resolve
to, what it confirms), a `stage[r]`, one per step of `Destructive`, a `plan`, a
`reply`, and a `result` while its RESULT is being written. `sink[r]` is the index
of the sink `Attempt` or `Result` writes next. `trail[s]` is the set of events
sink `s` holds and `applied` the set of requests whose change Kafka has made.
Each stage is one action, or one per way out: `GateRefuses`/`GatePasses`,
`PlanFails`/`PlanResolves`, `Preview`, `ConfirmRefused`/`ConfirmAccepted`,
`AttemptWritten`/`AttemptFails`, `ApplySucceeds`/`ApplyFails`, `ResultWritten`,
`Answer`. A write that reports an error may have reached the topic all the same;
an apply that reports one may have been made, at once or later (`LateEffect`).
`Crash` ends every request in flight.

Two things make the trail weaker than the documents say, and both are in the
model. `SlogSink` logs an event at the level info, through the logger whose level
is `telemetry.log_level`: under `warn` or `error` sink 1 keeps nothing and reports
success. (The otelslog bridge of the logger would take it only if a logger provider
were set, and none is.) `Keeping` is the set of sinks that keep what they are given,
and `Recorded` goes by it. And the commands of `ItemwiseIds` answer item by item:
their `apply` returns no error whatever became of the items, so `ApplySucceeds`
reports SUCCEEDED for them with or without a change.

### Scan

`live[p]` are the offsets of partition `p` that hold a record and `hw[p]` the next
one; `Append1`, `Mark` (an offset without a record: a transaction marker) and
`Remove` (retention, compaction, DeleteRecords) move them at any time. `pc` is
where `Run` is; `position` is the consumer's, `cursor`, `acc` and `items` are
`Run`'s. `Poll` delivers any stretch of each partition, `Evaluate` is `evaluate`
and `hitBound` for one record, `Drain` the sorting and truncation of `latest`.
A record is a pair of partition and offset: its match, time and size are
constant functions of the pair.

### Replay

After the scan, `Produce` acknowledges each record or not, and may have written
one it did not acknowledge; `Account` is the loop over the results. `Lost` is a
reply that never arrives. The caller keeps `todo[p]`, the offset each partition is
to be continued from, which every reply updates, and calls `Again` for one
partition, since `from=offset` is one offset for all. franz-go gives the results of
a batch as they come in. A record succeeds after the earlier ones of its target
partition are done, may fail at once, and nothing orders the records of different
target partitions: `Orders` is the set of the orders this leaves. `ApplyReplay` pairs them
with its items by index, so a success may stand for another record, and the caller
cannot know. After a failure it takes the progress of the error (then the partition
is in `heeded`) or repeats the call.

### TopicAdmin

`topics[n]` is the topic of a name, or `Gone`: an id, partitions with a begin and
an end offset, the value of one configuration key. A topic deleted and created
again has another id, which the gateway never sees. `Others` creates, deletes,
grows, fills and trims topics between any two steps. A request's `pc` is the next
port call of its handler: the plans of T7, T11 and T12 describe the topic, then
list its begin offsets, then its end offsets, and each listing may be of a later
log, or of another topic. `seen` is what those calls returned, `plan` what is made
of it. `Confirms` compares the topic name, or the token of T8, which hashes the
sorted names and so stands for their set. `Attempts` is the ATTEMPT, whose sinks
are in `Destructive`.

An apply is one action per command (`Deletes`, `Creates`, `Alters`, `Grows`,
`Truncates`), and `ApplyFails` when the port call reports an error, which it may do
although it took effect, wholly or on some partitions only. `CreatesItem` is one
item of T6, whose executor goes on after a failed one; T8 reports each of its
topics and is itself always a success. `effect` is history: which topic, by name
and id, a request changed, and how many records it removed. `seen.ids` and
`plan.existing` are history too; no guard reads them.

The gateway sends a truncation by name, so one planned for a topic may hit its
successor. `PurgeSparesNewRecords` and `RemovesAsPlanned` therefore speak of the
case that no other topic took the name (`SameTopic`); nothing in the code or the
documents promises more.

### Reads, Writes and Matching

A read's `at` is where it is: the handler's checks, the gate, the bounds, then one
listing of offsets per step in the code's order (`ListEnds`, `ListStarts`,
`ListFromTimes`, `ListToTimes`), which the topic outpaces; then `Scan`'s own
`Next`, and the audit event of a break-glass read before the reply. `BoundsOf` says
which bounds a command has, `Resolved` that zero means the default and that a
negative number passes. M2 polls once and waits as long as its caller. T4 lists the
offsets of both times before the ends, and has no gate. A write's body is what the
decoder makes of it (`Writes`): a list, an object, NDJSON; each item is decoded,
validated against a partition count read beforehand, announced and produced, and a
record is acknowledged or not, written or not. `Matching` has the fields, formats
and operators; what a pattern finds in a text or a path selects in a document is a
constant relation.

### GroupAdmin, ClusterAdmin, TopicViews, SecurityAdmin

One request and everybody else. `pc` is the next port call, `seen` what the calls
have returned, `plan` what a confirmation must repeat and the changes in order;
`past` (written by `Admin`, for all of them) is the history of what the cluster has held, against which views are
judged. A token stands for the set it hashes: `MoveTarget` and `PlanImport` have
exactly what the code puts in. Each change may take effect though its answer is an
error. What Kafka makes of a change is taken from the in-memory fake that the
repository tests its services with, and from the adapter's use of franz-go.

### HttpChain and Gateway

`Derived` and `Valid` are the configuration's; `RequestId`, `ClientIP`,
`MatchKey`, `Preflight`, `Status` the layers'. Of several
`X-Forwarded-For` headers only the first is read (`FirstHeader`). A refusal goes to the same
sinks as an event of `Destructive`, and `Keeps` says again whether stdout has it. `phase` is where the process is, `req[r].stage`
where a request is in the chain. `Tick` takes a unit from every scan with a time
bound and, while draining, from the `grace` the server gives its handlers. SIGTERM
comes at any phase, and a connection accepted before it may still bring a request. An
operation that is not a timed scan may run for ever.

Assumed of it: `mapKeys` and `parseCIDRs` cannot fail after `Validate`; the
`net/http` server's own cut-off of late answers (its write timeout) is not modelled;
a SIGTERM during the check of the audit topic makes its health false, as any
failure of that check does.

## 3. The runs

| Run | Shows |
|---|---|
| `destructive` | two requests, two sinks, a log level that keeps what stdout is given and one that drops it, every command class, refusals, previews, failing sinks, ambiguous applies, crashes: nothing changes without its ATTEMPT on every sink that keeps its events (`FailClosed`) and without gate and confirmation (`AuthorisedChange`); one verdict (`OneVerdict`), and a true one, up to the commands that answer item by item (`TruthfulTrail`); 503 means untouched (`UnavailableIsUntouched`). Unless the process dies every request is answered (`Answered`) and a change reported on stdout if its level lets it (`ChangeReported`); the lifecycle implements `AuditedChange` (`KeepsAuditPromise`) |
| `scan` | no gap, no overlap, truthful items, bounds, endings and `latest`, over logs with holes, markers, removals and growth; a timed scan returns, even if the tail of its window holds no record (`Returns`) |
| `replay` | over two calls with failures, ambiguous writes, lost replies and a target of one or two partitions, nothing before the cursor is uncopied, unless it is the progress of an error of the target with two (`NothingSkipped`); `reachedEnd` is true (`EndIsCopied`) |
| `topics` | T5-T12 on two names others use too: what is deleted was confirmed by name, even when the pattern of T8 matches other topics by then (`DeletesOnlyTheConfirmed`); an item called SUCCEEDED was done by this request (`BulkItemsTruthful`); a purge spares what was produced since (`PurgeSparesNewRecords`), a truncation removes at most what its plan announced (`RemovesAsPlanned`), SUCCEEDED means all of it (`SuccessIsWhole`) |
| `messages` | a read that says it reached the end has seen every record asked for that is still there, and T4 has counted it (`ReadIsComplete`); it returns no other (`ReadIsWithin`); behind the data-plane lock nothing is touched without an audited break-glass (`LockHolds`); M2 returns the record asked for (`GetIsTheRecord`); an acknowledged record is in its partition (`AcknowledgedIsThere`); a request that is refused, unaudited or has an invalid item writes nothing, and the answer, its counts and the one RESULT agree (`AllOrNothingBegins`) |
| `groups` | offsets are committed, and groups deleted, only if nobody was in them at some time after the ATTEMPT (`IdleWhenChanged`); each success was made by the request (`DoneAsTold`); a lag is one there was, whatever moves between the two listings (`LagIsReal`) |
| `cluster` | C5, C9, C12 do what they tell, item by item, and nothing unconfirmed (`AppliedAsTold`); S1 and S2 remove and set only what was asked for and overwrite no credential they saw (`CredentialsAsTold`); T1, T2, C4, C10, C11 show what there was (`ViewIsReal`) |
| `gateway` | a process that ends well has answered everything, a scan within its ceiling is never cut by a shutdown that leaves the derived grace, and nothing is closed under a request (`OrderlyShutdown`); a refusal of a write or of a key is on the record once per sink that keeps its events, with the right key and command and an address that trusted proxies vouch for in the one header that is read (`RefusalsOnRecord`); after SIGTERM the process exits (`Stops`) |
| `audit_level` | finding: under `log_level` warn, with the sink stdout, a change leaves no event |
| `replay_unordered` | finding: with two target partitions the progress of an error skips an uncopied record |
| `reads_unbounded` | finding: M2, and a scan with negative bounds, is never answered |
| `minted_key` | finding: the key that `keygen` prints does not match the digest it prints |

Two more configurations are kept beside the runs, each of which violates the one
property it names: `ReplayLatest.cfg` (of `MCReplay`, `RetryLosesNothing`) and
`MessagesMistyped.cfg` (of `MCMessages`, `MistypedWritesNothing`). They show the
first two entries of the list after the findings.

**Bounds.** Two requests are enough for every interference the lifecycle has
(shared sinks, shared death); two sinks give a first one that succeeds, or drops its
events, and a second that fails. The scans have two partitions of up to four offsets, so that a
page ends within, at and beyond a partition, with a hole in the middle and a
marker at the end. The replay has two partitions of up to three offsets, two
records per call and two calls, the second of one partition: enough for a retry
after every kind of failure. Its target has one partition, where results come in the
order of the records, or two, where they need not. `topics` has one request (requests only meet in the
cluster, where `Others` does all another request could), two names, up to two
partitions of one record and three births, so that a name is deleted and taken
again; its `Init` is any state of the cluster. `messages` has two partitions that grow to
three records, one with a hole, and a list of requests with each kind of from and
to, each matcher, and each thing that can be wrong. `groups` and `cluster` have one
request of each kind and three moves of others, one more than the port calls of a
plan that a change could fall between. `gateway` has two requests, eight
configurations (three are refused) and scans of up to the ceiling. `MaxOffset`, `MaxBirths`, `MaxMoves`,
`MaxEnd` and `MaxCalls` only bound the model. `IntMax` is 7, small enough for a page number
whose product overflows. Deadlock is not checked: a request, a scan, a loop of
calls and the process end.

**Fairness.** Go runs every goroutine (weak fairness of a request's steps, of
`Run`'s and of the process's), and a deadline passes (weak fairness of `Expire` for a
timed scan, and of `Tick`). A poll that can deliver again and again does in the end
(strong fairness of `Poll`). Nothing makes producers write, clients leave or SIGTERM
come. No fairness is assumed for sinks or Kafka beyond their calls returning, and
none for the end of an operation in `Gateway`. `TopicAdmin`, `GroupAdmin` and `Admin`
state safety only; `reads_unbounded` is a counterexample under the fairness of the
scan and of every step of a read.

## 4. What is proved

By TLAPS, for every number of requests, sinks, partitions and offsets, every
window, bound and matcher:

* `DestructiveProofs`: from the assumptions on the constants that `Destructive`
  states. The inductive invariant `IInv` says, for each request, which events are
  on which sinks at each stage: all keeping sinks before the one being written have the
  event, none after it has, and a change only exists from the apply on. Its part `DropsAll`
  says that a sink that drops has never kept anything, without which an event there could
  lack its ATTEMPT. The
  safety properties do not follow from each other, since each speaks of a reply or
  an event without the stage it came from; `IInv` ties them to the stage. Proved:
  `IInv`, `TypeOK`, `FailClosed`, `AuthorisedChange`, `UnavailableIsUntouched`,
  `StdoutRecords`, `OneVerdict`, `ResultHasAttempt`, `TruthfulTrail`. From `IInv` also
  that the lifecycle implements `AuditedChange` (`AuditPromiseKept`): the abstract
  state is read from the trail and the cluster alone, so most steps stutter; the last
  ATTEMPT of a request is `Declare`, an effect, early or late, is `Change`, the first
  executed RESULT is `Succeed` or `FailOrItemise`, and the RESULTs of the other sinks stutter
  because all sinks record the same one. Where no sink keeps anything (`silent`) the
  abstract specification lets changes happen undeclared: that is what the code does, and
  what `audit_level` shows.
* `ScanProofs`: `TypeOK`, `NoGap`, `NoOverlap`, `HonestEnd`, from `ScanInv`. `NoGap`
  is not inductive: the cursor jumps over offsets that hold no record, so one has
  to know that all there is between the cursor and the fetch position is in the
  batch, that the lowest of the batch is evaluated first, and, for records appended
  meanwhile, that a cursor beyond its start stays within a window that ends at or
  before the end snapshot. `ItemsAreTheMatches`, `BoundsHold` and `LatestIsNewest` follow
  from a second invariant, `EmitInv`, which relates the items and their bytes to
  what was evaluated; what `latest` drops is older than what it keeps because a batch is
  evaluated in order. That a set of offsets has a least and a greatest member is
  proved from well-foundedness.

* `ReplayProofs`: `EndIsCopied` without a hypothesis, and `NothingSkipped` for any number
  of calls, failures, unacknowledged writes and lost replies and any order of the results
  that the producer has, if no call asks for the latest records. What is evaluated and
  matches waits in the batch until it is produced. The offset that a success names is that
  of the last record, as all of them are acknowledged in whatever order. The offset that an
  error names is safe with one target partition: the results before the first failure
  are then successes of different records in increasing order, so of the first records
  themselves (`Increasing`, `PrefixGood`). With several it need not be, which is the finding
  `replay_unordered`; a caller who repeats the call skips nothing.

* `MessageProofs`: `LockHolds`, `GetIsTheRecord`, `ReadIsWithin`, `ReadIsComplete`,
  `AcknowledgedIsThere`, `AllOrNothingBegins`, from `MessagesInv`, for every number of
  partitions and records, any request and any gates. A log only grows at its end,
  so an offset listed before is still an end there was, and the windows made from several
  listings are related although the topic moved between them; that a scan evaluates no
  partition outside its windows (the client may deliver one left from before) is part of it. The
  count of T4 is a subtraction of two listings, bounded by what was there at the first
  and at the second. Of a write, each stage says what is on the trail, what is in the
  log and which results have which offsets, no two the same; that an acknowledged record
  reads back as sent uses that base64 is injective. Assumed (`ReadsAssumption`,
  `WritesAssumption`): partitions are numbered from 0, the hash of a key is a natural
  number, M7 carries one record, T4 asks for timestamps, readable or not, and what a
  matcher says of a record of the model is what it says of the payload.

* `TopicAdminProofs`: `AdminInv`, `TopicAdminTypeOK`, `DeletesOnlyTheConfirmed`,
  `RemovesAsPlanned`, `PurgeSparesNewRecords`, `BulkItemsTruthful`, `SuccessIsWhole`, for every
  number of requests, names, partitions, offsets and births. Two facts carry them. The plan that
  is applied is the plan that was confirmed (`PlanKept`), because nothing reads the
  cluster again between the two. And what was read still bounds the topic
  (`SeenBounds`): any step of anybody leaves a name its topic, with begin offsets
  that did not fall, or gives it a topic with a new id (`TopicMoves`, proved for each
  operation on topics). So if only the planned topic was ever seen under the name,
  its begin offsets are at least those of the plan, and truncating removes no more
  than announced. Without the ids the theorem is false: a topic created anew starts
  at 0 again. `SuccessIsWhole` counts what was created: the topics a request creates are
  told apart by their ids, one for each item that has succeeded (`Counted`, `Whole`).

* `GroupAdminProofs`: `IdleWhenChanged`, `DoneAsTold` and `LagIsReal`, for every number
  of groups, members, partitions, offsets and moves of others, from what Kafka may
  hold at the start (`StartsAssumption`: a partition that is not there has offsets 0,
  a group that is not there no members). `IdleWhenChanged` needs that the second look
  for members (`CheckIdle`) is on every path to a commit, and that a group nobody knows
  has no members, since the adapter passes it (`Watched`, `Path`). The other two
  speak of all moments since the request came. Their invariants say where each value
  still in hand was found: `Planned` that each target, and each partition in scope
  whose topic has been read without it, was right at some moment; `Lagging` that G2
  holds the offsets of one moment and ends of that or later ones. They are kept because
  the history only grows and always ends with the present (`PastGrows`), where every
  port call reads.

* `GatewayProofs`: `OrderlyShutdown`, for every number of requests and any routes, keys
  and configurations whose durations are integers, with a slack above 0, if only
  operations that pass a gate answer as one does and mutating routes have
  mutating commands (`GatewayAssumption`). `Serving` says in which phases a request may be in flight and
  what is open in each; `InTime` that each scan under way at the SIGTERM still has
  less time left than the drain, by the slack. Both fall by one together, so when the
  drain times out no such scan is left. `RefusalsOnRecord` follows from `OnRecord`: a request
  has no event on stdout until the stage that refuses it, and from then on exactly one, of
  its command and with its address, if the log level keeps it, and none otherwise. The
  address is the peer's or an entry of the first header followed by trusted proxies only.

* `AdminProofs`: `CredentialsAsTold` and `AppliedAsTold`, for every number of users, entities,
  topics, partitions, brokers, moves and wanted topics, and of moves of others. As for
  the groups, the history ends with the present (`PastGrows`) and what was found stays
  found. `SecurityInv` says what S1 and S2 have found by each call: a user without the mechanism,
  what is deleted, values in effect. Two entities that Kafka takes have different descriptors,
  so what is read of one is of that one (`CurrentIs`). `ClusterInv` says for C12 that each
  topic read had the configuration that is in hand (`ImportSeen`); that the plan consists of
  steps that are wanted, and leaves out only what was in effect, or is a secret wanted
  empty (`RightPlan`); and that each item answers for its change, and a success for all
  that its change sets (`ImportItems`). From these the answer follows when the last
  item is in. For C9 the plan is the moves asked for, no two of one partition, so each is
  made on the partition as it was (`MovesAre`); that a leader is elected from the
  replicas needs that none is empty, which every move keeps (`ClusterShape`). That the names
  of any set can be sorted, which the plan of C12 needs, is a lemma (`SortedIs`), by the least
  number of names that could not.

  `ViewIsReal` is the conjunction of what T1, T2, C4, C10 and C11 promise, and each part is
  proved for any topics and partitions, page sizes within an int and configurations over
  known keys. `ViewFound` says what each has read by each call: that it was so at moments in
  order, of a history in which a topic that stays only grows (`History`, `Later`). So a rate of
  C10 is a difference of two totals of which the second is not the smaller (`RateIs`), and a
  count of T2 not negative where the topic stayed. The counts of C4 are those of its
  issues, and each issue is one of a partition that has it (`PartitionIssuesAre`,
  `AllIssuesAre`, `HealthIs`). A page of T1 holds the names whose rank is within it (`Ranks`,
  `PageIs`): the names are those of a set in order, so that a place in the listing and a
  number of smaller names are the same. What C11 exports C12 would import and
  set nothing (`ImportedAgain`). The folds these rest on are recursive functions: a lemma shows that
  the function exists, and a fact about all its values follows from the least value without it.

Only model-checked: liveness (`Answered`, `ChangeReported`, `Returns`, `Stops`), which is
out of the prover's reach. Every invariant and every action property of the runs that pass
has a theorem.

## 5. Findings

Four disagreements have a run, which shows them as a behaviour of the code:

* `audit_level` (`TrailNeverLost`): with the audit sink stdout and `telemetry.log_level` warn
  or error, both valid, a confirmed command changes the cluster and no event of it is
  written anywhere, although `operations.md:98` calls stdout "always on". The ATTEMPT is
  logged at info (`sink_slog.go:30`), dropped, and counts as written.
* `replay_unordered` (`RetryLosesNothing`): `franz/producer.go:79` returns the results in the
  order in which franz-go has them, not "in the same order" as the records
  (`kafka/port.go:196`), and `replay.go:160` takes them by index. If the second record of a
  partition succeeds, in another target partition, and the first one fails, the progress of
  the error is the offset after the first, and a caller who retries from there never copies
  it, although `replay.go:202` promises a retry "from exactly where it stopped".
* `reads_unbounded` (`ReadReturns`): a negative `limit`, `maxBytes` or `maxTimeMs` is
  not above any ceiling and bounds nothing, and M2 polls without a deadline for an
  offset that may never hold a record. README:11 says no read can run unboundedly.
* `minted_key` (`MintedKeyOpens`): `keygen` prints the digest of the bytes it draws, and
  the key as text; the gateway hashes the text, and answers 401.

The following were met while modelling and have no run of their own. The models do
what the code does; a property is restricted only where this list says so.

*With a configuration beside the runs.* A replay from=latest copies the newest record first and
reports the offset after the last one copied as its progress, so a caller who retries from
there never copies the older ones (`replay.go:165`; `ReplayLatest.cfg`). A `records` list with
one record of the wrong type is decoded as a single record without fields, and written
(`api/message/dto.go:165`; `MessagesMistyped.cfg`).

*Audit.* A dry run of a HIGH command, and a break-glass ATTEMPT, do not have the
severity their comments give them (`destructive.go:94`). The appliers of T8, C9, C12 and G6
return no error whatever their items say (`topic/delete.go:136`,
`cluster/destructive.go:171` and `:438`, `group/destructive.go:114`), so the RESULT is
SUCCEEDED even when every item failed and nothing changed; `topic/events.go:76` says of bulk
results "Failed when any item failed". `ApplySucceeds`, `TruthfulTrail` and the verdict
ITEMISED of `AuditedChange` have this exception (M8 is in it too, as it may find nothing to
copy). The log level drops the events of stdout for every command, reads with break-glass and
refusals included: `Destructive` and `Gateway` have it, while the audit of `Reads`, `Writes`
and the other commands is one step that works or does not, whatever the sinks keep. A 401 on the list
routes of S1 and S2 is audited though they are reads. The health of the audit is
that of the start, however the sinks fare later.

*Scans and replays.* `scan.Run` does not close its consumer when nothing is in scope
or `Assign` fails (`runner.go:42`, `:51`). A replay has no bound in time
(`replay.go:127`).
`maxTimeMs` is multiplied to nanoseconds without a check for overflow
(`bounds.go:38`), which makes a very large one as good as negative. M2 refuses a first record
after the offset, but not one before it, which the client's reset delivers for an
offset beyond the end (FUNC-SPEC:346 says 404; hence the proviso in `GetIsTheRecord`). The format
base64 changes what M3 and M4 match. To `jsonEqual` two arrays, or two objects, are never equal. An omitted key is produced as an empty key and
not as none.

*Plans and tokens.* FUNC-SPEC:303 has the token guarantee "the caller confirmed
exactly what will be affected". That of C12 covers the wanted definitions only: a
topic born since the preview is deleted, and `allowDelete` is not part of it. That
of C9 covers the partitions only, and reassign, cancel and elect share the name
"C9". FUNC-SPEC:232 asks for index and target; the items of C9 have an index. C9
cancels where the replicas are null, and elects the preferred leader for any type
other than UNCLEAN. C12 compares neither partitions nor replication factor
(names twice in its list are not modelled), and a secret value, which the adapter blanks, with what is
wanted: one that is wanted empty passes for set (`destructive.go:382`, hence the proviso in
`ImportAsTold`), and any other is altered every time. C10 accepts negative seconds, and its
rate is negative if a topic was replaced meanwhile. The empty entity of S2 has an
empty confirmation, and the default entity and that named "" are one. T7 and T8
are confirmed by name, so that a topic created anew since the preview is deleted
(`DeletesOnlyTheConfirmed` speaks of names for that reason). T8 does not check that
listed topics exist (FUNC-SPEC 9.4, `delete.go:107`). `truncateTo` -1 passes
`PlanDeleteRecords`, which checks the upper bound only (`delete.go:228`): the plan
announces nothing removed, and the broker takes -1 as the high watermark, which
is why `RemovesAsPlanned` speaks of offsets from 0 on. G4 in the mode offset resets a partition
that was lost meanwhile to 0, and accepts negative offsets. The adapter looks for members
before it commits (`franz/admin.go:488`), but the commit itself is not refused if one has
joined since: hence the wording of `IdleWhenChanged`.

*Views.* A negative `pageSize` with page 1 slices out of range in T1 and G1
(`topic/service.go:96`, `group/service.go:74`; the schema has a minimum for `page`
only), and a page number whose product overflows an int wraps to an earlier page;
`Paging` models both. T3 of an unknown topic is an empty total, although `size.go:33` says
 NotFound, as the in-memory fake does: the adapter (`franz/admin.go:153`)
returns no error. A count of T2 may be negative if the topic is replaced
between its calls; `ViewIsReal` promises no more.

*Process.* `clientip.go:10-13` says that "a spoofed left-most entry from the original client is
never trusted". `clientip.go:30` reads the first `X-Forwarded-For` header only: behind a trusted
proxy that adds a header of its own instead of extending the one it finds, that is the
client's, and the address on the record is what the client put there. `Vouched` promises
no more than the first header can. The early returns of `Shutdown` skip the closers, and TECH-SPEC:488 "flush
audit sinks" has no step. `run.go:70` says that no request can legitimately still be
running past the grace, which is not true of M2, of a negative `maxTimeMs` and of a
scan whose lookups were slow. Answers of 401 carry no CORS headers. The quickstart
of the README asks `/health/ready`, which is at `/v1/health/ready`. The
configuration keys `http.body_limit`, `kafka.producer.acks` and `bounds.throughput` are read
and never used.

## 6. Not modelled, and the plan

Not modelled: telemetry (it changes nothing a request sees); the regular
expressions and JSONPath themselves (constant relations in `Matching`); the reading
of files and of the environment into a configuration (`Gateway` starts from its
values); the generated OpenAPI schema and the validation by its library, beyond what
`Writes`, `Paging` and `ClusterAdmin` need; the TLS and SASL options of the Kafka
client; the `probe` subcommand; the write timeout of `net/http`. `kafka/fake` and
`kafka/porttest` are test doubles and tests: they were read for what Kafka makes of a
call.

What is left is to say and prove that break-glass opens the data-plane lock and nothing else.
