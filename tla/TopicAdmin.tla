----------------------------- MODULE TopicAdmin -----------------------------
(***************************************************************************)
(* The mutating topic commands, T5 to T12: what their plans read, what     *)
(* the caller confirms, and what applying them does to topics that other   *)
(* clients change in between.  Every port call is a step of its own.       *)
(*                                                                         *)
(* The gates and the sinks of the audit trail are in Destructive: here a   *)
(* request has passed the gates, its ATTEMPT succeeds or not, and its      *)
(* RESULT is only the outcome it reports.                                  *)
(***************************************************************************)
EXTENDS Topics, Sequences

CONSTANTS
    Requests,   \* the HTTP calls the gateway receives
    Calls,      \* what they ask for: a subset of Call
    NoPlan      \* not a plan

Ops == {"T5", "T6", "T7", "T8", "T9", "T10", "T11", "T12"}

(* name: the topic of a one-topic command; items: the topics of T6, in     *)
(* order; targets: the listed topics of T8, or those its pattern matches;  *)
(* count, value: the partitions and the configuration asked for; offsets:  *)
(* truncateTo of T11.  confirm is the name, or, for T8, the plan token: a  *)
(* hash of the sorted names, which stands for their set.                   *)
OffsetMap(S) == UNION {[P -> S] : P \in SUBSET (0..MaxPartitions)}

Call ==
    [op : Ops, name : Names, items : Seq(Names), targets : SUBSET Names, pattern : BOOLEAN,
     count : 1..MaxPartitions, value : Values,
     offsets : OffsetMap((-1)..(MaxOffset + 1)),
     confirm : SUBSET Names, dryRun : BOOLEAN]

ASSUME CallAssumption == Calls \subseteq Call

VARIABLES
    call,      \* what each request asked for
    pc,        \* the port call each handler makes next
    seen,      \* what its plan has read so far
    plan,      \* the plan it holds
    items,     \* the outcome of each bulk item, by index (T6) or name (T8)
    outcome,   \* the outcome its RESULT reports
    reply,     \* the answer to the caller
    effect     \* history: what it did to the cluster

reqVars == <<call, pc, seen, plan, items, outcome, reply, effect>>

vars == <<topicVars, reqVars>>

Steps ==
    {"idle", "validate", "list", "purge", "ends0", "describe", "starts", "ends", "configs",
     "confirm", "attempt", "apply", "reread", "done"}

Replies ==
    {"none", "plan", "ok", "NotFound", "KafkaError", "Validation", "PartitionMismatch",
     "BulkValidationFailed", "ConfirmationMismatch", "AuditUnavailable"}

(* ids is history: the topics, rather than names, that the plan has read. *)
Unseen == [parts |-> {}, begin |-> << >>, end |-> << >>, targets |-> << >>, ids |-> {}]

NoCall == [op |-> "none"]

Init ==
    /\ topics \in [Names -> Topic \cup {Gone}]
    /\ births \in 0..MaxBirths
    /\ births = Cardinality(Existing)
    /\ \A n, m \in Existing : topics[n].id <= births /\ (topics[n].id = topics[m].id => n = m)
    /\ call = [r \in Requests |-> NoCall]
    /\ pc = [r \in Requests |-> "idle"]
    /\ seen = [r \in Requests |-> Unseen]
    /\ plan = [r \in Requests |-> NoPlan]
    /\ items = [r \in Requests |-> << >>]
    /\ outcome = [r \in Requests |-> "none"]
    /\ reply = [r \in Requests |-> "none"]
    /\ effect = [r \in Requests |-> {}]

-----------------------------------------------------------------------------
Op(r) == call[r].op

Name(r) == call[r].name

Goto(r, step) == pc' = [pc EXCEPT ![r] = step]

Finish(r, answer) == Goto(r, "done") /\ reply' = [reply EXCEPT ![r] = answer]

(* The first step of each command, its gates passed. *)
First(c) ==
    CASE c.op = "T5" -> IF c.dryRun THEN "validate" ELSE "attempt"
      [] c.op = "T6" -> "list"
      [] c.op = "T8" -> "list"
      [] c.op = "T9" -> "configs"
      [] c.op = "T12" -> "purge"
      [] OTHER -> "describe"

Receive(r) ==
    /\ pc[r] = "idle"
    /\ \E c \in Calls :
          /\ call' = [call EXCEPT ![r] = c]
          /\ Goto(r, First(c))
          /\ seen' = [seen EXCEPT ![r].targets = c.offsets]
    /\ UNCHANGED <<topicVars, plan, items, outcome, reply, effect>>

-----------------------------------------------------------------------------
(* Planning: each read is a port call about a topic that may be another    *)
(* one, or gone, by now.                                                   *)
Reading == {"purge", "ends0", "describe", "starts", "ends", "configs"}

ReadFails(r) ==
    /\ \/ pc[r] \in Reading /\ Finish(r, IF Exists(Name(r)) THEN "KafkaError" ELSE "NotFound")
       \/ pc[r] = "list" /\ (Op(r) = "T8" => call[r].pattern) /\ Finish(r, "KafkaError")
    /\ UNCHANGED <<topicVars, call, seen, plan, items, outcome, effect>>

Reads(r, step) == pc[r] = step /\ Exists(Name(r))

See(r, field, value) ==
    seen' = [seen EXCEPT ![r][field] = value, ![r].ids = @ \cup {topics[Name(r)].id}]

Log0(r, end) == [p \in PartsOf(Name(r)) |-> topics[Name(r)].parts[p][end]]

(* A partition the listing did not have reads as 0, as from any Go map. *)
At(offsets, p) == IF p \in DOMAIN offsets THEN offsets[p] ELSE 0

(* PlanPurge lists the partitions and their ends, then plans a truncation. *)
PurgeDescribes(r) ==
    /\ Reads(r, "purge")
    /\ See(r, "parts", PartsOf(Name(r)))
    /\ Goto(r, "ends0")
    /\ UNCHANGED <<topicVars, call, plan, items, outcome, reply, effect>>

Mutant_PurgeToHighWatermark(r) ==
    /\ Reads(r, "ends0")
    /\ See(r, "targets", [p \in seen[r].parts |-> -1])
    /\ Goto(r, "describe")
    /\ UNCHANGED <<topicVars, call, plan, items, outcome, reply, effect>>

PurgeReadsEnds(r) ==
    /\ Reads(r, "ends0")
    /\ See(r, "targets", [p \in seen[r].parts |-> At(Log0(r, "end"), p)])
    /\ Goto(r, "describe")
    /\ UNCHANGED <<topicVars, call, plan, items, outcome, reply, effect>>

Planned(r, p) == plan' = [plan EXCEPT ![r] = p] /\ Goto(r, "confirm")

(* The plan of a command on one topic, confirmed by that topic's name.     *)
(* existing is history: which of the names were topics at the time.        *)
NamePlan(r) ==
    [names |-> {Name(r)}, confirm |-> {Name(r)}, targets |-> << >>, affected |-> << >>,
     existing |-> {Name(r)} \cap Existing]

Describes(r) ==
    /\ Reads(r, "describe")
    /\ See(r, "parts", PartsOf(Name(r)))
    /\ IF Op(r) = "T10"
       THEN \/ /\ call[r].count <= Count(Name(r))
               /\ Finish(r, "PartitionMismatch")
               /\ UNCHANGED plan
            \/ /\ call[r].count > Count(Name(r))
               /\ Planned(r, NamePlan(r))
               /\ UNCHANGED reply
       ELSE Goto(r, "starts") /\ UNCHANGED <<plan, reply>>
    /\ UNCHANGED <<topicVars, call, items, outcome, effect>>

ReadsStarts(r) ==
    /\ Reads(r, "starts")
    /\ See(r, "begin", Log0(r, "begin"))
    /\ Goto(r, "ends")
    /\ UNCHANGED <<topicVars, call, plan, items, outcome, reply, effect>>

(* PlanDeleteRecords: unknown partitions and offsets beyond the end. *)
Truncatable(s, end) ==
    \A p \in DOMAIN s.targets : p \in s.parts /\ s.targets[p] <= At(end, p)

Mutant_OffByOne(s) ==
    [p \in DOMAIN s.targets |->
        LET n == s.targets[p] - At(s.begin, p) - 1 IN IF n < 0 THEN 0 ELSE n]

Affected(s) ==
    [p \in DOMAIN s.targets |->
        LET n == s.targets[p] - At(s.begin, p) IN IF n < 0 THEN 0 ELSE n]

ReadsEnds(r) ==
    /\ Reads(r, "ends")
    /\ LET end == Log0(r, "end") IN
       /\ See(r, "end", end)
       /\ \/ /\ Op(r) = "T7"
             /\ Goto(r, "configs")
             /\ UNCHANGED <<plan, reply>>
          \/ /\ Op(r) # "T7" /\ Truncatable(seen[r], end)
             /\ Planned(r, [NamePlan(r) EXCEPT !.targets = seen[r].targets,
                                               !.affected = Affected(seen[r])])
             /\ UNCHANGED reply
          \/ /\ Op(r) # "T7" /\ ~ Truncatable(seen[r], end)
             /\ Finish(r, "Validation")
             /\ UNCHANGED plan
    /\ UNCHANGED <<topicVars, call, items, outcome, effect>>

(* The configs end a T7 plan, and are the whole of a T9 plan. *)
ReadsConfigs(r) ==
    /\ Reads(r, "configs")
    /\ Planned(r, NamePlan(r))
    /\ See(r, "parts", seen[r].parts)
    /\ UNCHANGED <<topicVars, call, items, outcome, reply, effect>>

(* resolveBulkDeleteTargets: the topics the pattern matches now, or the    *)
(* list as given, existing or not.                                         *)
Resolved(r) == IF call[r].pattern THEN call[r].targets \cap Existing ELSE call[r].targets

ResolvesTargets(r) ==
    /\ pc[r] = "list" /\ Op(r) = "T8"
    /\ IF ~ call[r].pattern /\ call[r].targets = {}
       THEN Finish(r, "Validation") /\ UNCHANGED plan
       ELSE /\ Planned(r, [NamePlan(r) EXCEPT !.names = Resolved(r), !.confirm = Resolved(r),
                                              !.existing = Resolved(r) \cap Existing])
            /\ UNCHANGED reply
    /\ UNCHANGED <<topicVars, call, seen, items, outcome, effect>>

ItemNames(r) == {call[r].items[i] : i \in DOMAIN call[r].items}

(* CreateBulk: every item is checked against one listing before any runs. *)
ValidatesBulk(r) ==
    /\ pc[r] = "list" /\ Op(r) = "T6"
    /\ IF ItemNames(r) \cap Existing # {}
       THEN Finish(r, "BulkValidationFailed")
       ELSE Goto(r, "attempt") /\ UNCHANGED reply
    /\ UNCHANGED <<topicVars, call, seen, plan, items, outcome, effect>>

(* A dry-run T5 asks the broker, and is audited only when it would work. *)
DryRunCreate(r) ==
    /\ pc[r] = "validate"
    /\ \/ ~ Exists(Name(r)) /\ Finish(r, "plan") /\ outcome' = [outcome EXCEPT ![r] = "SUCCEEDED"]
       \/ Finish(r, "KafkaError") /\ UNCHANGED outcome
    /\ UNCHANGED <<topicVars, call, seen, plan, items, effect>>

-----------------------------------------------------------------------------
Mutant_AnyToken(r) ==
    /\ pc[r] = "confirm"
    /\ \/ /\ call[r].dryRun
          /\ Finish(r, "plan")
          /\ outcome' = [outcome EXCEPT ![r] = "SUCCEEDED"]
       \/ /\ ~ call[r].dryRun
          /\ Goto(r, "attempt")
          /\ UNCHANGED <<reply, outcome>>
    /\ UNCHANGED <<topicVars, call, seen, plan, items, effect>>

(* core.Destructive between plan and apply. *)
Confirms(r) ==
    /\ pc[r] = "confirm"
    /\ \/ /\ call[r].dryRun
          /\ Finish(r, "plan")
          /\ outcome' = [outcome EXCEPT ![r] = "SUCCEEDED"]
       \/ /\ ~ call[r].dryRun /\ call[r].confirm # plan[r].confirm
          /\ Finish(r, "ConfirmationMismatch")
          /\ UNCHANGED outcome
       \/ /\ ~ call[r].dryRun /\ call[r].confirm = plan[r].confirm
          /\ Goto(r, "attempt")
          /\ UNCHANGED <<reply, outcome>>
    /\ UNCHANGED <<topicVars, call, seen, plan, items, effect>>

Attempts(r) ==
    /\ pc[r] = "attempt"
    /\ \/ Goto(r, "apply") /\ UNCHANGED reply
       \/ Finish(r, "AuditUnavailable")
    /\ UNCHANGED <<topicVars, call, seen, plan, items, outcome, effect>>

Report(r, out, answer) == Finish(r, answer) /\ outcome' = [outcome EXCEPT ![r] = out]

Did(r, S) == effect' = [effect EXCEPT ![r] = @ \cup S]

-----------------------------------------------------------------------------
(* What each command does to the cluster, and its trace in effect.         *)
NoEffect == UNCHANGED <<topicVars, effect>>

OnTopic(kind, n, part, to, lost) ==
    [kind |-> kind, name |-> n, id |-> IF Exists(n) THEN topics[n].id ELSE births + 1,
     part |-> part, to |-> to, lost |-> lost]

DeleteEffect(r, D) == Removed(D) /\ Did(r, {OnTopic("delete", n, 0, 0, 0) : n \in D})

CreateEffect(r, n) ==
    /\ Born(n, call[r].count, call[r].value)
    /\ Did(r, {OnTopic("create", n, 0, call[r].count, 0)})

AlterEffect(r) ==
    /\ Exists(Name(r))
    /\ Configured(Name(r), call[r].value)
    /\ Did(r, {OnTopic("configure", Name(r), 0, 0, 0)})

(* CreatePartitions takes the total, and the broker refuses to shrink. *)
GrowEffect(r) ==
    /\ Exists(Name(r))
    /\ call[r].count > Count(Name(r))
    /\ Grown(Name(r), call[r].count)
    /\ Did(r, {OnTopic("grow", Name(r), 0, call[r].count, 0)})

Targets(r) == plan[r].targets

(* Each partition's leader truncates, or refuses, on its own. *)
TrimEffect(r, P) ==
    LET n == Name(r)
        log(p) == topics[n].parts[p]
        trim(p) == Trimmed(log(p), Targets(r)[p])
    IN  /\ Exists(n)
        /\ \A p \in P : CanTrim(n, p, Targets(r)[p])
        /\ TrimmedAll(n, [p \in P |-> Targets(r)[p]])
        /\ Did(r, {OnTopic("truncate", n, p, trim(p).begin, trim(p).begin - log(p).begin) : p \in P})

-----------------------------------------------------------------------------
Applies(r, ops) == pc[r] = "apply" /\ Op(r) \in ops

Mark(good, all) == [n \in all |-> IF n \in good THEN "SUCCEEDED" ELSE "FAILED"]

Mutant_DeletesWhatMatchesNow(r) ==
    /\ Applies(r, {"T7", "T8"})
    /\ DeleteEffect(r, IF Op(r) = "T8" THEN Resolved(r) \cap Existing ELSE {Name(r)} \cap Existing)
    /\ items' = [items EXCEPT ![r] = Mark(Existing, plan[r].names)]
    /\ Report(r, "SUCCEEDED", "ok")
    /\ UNCHANGED <<call, seen, plan>>

Mutant_MissingIsDeleted(r) ==
    /\ Applies(r, {"T7", "T8"})
    /\ DeleteEffect(r, plan[r].names \cap Existing)
    /\ items' = [items EXCEPT ![r] = Mark(plan[r].names, plan[r].names)]
    /\ Report(r, "SUCCEEDED", "ok")
    /\ UNCHANGED <<call, seen, plan>>

(* ApplyDelete, ApplyBulkDelete: each topic has its own result, and one    *)
(* that reports an error may be deleted all the same.  T7 has one topic,   *)
(* whose error is the command's; T8 reports its items and never fails.     *)
Deletes(r) ==
    /\ Applies(r, {"T7", "T8"})
    /\ \E D \in SUBSET (plan[r].names \cap Existing) : \E good \in SUBSET D :
          /\ DeleteEffect(r, D)
          /\ \/ /\ Op(r) = "T8"
                /\ items' = [items EXCEPT ![r] = Mark(good, plan[r].names)]
                /\ Report(r, "SUCCEEDED", "ok")
             \/ /\ Op(r) = "T7"
                /\ IF good = {} THEN Report(r, "FAILED", "KafkaError") ELSE Report(r, "SUCCEEDED", "ok")
                /\ UNCHANGED items
    /\ UNCHANGED <<call, seen, plan>>

Creates(r) ==
    /\ Applies(r, {"T5"})
    /\ CreateEffect(r, Name(r))
    /\ Report(r, "SUCCEEDED", "ok")
    /\ UNCHANGED <<call, seen, plan, items>>

Alters(r) ==
    /\ Applies(r, {"T9"})
    /\ AlterEffect(r)
    /\ Goto(r, "reread")
    /\ UNCHANGED <<call, seen, plan, items, outcome, reply>>

(* The answer to T9 is a fresh description: without it, the command fails. *)
Rereads(r) ==
    /\ pc[r] = "reread"
    /\ \/ Exists(Name(r)) /\ Report(r, "SUCCEEDED", "ok")
       \/ Report(r, "FAILED", "KafkaError")
    /\ UNCHANGED <<topicVars, call, seen, plan, items, effect>>

Grows(r) ==
    /\ Applies(r, {"T10"})
    /\ GrowEffect(r)
    /\ Report(r, "SUCCEEDED", "ok")
    /\ UNCHANGED <<call, seen, plan, items>>

Mutant_TruncatesWhatItCan(r) ==
    /\ Applies(r, {"T11", "T12"})
    /\ \E P \in SUBSET DOMAIN Targets(r) : TrimEffect(r, P)
    /\ Report(r, "SUCCEEDED", "ok")
    /\ UNCHANGED <<call, seen, plan, items>>

Truncates(r) ==
    /\ Applies(r, {"T11", "T12"})
    /\ TrimEffect(r, DOMAIN Targets(r))
    /\ Report(r, "SUCCEEDED", "ok")
    /\ UNCHANGED <<call, seen, plan, items>>

(* The port call returns an error.  It may have taken effect, and a        *)
(* truncation on some partitions only: the first error hides the rest.     *)
ApplyFails(r) ==
    /\ Applies(r, Ops \ {"T6"})
    /\ \/ NoEffect
       \/ Op(r) \in {"T7", "T8"} /\ \E D \in SUBSET (plan[r].names \cap Existing) : DeleteEffect(r, D)
       \/ Op(r) = "T5" /\ CreateEffect(r, Name(r))
       \/ Op(r) = "T9" /\ AlterEffect(r)
       \/ Op(r) = "T10" /\ GrowEffect(r)
       \/ Op(r) \in {"T11", "T12"} /\ \E P \in SUBSET DOMAIN Targets(r) : TrimEffect(r, P)
    /\ Report(r, "FAILED", "KafkaError")
    /\ UNCHANGED <<call, seen, plan, items>>

ItemDone(r, out) == items' = [items EXCEPT ![r] = Append(@, out)]

Remaining(r) == Len(call[r].items) - Len(items[r])

(* BulkExecute: one port call per item, none of which stops the next. *)
CreatesItem(r) ==
    /\ Applies(r, {"T6"})
    /\ Remaining(r) > 0
    /\ LET n == call[r].items[Len(items[r]) + 1] IN
       \/ CreateEffect(r, n) /\ ItemDone(r, "SUCCEEDED")
       \/ (CreateEffect(r, n) \/ NoEffect) /\ ItemDone(r, "FAILED")
    /\ UNCHANGED <<call, pc, seen, plan, outcome, reply>>

AnyFailed(r) == \E i \in DOMAIN items[r] : items[r][i] = "FAILED"

ReportsBulk(r) ==
    /\ Applies(r, {"T6"})
    /\ Remaining(r) = 0
    /\ Report(r, IF AnyFailed(r) THEN "FAILED" ELSE "SUCCEEDED", "ok")
    /\ UNCHANGED <<topicVars, call, seen, plan, items, effect>>

Handle(r) ==
    \/ Receive(r)
    \/ ReadFails(r) \/ PurgeDescribes(r) \/ PurgeReadsEnds(r) \/ Describes(r)
    \/ ReadsStarts(r) \/ ReadsEnds(r) \/ ReadsConfigs(r)
    \/ ResolvesTargets(r) \/ ValidatesBulk(r) \/ DryRunCreate(r)
    \/ Confirms(r) \/ Attempts(r)
    \/ Deletes(r) \/ Creates(r) \/ Alters(r) \/ Rereads(r) \/ Grows(r) \/ Truncates(r)
    \/ ApplyFails(r) \/ CreatesItem(r) \/ ReportsBulk(r)

Next ==
    \/ \E r \in Requests : Handle(r)
    \/ Others /\ UNCHANGED reqVars

Spec == Init /\ [][Next]_vars

-----------------------------------------------------------------------------
Effect ==
    [kind : {"create", "delete", "configure", "grow", "truncate"}, name : Names,
     id : 1..MaxBirths, part : 0..MaxPartitions, to : 0..(MaxOffset + MaxPartitions),
     lost : 0..MaxOffset]

Seen ==
    [parts : SUBSET (0..MaxPartitions), begin : OffsetMap(0..MaxOffset),
     end : OffsetMap(0..MaxOffset), targets : OffsetMap((-1)..(MaxOffset + 1)),
     ids : SUBSET (1..MaxBirths)]

Plan ==
    [names : SUBSET Names, confirm : SUBSET Names, existing : SUBSET Names,
     targets : OffsetMap((-1)..(MaxOffset + 1)), affected : OffsetMap(0..(MaxOffset + 1))]

(* Every variable has its type. *)
TopicAdminTypeOK ==
    /\ TopicsTypeOK
    /\ call \in [Requests -> Calls \cup {NoCall}]
    /\ pc \in [Requests -> Steps]
    /\ seen \in [Requests -> Seen]
    /\ plan \in [Requests -> Plan \cup {NoPlan}]
    /\ DOMAIN items = Requests
    /\ \A r \in Requests : \A i \in DOMAIN items[r] : items[r][i] \in {"SUCCEEDED", "FAILED"}
    /\ effect \in [Requests -> SUBSET Effect]
    /\ outcome \in [Requests -> {"none", "SUCCEEDED", "FAILED"}]
    /\ reply \in [Requests -> Replies]

Effects(r, kind) == {e \in effect[r] : e.kind = kind}

(* What is deleted was named by the caller: the topic of T7, a topic of    *)
(* the token of T8, however the names a pattern matches change between     *)
(* the preview, the plan and the deletion.                                 *)
DeletesOnlyTheConfirmed ==
    \A r \in Requests : \A e \in Effects(r, "delete") : e.name \in call[r].confirm

(* The effect is on the very topic that was planned for, and no other has  *)
(* taken its name in between.                                              *)
SameTopic(r, e) == seen[r].ids = {e.id}

(* A purge removes what was there when it was planned, and never a record  *)
(* produced since (PlanPurge takes end offsets, not the high watermark).   *)
PurgeSparesNewRecords ==
    \A r \in Requests : \A e \in Effects(r, "truncate") :
        Op(r) = "T12" /\ SameTopic(r, e) /\ e.lost > 0 => e.to <= At(seen[r].end, e.part)

(* A truncation removes no more records than approxRecordsAffected of the  *)
(* plan the caller confirmed, whatever retention and producers do since.   *)
RemovesAsPlanned ==
    \A r \in Requests : \A e \in Effects(r, "truncate") :
        SameTopic(r, e) /\ Targets(r)[e.part] >= 0 => e.lost <= plan[r].affected[e.part]

(* An item a bulk answer calls SUCCEEDED is this request's own doing.      *)
BulkItemsTruthful ==
    \A r \in Requests : \A i \in DOMAIN items[r] :
        items[r][i] = "SUCCEEDED" =>
            IF Op(r) = "T8"
            THEN \E e \in Effects(r, "delete") : e.name = i
            ELSE \E e \in Effects(r, "create") : e.name = call[r].items[i]

(* All that the command of r asks for is done: the topic or the items      *)
(* made, the topic gone, the value set, every partition truncated.         *)
WholeEffect(r) ==
    /\ Op(r) = "T5" => Effects(r, "create") # {}
    /\ Op(r) = "T6" => Cardinality(Effects(r, "create")) >= Len(call[r].items)
    /\ Op(r) = "T7" => \E e \in Effects(r, "delete") : e.name = Name(r)
    /\ Op(r) = "T9" => Effects(r, "configure") # {}
    /\ Op(r) = "T10" => \E e \in Effects(r, "grow") : e.to = call[r].count
    /\ Op(r) \in {"T11", "T12"} =>
          {e.part : e \in Effects(r, "truncate")} = DOMAIN Targets(r)

(* SUCCEEDED in the audit trail of a command other than T8 means all of    *)
(* it took effect: every partition, every item.                            *)
SuccessIsWhole ==
    \A r \in Requests : outcome[r] = "SUCCEEDED" /\ ~ call[r].dryRun => WholeEffect(r)
=============================================================================
