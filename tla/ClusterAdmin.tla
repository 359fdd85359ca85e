---------------------------- MODULE ClusterAdmin ----------------------------
(***************************************************************************)
(* The cluster commands, C1 to C12 (internal/service/cluster), from their  *)
(* HTTP handlers to their replies, over a cluster whose topics, replicas   *)
(* and configuration others change meanwhile.  Every port call is a step.  *)
(***************************************************************************)
EXTENDS AdminCommand, SequencesExt

CONSTANTS
    Names,         \* the names topics may have, sorted
    Brokers,       \* the brokers
    Dir,           \* the log directory each broker keeps a topic's replicas in
    Keys,          \* the configuration keys
    Default,       \* the value of a key nobody has set
    Sensitive,     \* the keys whose values are secret
    MaxEnd,        \* bounds the end offsets
    MaxAffected,   \* entries C4 lists
    SecondsDefault, SecondsCeiling,
    Clusters       \* the topics and broker configurations there may be at first

VARIABLES
    topics,    \* the topics that exist
    configs    \* the configuration of each broker

clusterVars == <<topics, configs>>

(* What a partition and a topic are. *)
Partition ==
    [replicas : Seq(Int), adding : SUBSET Int, removing : SUBSET Int, leader : Int, isr : SUBSET Int, end : Int]

IsTopic(t) ==
    /\ t = [internal |-> t.internal, parts |-> t.parts, config |-> t.config]
    /\ t.parts \in Seq(Partition)

(* What the bodies and queries of C1 to C12 hold: C5's change, C9's moves, *)
(* each with the replicas it asks for, C12's definitions of topics.        *)
ClusterIds == {"C1", "C2", "C4", "C5", "C6", "C7", "C8", "C9", "C10", "C11", "C12"}

IsClusterAsk(a) ==
    /\ a.broker \in Int /\ a.seconds \in Int /\ a.topic \in Range(Names) \cup {""}
    /\ a.pattern \in Range(Names) \cup {"", "("}
    /\ DOMAIN a.change.set \cup a.change.reset \subseteq Keys
    /\ \A i \in DOMAIN a.moves :
          /\ a.moves[i][1] \in {"reassign", "cancel", "PREFERRED", "UNCLEAN"}
          /\ a.moves[i][2] \in Range(Names) \X Nat
          /\ a.moves[i][3] \in Seq(Int)
    /\ IsInjective([i \in DOMAIN a.moves |-> a.moves[i][2]])
    /\ DOMAIN a.wanted \subseteq Range(Names)
    /\ \A n \in DOMAIN a.wanted :
          a.wanted[n].partitions \in Nat /\ a.wanted[n].rf \in Nat /\ DOMAIN a.wanted[n].config \subseteq Keys
    /\ a.allowDelete \in BOOLEAN

ASSUME ClusterAssumption ==
    /\ \A a \in Asks : a.id \in ClusterIds => IsClusterAsk(a)
    /\ Names \in Seq(STRING) /\ IsInjective(Names)
    /\ \A s \in Clusters :
          /\ DOMAIN s.topics \subseteq Range(Names)
          /\ \A n \in DOMAIN s.topics :
                /\ IsTopic(s.topics[n]) /\ DOMAIN s.topics[n].config \subseteq Keys
                /\ \A i \in DOMAIN s.topics[n].parts : s.topics[n].parts[i].replicas # <<>>
    /\ Default \in [Keys -> STRING] /\ Sensitive \subseteq Keys
    /\ MaxAffected \in Nat /\ SecondsDefault \in Nat \ {0} /\ SecondsCeiling \in Nat

Known(b) == b \in DOMAIN configs

Existing(n) == n \in DOMAIN topics

(* The names of S, sorted. *)
Ascending(s) == \A k, l \in DOMAIN s : k < l => \E i, j \in DOMAIN Names : i < j /\ Names[i] = s[k] /\ Names[j] = s[l]

Sorted(S) == CHOOSE s \in UNION {[1..k -> S] : k \in 0..Len(Names)} : Range(s) = S /\ Ascending(s)

HasPart(tp) == Existing(tp[1]) /\ tp[2] \in DOMAIN topics[tp[1]].parts

Part(tp) == topics[tp[1]].parts[tp[2]]

(* The partitions there are. *)
Placed == UNION {{n} \X DOMAIN topics[n].parts : n \in DOMAIN topics}

Unseen == [todo |-> {}, listed |-> <<>>, config |-> <<>>, first |-> <<>>, last |-> <<>>, items |-> <<>>]

Reading(step) == At(step) /\ UNCHANGED <<clusterVars, done>>

Planning(target, changes) == Planned(target, changes) /\ Goto("confirm")

-----------------------------------------------------------------------------
(* What the port says of a configuration: set (dynamic) keys have their    *)
(* value, the others the default, and a secret is blank.                   *)
Entry(set, k) ==
    [value |-> IF k \in Sensitive THEN "" ELSE IF k \in DOMAIN set THEN set[k] ELSE Default[k],
     dynamic |-> k \in DOMAIN set]

Described(set) == [k \in Keys |-> Entry(set, k)]

Value(set, k) == Entry(set, k).value

(* IncrementalAlterConfigs: change is [set, reset]. *)
Altered(set, change) == Amended(set, change.set, change.reset)

(* The handlers' answers: a secret value is null. *)
Shown(config) ==
    [k \in DOMAIN config |-> IF k \in Sensitive THEN [config[k] EXCEPT !.value = "null"] ELSE config[k]]

-----------------------------------------------------------------------------
(* C4: the issues of each partition, by topic and partition. *)
Issues == {"offline", "under_replicated", "non_preferred_leader"}

HasIssue(p, issue) ==
    CASE issue = "offline" -> p.leader = -1
      [] issue = "under_replicated" -> Cardinality(p.isr) < Len(p.replicas)
      [] issue = "non_preferred_leader" -> p.leader # -1 /\ Len(p.replicas) > 0 /\ p.leader # p.replicas[1]

PartitionIssues(n, i) ==
    LET If(issue) == IF HasIssue(topics[n].parts[i], issue) THEN <<<<n, i, issue>>>> ELSE <<>>
    IN  If("offline") \o If("under_replicated") \o If("non_preferred_leader")

AllIssues ==
    FlattenSeq([k \in DOMAIN Sorted(DOMAIN topics) |->
        LET n == Sorted(DOMAIN topics)[k]
        IN  FlattenSeq([i \in DOMAIN topics[n].parts |-> PartitionIssues(n, i)])])

Health ==
    LET n == Len(AllIssues) IN
    [topics |-> Cardinality(DOMAIN topics),
     counts |-> [x \in Issues |-> Cardinality({k \in DOMAIN AllIssues : AllIssues[k][3] = x})],
     affected |-> SubSeq(AllIssues, 1, IF n < MaxAffected THEN n ELSE MaxAffected),
     truncated |-> n > MaxAffected]

(* C7, C8. *)
Moving ==
    {<<tp[1], tp[2], Part(tp)>> : tp \in {x \in Placed : Part(x).adding # {} \/ Part(x).removing # {}}}

Hosted(b, d) ==
    {tp \in Placed : b \in Range(Part(tp).replicas) /\ Dir[b, tp[1]] = d}

LogDirs(b) ==
    LET Log(c, d) == [broker |-> c, dir |-> d, partitions |-> Cardinality(Hosted(c, d)),
                      bytes |-> FoldSet(LAMBDA tp, sum : sum + Part(tp).end, 0, Hosted(c, d))]
    IN  {Log(x[1], x[2]) :
            x \in {y \in (DOMAIN configs) \X Range(Dir) : Hosted(y[1], y[2]) # {} /\ (b < 0 \/ b = y[1])}}

-----------------------------------------------------------------------------
(* The handlers: where a command begins, and the bound of C10. *)
Seconds == IF ask.seconds = 0 THEN SecondsDefault ELSE ask.seconds

MoveTarget(moved) == <<"C9", {m[2] : m \in Range(moved)}>>

Handle ==
    /\ Reading("http")
    /\ seen' = IF ask.id = "C10" /\ ask.topic # "" THEN [seen EXCEPT !.todo = {ask.topic}, !.listed = [n \in {ask.topic} |-> 0]]
               ELSE seen
    /\ CASE ask.id = "C5" -> Goto("current") /\ UNCHANGED plan
         [] ask.id = "C9" -> Planning(MoveTarget(ask.moves), ask.moves)
         [] ask.id = "C10" /\ Seconds > SecondsCeiling -> Reply("BoundExceeded", <<>>) /\ UNCHANGED plan
         [] ask.id = "C10" /\ Seconds <= SecondsCeiling ->
                Goto(IF ask.topic = "" THEN "list" ELSE "first") /\ UNCHANGED plan
         [] ask.id = "C11" /\ ask.pattern = "(" -> Reply("InvalidRegex", <<>>) /\ UNCHANGED plan
         [] ask.id = "C12" \/ (ask.id = "C11" /\ ask.pattern # "(") -> Goto("list") /\ UNCHANGED plan
         [] OTHER -> Goto("read") /\ UNCHANGED plan

(* The commands of one call. *)
View ==
    CASE ask.id = "C1" -> DOMAIN configs
      [] ask.id = "C2" -> Shown(Described(configs[ask.broker]))
      [] ask.id = "C4" -> Health
      [] ask.id = "C7" -> Moving
      [] ask.id = "C8" -> LogDirs(ask.broker)

ReadOnce ==
    /\ Reading("read")
    /\ IF ask.id = "C2" /\ ~ Known(ask.broker) THEN Reply("NotFound", <<>>)
       ELSE IF ask.id = "C6" THEN Reply("ok", "quorum") \/ Reply("Unsupported", <<>>)
       ELSE Reply("ok", View)
    /\ UNCHANGED <<seen, plan>>

-----------------------------------------------------------------------------
(* ListTopics, for C10 to C12: the topics that are not internal, with the  *)
(* number of partitions and the replicas of one of them.                   *)
Public == {n \in DOMAIN topics : ~ topics[n].internal}

Wanted == IF ask.id = "C12" THEN DOMAIN ask.wanted ELSE {}

Matching == IF ask.id = "C11" /\ ask.pattern # "" THEN {n \in Public : n = ask.pattern} ELSE Public

List ==
    /\ Reading("list")
    /\ \E p \in [Public -> UNION {Range(topics[n].parts) : n \in Public}] :
          /\ \A n \in Public : p[n] \in Range(topics[n].parts)
          /\ seen' = [seen EXCEPT
                !.listed = [n \in Matching |-> [partitions |-> Len(topics[n].parts), rf |-> Len(p[n].replicas)]],
                !.todo = IF ask.id = "C12" THEN Matching \cap Wanted ELSE Matching]
    /\ Goto(IF ask.id = "C10" THEN "first" ELSE "describe")
    /\ UNCHANGED plan

(* C10: every end offset, and after the pause every end offset again. *)
Leaderless(n) == \E i \in DOMAIN topics[n].parts : topics[n].parts[i].leader = -1

Ends(n) == [i \in DOMAIN topics[n].parts |-> topics[n].parts[i].end]

Mutant_Rate(before, after) ==
    FoldSet(LAMBDA i, sum : after[i] - before[i] + sum, 0, DOMAIN after \cap DOMAIN before)

Rate(before, after) ==
    FoldSet(LAMBDA i, sum : after[i] - (IF i \in DOMAIN before THEN before[i] ELSE 0) + sum, 0, DOMAIN after)

Sample(step) ==
    /\ Reading(step)
    /\ seen.todo # {}
    /\ \E n \in seen.todo :
          IF ~ Existing(n) THEN Reply("NotFound", <<>>) /\ UNCHANGED seen
          ELSE IF Leaderless(n) THEN Reply("KafkaError", <<>>) /\ UNCHANGED seen
          ELSE /\ seen' = [seen EXCEPT !.todo = @ \ {n},
                              !.first = IF step = "first" THEN With(@, n, Ends(n)) ELSE @,
                              !.last = IF step = "last" THEN With(@, n, Ends(n)) ELSE @]
               /\ Goto(step)
    /\ UNCHANGED plan

Pause ==
    /\ Reading("first")
    /\ seen.todo = {}
    /\ seen' = [seen EXCEPT !.todo = DOMAIN seen.listed]
    /\ Goto("last")
    /\ UNCHANGED plan

Throughput ==
    /\ Reading("last")
    /\ seen.todo = {}
    /\ Reply("ok", [n \in DOMAIN seen.last |->
                       [moved |-> Rate(seen.first[n], seen.last[n]), seconds |-> Seconds,
                        first |-> seen.first[n], last |-> seen.last[n]]])
    /\ UNCHANGED <<seen, plan>>

-----------------------------------------------------------------------------
(* C11 and C12 ask for the configuration of each topic. *)
DescribeNext ==
    /\ Reading("describe")
    /\ seen.todo # {}
    /\ \E n \in seen.todo :
          IF ~ Existing(n) THEN Reply("NotFound", <<>>) /\ UNCHANGED seen
          ELSE /\ seen' = [seen EXCEPT !.todo = @ \ {n},
                                       !.config = With(@, n, Described(topics[n].config))]
               /\ Goto("describe")
    /\ UNCHANGED plan

Overrides(config) == [k \in {x \in Keys : config[x].dynamic} |-> config[k].value]

Exported(listed, config) ==
    [n \in DOMAIN listed |-> [partitions |-> listed[n].partitions, rf |-> listed[n].rf,
                              config |-> Overrides(config[n])]]

Export ==
    /\ Reading("describe")
    /\ ask.id = "C11" /\ seen.todo = {}
    /\ Reply("ok", Exported(seen.listed, seen.config))
    /\ UNCHANGED <<seen, plan>>

(* C12: what is wanted and not there is created, what differs altered, and *)
(* what is there and not wanted a candidate for deletion.                  *)
Differing(want, config) == {k \in DOMAIN want.config : config[k].value # want.config[k]}

(* The steps of one kind, by name, each with what it needs. *)
Steps(action, of) ==
    LET names == Sorted(DOMAIN of) IN [i \in DOMAIN names |-> <<action, names[i], of[names[i]]>>]

ImportChanges(wanted, present, config) ==
    LET alter == {n \in DOMAIN wanted \cap present : Differing(wanted[n], config[n]) # {}}
        Changed(n) == [set |-> Restrict(wanted[n].config, Differing(wanted[n], config[n])), reset |-> {}]
    IN  Steps("create", Restrict(wanted, DOMAIN wanted \ present))
        \o Steps("alter", [n \in alter |-> Changed(n)])
        \o Steps("delete", [n \in present \ DOMAIN wanted |-> ""])

PlanImport ==
    /\ Reading("describe")
    /\ ask.id = "C12" /\ seen.todo = {}
    /\ Planning(Token("C12", {<<n, ask.wanted[n]>> : n \in DOMAIN ask.wanted}),
                ImportChanges(ask.wanted, DOMAIN seen.listed, seen.config))
    /\ UNCHANGED seen

(* C5: the current values are part of the plan, which is not confirmed by  *)
(* them but by the broker's id.                                            *)
PlanBrokerConfig ==
    /\ Reading("current")
    /\ IF ~ Known(ask.broker) THEN Reply("NotFound", <<>>) /\ UNCHANGED plan
       ELSE Planning(<<"C5", {ask.broker}>>,
               <<[k \in DOMAIN ask.change.set \cup ask.change.reset |->
                     [from |-> Value(configs[ask.broker], k),
                      to |-> IF k \in ask.change.reset THEN "" ELSE ask.change.set[k]]]>>)
    /\ UNCHANGED seen

-----------------------------------------------------------------------------
(* The changes. The answer to one that took effect may be lost. *)
Applying == At("apply") /\ UNCHANGED plan

AlterBroker ==
    /\ Applying
    /\ ask.id = "C5"
    /\ IF ~ Known(ask.broker) THEN Reply("NotFound", <<>>) /\ UNCHANGED <<configs, done>>
       ELSE /\ configs' = [configs EXCEPT ![ask.broker] = Altered(@, ask.change)]
            /\ done' = {<<"alter", ask.broker>>}
            /\ Goto("reread") \/ Reply("KafkaError", <<>>)
    /\ UNCHANGED <<topics, seen>>

Reread ==
    /\ Reading("reread")
    /\ ask.id = "C5"
    /\ IF ~ Known(ask.broker) THEN Reply("NotFound", <<>>)
       ELSE Reply("ok", Shown(Described(configs[ask.broker])))
    /\ UNCHANGED <<seen, plan>>

(* What Kafka makes of a change of one partition, or refuses. *)
Refused(m) ==
    \/ ~ HasPart(m[2])
    \/ m[1] = "reassign" /\ (m[3] = <<>> \/ ~ Range(m[3]) \subseteq DOMAIN configs)
    \/ m[1] = "cancel" /\ Part(m[2]).adding = {} /\ Part(m[2]).removing = {}
    \/ m[1] = "PREFERRED" /\ (Part(m[2]).leader = Part(m[2]).replicas[1] \/ Part(m[2]).replicas[1] \notin Part(m[2]).isr)
    \/ m[1] = "UNCLEAN" /\ Part(m[2]).leader # -1

After(m, p) ==
    CASE m[1] = "reassign" ->
             [p EXCEPT !.replicas = m[3], !.adding = Range(m[3]) \ Range(p.replicas),
                       !.removing = Range(p.replicas) \ Range(m[3])]
      [] m[1] = "cancel" -> [p EXCEPT !.adding = {}, !.removing = {}]
      [] OTHER -> [p EXCEPT !.leader = p.replicas[1], !.isr = @ \cup {p.replicas[1]}]

Mutant_Items(changes, ok) == [i \in DOMAIN changes |-> <<changes[i][1], changes[i][2], TRUE>>]

Items(changes, ok) == [i \in DOMAIN changes |-> <<changes[i][1], changes[i][2], ok[i]>>]

(* C9: one call, an error for each partition. *)
MovePartitions ==
    /\ Applying
    /\ ask.id = "C9"
    /\ LET ok == [i \in DOMAIN plan.changes |-> ~ Refused(plan.changes[i])]
           Of(n, k) == {i \in DOMAIN ok : ok[i] /\ plan.changes[i][2] = <<n, k>>}
       IN  /\ topics' = [n \in DOMAIN topics |-> [topics[n] EXCEPT !.parts =
                 [k \in DOMAIN @ |-> IF Of(n, k) = {} THEN @[k]
                                     ELSE After(plan.changes[CHOOSE i \in Of(n, k) : TRUE], @[k])]]]
           /\ done' = {m \in Range(plan.changes) : ~ Refused(m)}
           /\ Reply("ok", Items(plan.changes, ok)) \/ Reply("KafkaError", <<>>)
    /\ UNCHANGED <<configs, seen>>

(* C12: one call for each change, in order; none stops the rest. *)
Change == plan.changes[Len(seen.items) + 1]

Item(ok) ==
    /\ seen' = [seen EXCEPT !.items = Append(@, <<Change[1], Change[2], ok>>)]
    /\ Goto("apply")

Importing == Applying /\ ask.id = "C12" /\ UNCHANGED configs /\ Len(seen.items) < Len(plan.changes)

SkipDelete ==
    /\ Importing
    /\ Change[1] = "delete" /\ ~ ask.allowDelete
    /\ seen' = [seen EXCEPT !.items = Append(@, <<"skipped", Change[2], TRUE>>)]
    /\ Goto("apply")
    /\ UNCHANGED <<topics, done>>

Created(def, leader) ==
    [internal |-> FALSE, config |-> def.config,
     parts |-> [i \in 1..def.partitions |->
        [replicas |-> [k \in 1..def.rf |-> leader + k - 1], adding |-> {}, removing |-> {}, leader |-> leader,
         isr |-> leader..(leader + def.rf - 1), end |-> 0]]]

Effect(n) ==
    CASE Change[1] = "create" -> With(topics, n, Created(Change[3], 1))
      [] Change[1] = "alter" -> [topics EXCEPT ![n].config = Altered(@, Change[3])]
      [] Change[1] = "delete" -> Restrict(topics, DOMAIN topics \ {n})

(* The answer may be lost. *)
ImportOne ==
    /\ Importing
    /\ Change[1] = "delete" => ask.allowDelete
    /\ Existing(Change[2]) <=> Change[1] # "create"
    /\ topics' = Effect(Change[2])
    /\ done' = done \cup {<<Change[1], Change[2]>>}
    /\ \E ok \in BOOLEAN : Item(ok)

ImportFails ==
    /\ Importing
    /\ Change[1] = "delete" => ask.allowDelete
    /\ Item(FALSE)
    /\ UNCHANGED <<topics, done>>

Imported ==
    /\ Applying
    /\ ask.id = "C12" /\ Len(seen.items) = Len(plan.changes)
    /\ Reply("ok", seen.items)
    /\ UNCHANGED <<clusterVars, seen, done>>

-----------------------------------------------------------------------------
(* The others: they create, delete, configure, write and move, and brokers *)
(* fail.                                                                   *)
OthersMove ==
    /\ Others
    /\ UNCHANGED configs
    /\ \E n \in Range(Names) :
       \/ /\ ~ Existing(n)
          /\ topics' = With(topics, n, Created([partitions |-> 1, rf |-> 1, config |-> <<>>], 1))
       \/ Existing(n) /\ topics' = Restrict(topics, DOMAIN topics \ {n})
       \/ /\ Existing(n)
          /\ \E k \in Keys \ Sensitive, v \in {"1", "2"} : topics' = [topics EXCEPT ![n].config = With(@, k, v)]
       \/ /\ Existing(n)
          /\ \E i \in DOMAIN topics[n].parts :
                /\ topics[n].parts[i].end < MaxEnd
                /\ topics' = [topics EXCEPT ![n].parts[i].end = @ + 1]
       \/ /\ Existing(n) /\ Len(topics[n].parts) = 1
          /\ topics' = [topics EXCEPT ![n].parts = Append(@, [@[1] EXCEPT !.end = 0])]

Deprived(p, b) == [p EXCEPT !.isr = @ \ {b}, !.leader = IF @ = b THEN -1 ELSE @]

BrokerFails(b) ==
    /\ Others
    /\ configs' = Restrict(configs, DOMAIN configs \ {b})
    /\ Known(b)
    /\ topics' = [n \in DOMAIN topics |-> [topics[n] EXCEPT !.parts = [i \in DOMAIN @ |-> Deprived(@[i], b)]]]

-----------------------------------------------------------------------------
ClusterStep ==
    \/ Handle \/ ReadOnce \/ List \/ Sample("first") \/ Pause \/ Sample("last") \/ Throughput
    \/ DescribeNext \/ Export \/ PlanImport \/ PlanBrokerConfig
    \/ AlterBroker \/ Reread \/ MovePartitions \/ SkipDelete \/ ImportOne \/ ImportFails \/ Imported

ClusterOthers == OthersMove \/ \E b \in Brokers : BrokerFails(b)

ClusterInit == \E s \in Clusters : topics = s.topics /\ configs = s.configs
-----------------------------------------------------------------------------
Effective(set, k) == IF k \in DOMAIN set THEN set[k] ELSE Default[k]

WasSet(n, k) ==
    \E i \in DOMAIN past :
        n \in DOMAIN past[i].topics /\ Effective(past[i].topics[n].config, k) = ask.wanted[n].config[k]

ImportAsTold ==
    LET items == reply.value
        Failed(n) == \E i \in DOMAIN items : items[i][2] = n /\ ~ items[i][3]
    IN  /\ DOMAIN items = DOMAIN plan.changes
        /\ \A i \in DOMAIN items :
              /\ items[i][2] = plan.changes[i][2]
              /\ items[i][1] = IF plan.changes[i][1] = "delete" /\ ~ ask.allowDelete THEN "skipped" ELSE plan.changes[i][1]
              /\ items[i][3] /\ items[i][1] # "skipped" => <<items[i][1], items[i][2]>> \in done
        /\ \A d \in done :
              /\ \E i \in DOMAIN items : <<items[i][1], items[i][2]>> = d
              /\ d[1] = "delete" => d[2] \notin DOMAIN ask.wanted /\ ask.allowDelete
        /\ \A n \in {x \in DOMAIN ask.wanted : ~ Failed(x)} : \A k \in DOMAIN ask.wanted[n].config :
              WasSet(n, k) \/ (k \in Sensitive /\ ask.wanted[n].config[k] = "")

BrokerAsTold ==
    \E i, j \in DOMAIN past :
        LET at(k) == past[k].configs[ask.broker] IN
        /\ i <= j /\ ask.broker \in DOMAIN past[i].configs \cap DOMAIN past[j].configs
        /\ \A k \in DOMAIN ask.change.set \ ask.change.reset : Effective(at(i), k) = ask.change.set[k]
        /\ DOMAIN at(i) \cap ask.change.reset = {}
        /\ reply.value = Shown(Described(at(j)))

MovesAsTold ==
    \A i \in DOMAIN plan.changes :
        LET m == plan.changes[i] IN
        /\ reply.value[i] = <<m[1], m[2], m \in done>>
        /\ reply.value[i][3] =>
              CASE m[1] = "reassign" -> Part(m[2]).replicas = m[3]
                [] m[1] = "cancel" -> Part(m[2]).adding \cup Part(m[2]).removing = {}
                [] OTHER -> Part(m[2]).leader \in Range(Part(m[2]).replicas)

(* C5, C9 and C12 do what they tell. C12 answers for each change of its    *)
(* plan in turn; a success was made, whatever was made is answered for,    *)
(* nothing is deleted that is wanted or without allowDelete, and unless    *)
(* its topic has failed each wanted key had its value at a time since the  *)
(* request came, but for a secret that is wanted empty, which passes for   *)
(* set.  An answer of C9 tells which partitions were changed, and one of   *)
(* C5 a configuration that was there with or after the change.             *)
(* Refusals and previews change nothing, nor do views.                     *)
AppliedAsTold ==
    /\ reply.code = "ok" /\ ask.id = "C12" => ImportAsTold
    /\ reply.code = "ok" /\ ask.id = "C5" => BrokerAsTold
    /\ reply.code = "ok" /\ ask.id = "C9" => MovesAsTold
    /\ reply.code \notin {"", "ok", "KafkaError", "NotFound"} => done = {}
    /\ ask.id \notin {"C5", "C9", "C12", "S1", "S2"} => done = {}

Total(ends) == FoldFunction(LAMBDA e, sum : e + sum, 0, ends)

EndsAt(i, n) == [k \in DOMAIN past[i].topics[n].parts |-> past[i].topics[n].parts[k].end]

ConfigAt(i, n) == past[i].topics[n].config

Blanked(config) == [k \in DOMAIN config |-> IF k \in Sensitive THEN "" ELSE config[k]]

(* C10's rate is that of two moments, the earlier one first, and if the    *)
(* topic was there from one to the other it is what was written between    *)
(* them, to partitions added meanwhile too.                                *)
ThroughputIsReal ==
    reply.code = "ok" /\ ask.id = "C10" =>
        \A n \in DOMAIN reply.value : \E i, j \in DOMAIN past :
            LET r == reply.value[n] IN
            /\ i <= j /\ n \in DOMAIN past[i].topics \cap DOMAIN past[j].topics
            /\ r.first = EndsAt(i, n) /\ r.last = EndsAt(j, n)
            /\ (\A k \in i..j : n \in DOMAIN past[k].topics) => r.moved = Total(r.last) - Total(r.first)

(* C11 shows the topics of one moment with the overrides of later ones,    *)
(* secrets blank, and to import it where nothing has changed changes       *)
(* nothing.                                                                *)
ExportIsReal ==
    reply.code = "ok" /\ ask.id = "C11" =>
        /\ \E i \in DOMAIN past : \A n \in DOMAIN reply.value :
              /\ n \in DOMAIN past[i].topics /\ ~ past[i].topics[n].internal
              /\ reply.value[n].partitions = Len(past[i].topics[n].parts)
              /\ \E j \in i..Len(past) :
                    n \in DOMAIN past[j].topics /\ reply.value[n].config = Blanked(ConfigAt(j, n))
        /\ Len(past) = 1 =>
              LET again == ImportChanges(reply.value, Public, [n \in Public |-> Described(topics[n].config)])
              IN  \A i \in DOMAIN again : again[i][1] = "delete" /\ ask.pattern # ""

(* C4 counts all that is wrong, and lists it all unless it says that it    *)
(* does not.                                                               *)
HealthIsReal ==
    reply.code = "ok" /\ ask.id = "C4" =>
        LET bad(issue) == {tp \in Placed : HasIssue(Part(tp), issue)}
            listed == Range(reply.value.affected)
        IN  \A issue \in Issues :
               /\ reply.value.counts[issue] = Cardinality(bad(issue))
               /\ {e \in listed : e[3] = issue} \subseteq {Append(tp, issue) : tp \in bad(issue)}
               /\ ~ reply.value.truncated => {Append(tp, issue) : tp \in bad(issue)} \subseteq listed
=============================================================================
