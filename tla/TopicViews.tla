----------------------------- MODULE TopicViews -----------------------------
(***************************************************************************)
(* T1 (list topics), T2 (describe a topic) and T3 (its size on disk), from *)
(* their HTTP handlers to their replies, over the cluster of ClusterAdmin, *)
(* which others change meanwhile.  T4, the count in a window of time, is   *)
(* in Reads, where records have a time.                                    *)
(***************************************************************************)
EXTENDS ClusterAdmin, Paging

CONSTANTS PageDefault, PageCeiling

TopicIds == {"T1", "T2", "T3"}

IsTopicAsk(a) ==
    /\ a.topic \in Range(Names) \cup {""} /\ a.pattern \in Range(Names) \cup {"", "("}
    /\ a.internal \in BOOLEAN
    /\ a.page \in 1..IntMax /\ a.pageSize \in Int /\ a.pageSize <= IntMax

ASSUME TopicViewsAssumption ==
    /\ \A a \in Asks : a.id \in TopicIds => IsTopicAsk(a)
    /\ PageDefault \in 1..IntMax /\ PageCeiling \in Nat

(* The handlers. *)
PageSize == IF ask.pageSize = 0 THEN PageDefault ELSE ask.pageSize

HandleView ==
    /\ Reading("http")
    /\ IF ask.id = "T1" /\ PageSize > PageCeiling THEN Reply("BoundExceeded", <<>>)
       ELSE IF ask.id = "T1" /\ ask.pattern = "(" THEN Reply("InvalidRegex", <<>>)
       ELSE Goto(IF ask.id = "T2" THEN "parts" ELSE "look")
    /\ UNCHANGED <<seen, plan>>

-----------------------------------------------------------------------------
(* T1: a page of the topics that fit, by name.  The replication factor is  *)
(* that of any partition.                                                  *)
Fitting ==
    Sorted({n \in DOMAIN topics :
        (ask.internal \/ ~ topics[n].internal) /\ ask.pattern \in {"", n}})

Factors(n) == {Len(p.replicas) : p \in Range(topics[n].parts)}

ListTopics ==
    /\ Reading("look")
    /\ ask.id = "T1"
    /\ IF Panics(ask.page, PageSize, Len(Fitting)) THEN Reply("aborted", <<>>)
       ELSE \E rf \in [DOMAIN topics -> UNION {Factors(n) : n \in DOMAIN topics}] :
              /\ \A n \in DOMAIN topics : rf[n] \in Factors(n)
              /\ LET page == PageOf(Fitting, ask.page, PageSize)
                     Row(n) == [name |-> n, partitions |-> Len(topics[n].parts), rf |-> rf[n]]
                 IN  Reply("ok", [items |-> [i \in DOMAIN page |-> Row(page[i])], total |-> Len(Fitting)])
    /\ UNCHANGED <<seen, plan>>

-----------------------------------------------------------------------------
(* T2: the partitions, then where each begins, then where it ends, then    *)
(* the configuration.  The partitions read first are those reported, and   *)
(* an offset that a later call does not have is 0.                         *)
Describing(step) == Reading(step) /\ ask.id = "T2" /\ UNCHANGED plan

DescribeParts ==
    /\ Describing("parts")
    /\ IF ~ Existing(ask.topic) THEN Reply("NotFound", <<>>) /\ UNCHANGED seen
       ELSE seen' = [seen EXCEPT !.listed = topics[ask.topic].parts] /\ Goto("begins")

Offsets(step, next, Keep(_)) ==
    /\ Describing(step)
    /\ IF ~ Existing(ask.topic) THEN Reply("NotFound", <<>>) /\ UNCHANGED seen
       ELSE IF Leaderless(ask.topic) THEN Reply("KafkaError", <<>>) /\ UNCHANGED seen
       ELSE Keep(topics[ask.topic].parts) /\ Goto(next)

(* A log may have lost any of its records, from its beginning on. *)
DescribeBegins ==
    Offsets("begins", "ends", LAMBDA parts :
        \E b \in [DOMAIN parts -> 0..MaxEnd] :
            /\ \A i \in DOMAIN parts : b[i] <= parts[i].end
            /\ seen' = [seen EXCEPT !.first = b])

DescribeEnds ==
    Offsets("ends", "configs", LAMBDA parts : seen' = [seen EXCEPT !.last = Ends(ask.topic)])

OrZero(offsets, i) == IF i \in DOMAIN offsets THEN offsets[i] ELSE 0

Detail(i) ==
    LET p == seen.listed[i]
        b == OrZero(seen.first, i)
        e == OrZero(seen.last, i)
    IN  [leader |-> p.leader, replicas |-> p.replicas, isr |-> p.isr, begin |-> b, end |-> e, approx |-> e - b]

DescribeConfigs ==
    /\ Describing("configs")
    /\ IF ~ Existing(ask.topic) THEN Reply("NotFound", <<>>)
       ELSE LET parts == [i \in DOMAIN seen.listed |-> Detail(i)]
            IN  Reply("ok", [parts |-> parts,
                             approx |-> FoldFunction(LAMBDA p, sum : p.approx + sum, 0, parts),
                             configs |-> Shown(Described(topics[ask.topic].config))])
    /\ UNCHANGED seen

-----------------------------------------------------------------------------
(* T3: what the brokers hold of the topic, by partition; nothing, and no   *)
(* error, of a topic that does not exist.                                  *)
Replicas(i) ==
    {[broker |-> b, dir |-> Dir[b, ask.topic], bytes |-> topics[ask.topic].parts[i].end] :
        b \in Range(topics[ask.topic].parts[i].replicas) \cap DOMAIN configs}

Bytes(replicas) == FoldSet(LAMBDA r, sum : r.bytes + sum, 0, replicas)

DescribeSize ==
    /\ Reading("look")
    /\ ask.id = "T3"
    /\ LET held == IF Existing(ask.topic)
                   THEN {i \in DOMAIN topics[ask.topic].parts : Replicas(i) # {}} ELSE {}
           parts == [i \in held |-> [bytes |-> Bytes(Replicas(i)), replicas |-> Replicas(i)]]
       IN  Reply("ok", [parts |-> parts, total |-> FoldFunction(LAMBDA p, sum : p.bytes + sum, 0, parts)])
    /\ UNCHANGED <<seen, plan>>

TopicStep ==
    \/ HandleView \/ ListTopics \/ DescribeParts \/ DescribeBegins \/ DescribeEnds
    \/ DescribeConfigs \/ DescribeSize
-----------------------------------------------------------------------------
(* What each place of the pages of a listing holds: the name that as many  *)
(* names come before.                                                      *)
IsPageOf(value) ==
    LET fits == {i \in DOMAIN Names : Existing(Names[i])
                     /\ (ask.internal \/ ~ topics[Names[i]].internal) /\ ask.pattern \in {"", Names[i]}}
        Rank(i) == Cardinality({j \in fits : j < i})
        before == (ask.page - 1) * PageSize
    IN  /\ value.total = Cardinality(fits)
        /\ {<<k, value.items[k].name>> : k \in DOMAIN value.items}
             = {<<Rank(i) + 1 - before, Names[i]>> : i \in {x \in fits : before <= Rank(x) /\ Rank(x) < before + PageSize}}

(* The pages of T1 show each topic that fits once, in the order of the     *)
(* names, if they are no more than an int can count.                       *)
PagesAreReal ==
    reply.code = "ok" /\ ask.id = "T1" /\ PageSize > 0 /\ (ask.page - 1) * PageSize <= IntMax => IsPageOf(reply.value)

(* T2 shows the partitions of one moment, the end offsets of that or a     *)
(* later one (0 for those it does not have) and the configuration of a     *)
(* still later one, and counts no fewer than no messages in a topic that   *)
(* was there all along.                                                    *)
DescriptionIsReal ==
    reply.code = "ok" /\ ask.id = "T2" =>
        LET There(i) == ask.topic \in DOMAIN past[i].topics
            shown == reply.value.parts
        IN  /\ \E i, j, k \in DOMAIN past :
                  /\ i <= j /\ j <= k /\ There(i) /\ There(j) /\ There(k)
                  /\ \A x \in {"leader", "replicas", "isr"} :
                        [n \in DOMAIN shown |-> shown[n][x]]
                          = [n \in DOMAIN past[i].topics[ask.topic].parts |-> past[i].topics[ask.topic].parts[n][x]]
                  /\ \A n \in DOMAIN shown : shown[n].end = OrZero(EndsAt(j, ask.topic), n)
                  /\ reply.value.configs = Shown(Described(ConfigAt(k, ask.topic)))
            /\ (\A i \in DOMAIN past : There(i)) => \A n \in DOMAIN shown : shown[n].approx >= 0

(* The views show what there was: T1 and T2, and C4, C10 and C11 of        *)
(* ClusterAdmin.                                                           *)
ViewIsReal == ThroughputIsReal /\ ExportIsReal /\ HealthIsReal /\ PagesAreReal /\ DescriptionIsReal
=============================================================================
