------------------------------- MODULE Topics -------------------------------
(***************************************************************************)
(* The topics of the Kafka cluster as the gateway's admin port sees them,  *)
(* and what everybody else does to them: nothing in the gateway owns a     *)
(* topic, so between any two calls of a command another client can create, *)
(* delete, grow, fill or trim it.  A topic created again under the same    *)
(* name is another topic: it has another id.                               *)
(***************************************************************************)
EXTENDS Integers, FiniteSets

CONSTANTS
    Names,          \* the topic names
    Values,         \* the values of the one configuration key a command alters
    MaxPartitions,  \* bound: partitions of a topic
    MaxOffset,      \* bound: records ever appended to a partition
    MaxBirths,      \* bound: topics ever created
    Gone            \* no topic of that name

ASSUME TopicsAssumption ==
    /\ MaxPartitions \in Nat \ {0}
    /\ MaxOffset \in Nat
    /\ MaxBirths \in Nat \ {0}
    /\ Values # {}

VARIABLES
    topics,   \* the topic of each name, or Gone
    births    \* topics created so far

topicVars == <<topics, births>>

Log == {l \in [begin : 0..MaxOffset, end : 0..MaxOffset] : l.begin <= l.end}

Topic ==
    [id : 1..MaxBirths, config : Values,
     parts : UNION {[0..(k - 1) -> Log] : k \in 1..MaxPartitions}]

TopicsTypeOK ==
    /\ topics \in [Names -> Topic \cup {Gone}]
    /\ births \in 0..MaxBirths

-----------------------------------------------------------------------------
Exists(n) == topics[n] # Gone

Existing == {n \in Names : Exists(n)}

PartsOf(n) == DOMAIN topics[n].parts

Count(n) == Cardinality(PartsOf(n))

EmptyLog == [begin |-> 0, end |-> 0]

Born(n, k, v) ==
    /\ ~ Exists(n)
    /\ births < MaxBirths
    /\ births' = births + 1
    /\ topics' = [topics EXCEPT ![n] =
           [id |-> births + 1, config |-> v, parts |-> [p \in 0..(k - 1) |-> EmptyLog]]]

Removed(S) ==
    /\ topics' = [n \in Names |-> IF n \in S THEN Gone ELSE topics[n]]
    /\ UNCHANGED births

Grown(n, k) ==
    /\ topics' = [topics EXCEPT ![n].parts =
           [p \in 0..(k - 1) |-> IF p \in PartsOf(n) THEN topics[n].parts[p] ELSE EmptyLog]]
    /\ UNCHANGED births

Configured(n, v) ==
    /\ topics' = [topics EXCEPT ![n].config = v]
    /\ UNCHANGED births

(* DeleteRecords: the broker reads -1 as the high watermark, refuses an    *)
(* offset beyond it, and never lowers a begin offset.                      *)
CanTrim(n, p, at) ==
    /\ p \in PartsOf(n)
    /\ at = -1 \/ at \in 0..topics[n].parts[p].end

Trimmed(log, at) ==
    [log EXCEPT !.begin = IF at = -1 THEN log.end ELSE IF at > @ THEN at ELSE @]

TrimmedAll(n, to) ==
    /\ topics' = [topics EXCEPT ![n].parts =
           [p \in PartsOf(n) |-> IF p \in DOMAIN to THEN Trimmed(@[p], to[p]) ELSE @[p]]]
    /\ UNCHANGED births

-----------------------------------------------------------------------------
(* The other clients of the cluster, and its own retention.                *)
OtherCreates(n) == \E v \in Values : \E k \in 1..MaxPartitions : Born(n, k, v)

OtherDeletes(n) == Exists(n) /\ Removed({n})

OtherGrows(n) ==
    /\ Exists(n)
    /\ Count(n) < MaxPartitions
    /\ Grown(n, Count(n) + 1)

OtherProduces(n) ==
    /\ Exists(n)
    /\ \E p \in PartsOf(n) :
          /\ topics[n].parts[p].end < MaxOffset
          /\ topics' = [topics EXCEPT ![n].parts[p].end = @ + 1]
    /\ UNCHANGED births

Retention(n) ==
    /\ Exists(n)
    /\ \E p \in PartsOf(n) :
          /\ topics[n].parts[p].begin < topics[n].parts[p].end
          /\ topics' = [topics EXCEPT ![n].parts[p].begin = @ + 1]
    /\ UNCHANGED births

Others ==
    \E n \in Names :
        \/ OtherCreates(n) \/ OtherDeletes(n) \/ OtherGrows(n)
        \/ OtherProduces(n) \/ Retention(n)
=============================================================================
