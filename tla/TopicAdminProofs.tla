-------------------------- MODULE TopicAdminProofs --------------------------
(***************************************************************************)
(* The topic commands, for every number of requests, names, partitions and *)
(* offsets: what is deleted was confirmed, what is truncated was planned,  *)
(* and what a bulk answer calls done was done.                             *)
(***************************************************************************)
EXTENDS TopicAdmin, TLAPS, FiniteSetTheorems

(* No topic has an id that was not given out. *)
IdsBorn == \A n \in Names : Exists(n) => topics[n].id <= births

(* Which commands reach which port call. *)
Path(r) ==
    /\ pc[r] # "idle" => call[r] # NoCall
    /\ pc[r] \in {"purge", "ends0"} => Op(r) = "T12"
    /\ pc[r] = "describe" => Op(r) \in {"T7", "T10", "T11", "T12"}
    /\ pc[r] \in {"starts", "ends"} => Op(r) \in {"T7", "T11", "T12"}
    /\ pc[r] = "configs" => Op(r) \in {"T7", "T9"}

(* Nothing happens to the cluster, or to an item, before the apply. *)
NotYet(r) ==
    /\ pc[r] \notin {"reread", "done"} /\ ~ (pc[r] = "apply" /\ Op(r) = "T6")
          => effect[r] = {} /\ items[r] = << >>
    /\ pc[r] = "idle" => seen[r].ids = {}

HasPlan(r) == pc[r] \in {"confirm", "attempt", "apply"} /\ Op(r) \notin {"T5", "T6"}

(* The plan that is applied is the one that was confirmed, and a           *)
(* truncation is the one that was computed from what was read.             *)
PlanKept(r) ==
    /\ HasPlan(r) =>
          /\ plan[r].names = plan[r].confirm
          /\ pc[r] # "confirm" => call[r].confirm = plan[r].confirm
          /\ Op(r) \in {"T11", "T12"} =>
                /\ plan[r].targets = seen[r].targets
                /\ plan[r].affected = Affected(seen[r])
                /\ Truncatable(seen[r], seen[r].end)
    /\ Op(r) = "T12" /\ pc[r] \notin {"idle", "purge", "ends0", "done"} =>
          \A p \in DOMAIN seen[r].targets : seen[r].targets[p] >= 0

(* A begin offset that was read of a topic that is still there bounds its  *)
(* begin offset from below: only another topic can start lower.            *)
SeenBounds(r) ==
    /\ \A i \in seen[r].ids : i <= births
    /\ seen[r].ids = {} => DOMAIN seen[r].begin = {}
    /\ pc[r] # "idle" /\ Exists(Name(r)) /\ seen[r].ids = {topics[Name(r)].id} =>
          \A p \in DOMAIN seen[r].begin :
              p \in PartsOf(Name(r)) /\ seen[r].begin[p] <= topics[Name(r)].parts[p].begin

(* An item called SUCCEEDED has its trace in effect. *)
ItemsTrue(r) ==
    /\ pc[r] = "apply" /\ Op(r) = "T6" => items[r] \in Seq({"SUCCEEDED", "FAILED"})
    /\ \A i \in DOMAIN items[r] :
          items[r][i] = "SUCCEEDED" =>
              IF Op(r) = "T8"
              THEN \E e \in Effects(r, "delete") : e.name = i
              ELSE \E e \in Effects(r, "create") : e.name = call[r].items[i]

AdminInv ==
    /\ TopicAdminTypeOK
    /\ IdsBorn
    /\ \A r \in Requests :
          Path(r) /\ NotYet(r) /\ PlanKept(r) /\ SeenBounds(r) /\ ItemsTrue(r)
    /\ DeletesOnlyTheConfirmed
    /\ RemovesAsPlanned
    /\ PurgeSparesNewRecords

-----------------------------------------------------------------------------
(* What a step on topics may do: a name has the topic it had, with begin   *)
(* offsets that did not fall, or a topic that is new.                      *)
TopicMoves ==
    /\ TopicsTypeOK'
    /\ births <= births'
    /\ \A n \in Names : Exists(n)' =>
          \/ topics'[n].id > births /\ topics'[n].id <= births'
          \/ /\ Exists(n)
             /\ topics'[n].id = topics[n].id
             /\ \A p \in PartsOf(n) :
                   /\ p \in DOMAIN topics'[n].parts
                   /\ topics[n].parts[p].begin <= topics'[n].parts[p].begin

(* A log is its begin and end, in order and within the bound. *)
LEMMA LogType == \A l : l \in Log <=> /\ l = [begin |-> l.begin, end |-> l.end]
                                      /\ l.begin \in 0..MaxOffset /\ l.end \in 0..MaxOffset
                                      /\ l.begin <= l.end
BY DEF Log

(* A topic has partitions 0 to k - 1, each with a log. *)
LEMMA TopicShape ==
    ASSUME TopicsTypeOK, NEW n \in Names, Exists(n)
    PROVE  /\ topics[n] \in Topic
           /\ Count(n) \in 1..MaxPartitions
           /\ PartsOf(n) = 0..(Count(n) - 1)
           /\ topics[n].parts \in [PartsOf(n) -> Log]
<1>1. topics[n] \in Topic
  BY DEF TopicsTypeOK, Exists
<1>2. PICK k \in 1..MaxPartitions : topics[n].parts \in [0..(k - 1) -> Log]
  BY <1>1 DEF Topic
<1>3. PartsOf(n) = 0..(k - 1)
  BY <1>2 DEF PartsOf
<1>4. k \in Nat /\ k > 0
  BY <1>2, TopicsAssumption
<1>5. Cardinality(0..(k - 1)) = k
  <2>1. 0 \in Int /\ k - 1 \in Int /\ ~ (0 > k - 1)
    BY <1>4
  <2>2. Cardinality(0..(k - 1)) = k - 1 - 0 + 1
    BY <2>1, FS_Interval
  <2> QED
    BY <2>2, <1>4
<1> QED
  BY <1>1, <1>2, <1>3, <1>5 DEF Count

(* What a topic is built from. *)
LEMMA TopicBuild ==
    ASSUME NEW k \in 1..MaxPartitions, NEW f \in [0..(k - 1) -> Log],
           NEW i \in 1..MaxBirths, NEW v \in Values
    PROVE  [id |-> i, config |-> v, parts |-> f] \in Topic
BY DEF Topic

(* A new partition is a log. *)
LEMMA EmptyLogType == EmptyLog \in Log
BY TopicsAssumption DEF EmptyLog, Log

(* A creation gives a name a topic with a new id. *)
LEMMA BornMoves ==
    ASSUME TopicsTypeOK, NEW n \in Names, NEW k \in 1..MaxPartitions, NEW v \in Values,
           Born(n, k, v)
    PROVE  TopicMoves /\ births < MaxBirths
<1> DEFINE T == [id |-> births + 1, config |-> v, parts |-> [p \in 0..(k - 1) |-> EmptyLog]]
<1>1. births \in Nat /\ births < MaxBirths /\ births' = births + 1 /\ ~ Exists(n)
  BY TopicsAssumption DEF TopicsTypeOK, Born
<1>2. topics' = [topics EXCEPT ![n] = T]
  BY DEF Born
<1>3. T \in Topic
  <2>1. [p \in 0..(k - 1) |-> EmptyLog] \in [0..(k - 1) -> Log]
    BY EmptyLogType
  <2>2. births + 1 \in 1..MaxBirths
    BY <1>1, TopicsAssumption
  <2> QED
    BY <2>1, <2>2, TopicBuild
<1>4. TopicsTypeOK'
  BY <1>1, <1>2, <1>3, TopicsAssumption DEF TopicsTypeOK
<1>5. \A m \in Names : m # n => topics'[m] = topics[m]
  BY <1>2 DEF TopicsTypeOK
<1>6. topics'[n].id = births + 1
  BY <1>2 DEF TopicsTypeOK
<1>7. \A m \in Names : Exists(m) => topics[m].parts \in [PartsOf(m) -> Log]
  BY TopicShape
<1>8. \A m \in Names : Exists(m) => \A p \in PartsOf(m) : topics[m].parts[p].begin \in Int
  BY <1>7, LogType
<1> QED
  BY <1>1, <1>4, <1>5, <1>6, <1>8 DEF TopicMoves, Exists, PartsOf

(* A deletion leaves every other name its topic. *)
LEMMA RemovedMoves ==
    ASSUME TopicsTypeOK, NEW S, Removed(S)
    PROVE  TopicMoves
<1>1. TopicsTypeOK' /\ births' = births /\ births \in Int
  BY DEF TopicsTypeOK, Removed
<1>2. \A m \in Names : Exists(m)' => topics'[m] = topics[m]
  BY DEF Removed, Exists
<1>3. \A m \in Names : Exists(m) => \A p \in PartsOf(m) : topics[m].parts[p].begin \in Int
  BY TopicShape, LogType
<1> QED
  BY <1>1, <1>2, <1>3 DEF TopicMoves, Exists, PartsOf

(* A step that gives one topic other logs, none of them with a lower begin. *)
LEMMA LogsMove ==
    ASSUME TopicsTypeOK, NEW n \in Names, Exists(n), NEW k \in 1..MaxPartitions, k >= Count(n),
           NEW f \in [0..(k - 1) -> Log], NEW v \in Values,
           \A p \in PartsOf(n) : topics[n].parts[p].begin <= f[p].begin,
           topics' = [topics EXCEPT ![n] = [id |-> topics[n].id, config |-> v, parts |-> f]],
           births' = births
    PROVE  TopicMoves
<1> DEFINE T == [id |-> topics[n].id, config |-> v, parts |-> f]
<1>1. topics[n] \in Topic /\ topics[n].id \in 1..MaxBirths
  BY TopicShape DEF Topic
<1>2. T \in Topic
  BY <1>1, TopicBuild
<1>3. TopicsTypeOK'
  BY <1>2 DEF TopicsTypeOK
<1>4. \A m \in Names : m # n => topics'[m] = topics[m]
  BY DEF TopicsTypeOK
<1>5. topics'[n] = T
  BY DEF TopicsTypeOK
<1>6. DOMAIN topics'[n].parts = 0..(k - 1)
  BY <1>5
<1>7. PartsOf(n) \subseteq 0..(k - 1)
  <2>1. PartsOf(n) = 0..(Count(n) - 1) /\ Count(n) \in 1..MaxPartitions
    BY TopicShape
  <2> QED
    BY <2>1, TopicsAssumption
<1>8. \A m \in Names : Exists(m) => \A p \in PartsOf(m) : topics[m].parts[p].begin \in Int
  BY TopicShape, LogType
<1>9. births \in Int
  BY DEF TopicsTypeOK
<1>10. \A m \in Names \ {n} : Exists(m)' => Exists(m) /\ topics'[m] = topics[m]
  BY <1>4 DEF Exists
<1>11. \A m \in Names \ {n} : Exists(m)' =>
          /\ Exists(m) /\ topics'[m].id = topics[m].id
          /\ \A p \in PartsOf(m) : /\ p \in DOMAIN topics'[m].parts
                                   /\ topics[m].parts[p].begin <= topics'[m].parts[p].begin
  BY <1>8, <1>10 DEF PartsOf
<1>12. /\ topics'[n].id = topics[n].id
       /\ \A p \in PartsOf(n) : /\ p \in DOMAIN topics'[n].parts
                                /\ topics[n].parts[p].begin <= topics'[n].parts[p].begin
  BY <1>5, <1>6, <1>7
<1> QED
  BY <1>3, <1>9, <1>11, <1>12 DEF TopicMoves

(* Replacing the partitions of a topic, as every EXCEPT on parts does. *)
LEMMA PartsReplaced ==
    ASSUME TopicsTypeOK, NEW n \in Names, Exists(n), NEW f
    PROVE  [topics EXCEPT ![n].parts = f] =
           [topics EXCEPT ![n] = [id |-> topics[n].id, config |-> topics[n].config, parts |-> f]]
<1>1. topics[n] \in Topic
  BY TopicShape
<1>2. [topics[n] EXCEPT !.parts = f] =
      [id |-> topics[n].id, config |-> topics[n].config, parts |-> f]
  BY <1>1 DEF Topic
<1> QED
  BY <1>2 DEF TopicsTypeOK

(* A topic has a configuration value. *)
LEMMA ConfigType == \A n \in Names : TopicsTypeOK /\ Exists(n) => topics[n].config \in Values
BY TopicShape DEF Topic

(* Configuring moves no log. *)
LEMMA ConfiguredMoves ==
    ASSUME TopicsTypeOK, NEW n \in Names, Exists(n), NEW v \in Values, Configured(n, v)
    PROVE  TopicMoves
<1>1. topics[n] \in Topic /\ Count(n) \in 1..MaxPartitions /\ PartsOf(n) = 0..(Count(n) - 1)
      /\ topics[n].parts \in [0..(Count(n) - 1) -> Log]
  BY TopicShape
<1>2. [topics[n] EXCEPT !.config = v] =
      [id |-> topics[n].id, config |-> v, parts |-> topics[n].parts]
  BY <1>1 DEF Topic
<1>3. topics' = [topics EXCEPT ![n] = [id |-> topics[n].id, config |-> v, parts |-> topics[n].parts]]
  BY <1>2 DEF Configured, TopicsTypeOK
<1>4. \A p \in PartsOf(n) : topics[n].parts[p].begin <= topics[n].parts[p].begin
  BY <1>1, LogType
<1>5. births' = births /\ Count(n) >= Count(n)
  BY <1>1, TopicsAssumption DEF Configured
<1> QED
  BY <1>1, <1>3, <1>4, <1>5, LogsMove

(* Growing adds partitions and moves no log. *)
LEMMA GrownMoves ==
    ASSUME TopicsTypeOK, NEW n \in Names, Exists(n), NEW k \in 1..MaxPartitions, k >= Count(n),
           Grown(n, k)
    PROVE  TopicMoves
<1> DEFINE f == [p \in 0..(k - 1) |-> IF p \in PartsOf(n) THEN topics[n].parts[p] ELSE EmptyLog]
<1>1. /\ topics[n] \in Topic /\ Count(n) \in 1..MaxPartitions /\ PartsOf(n) = 0..(Count(n) - 1)
      /\ topics[n].parts \in [PartsOf(n) -> Log]
  BY TopicShape
<1>2. f \in [0..(k - 1) -> Log]
  BY <1>1, EmptyLogType
<1>3. \A p \in PartsOf(n) : p \in 0..(k - 1)
  BY <1>1, TopicsAssumption
<1>4. \A p \in PartsOf(n) : topics[n].parts[p].begin <= f[p].begin
  BY <1>1, <1>3, LogType
<1>5. topics' = [topics EXCEPT ![n].parts = f] /\ births' = births
  BY DEF Grown
<1>6. topics' = [topics EXCEPT ![n] =
          [id |-> topics[n].id, config |-> topics[n].config, parts |-> f]]
  BY <1>5, PartsReplaced
<1> HIDE DEF f
<1> QED
  BY <1>2, <1>4, <1>5, <1>6, LogsMove, ConfigType

(* A truncation the broker accepts stays within the log. *)
LEMMA TrimmedType ==
    ASSUME NEW l \in Log, NEW at, at = -1 \/ at \in 0..l.end
    PROVE  /\ Trimmed(l, at) \in Log
           /\ l.begin <= Trimmed(l, at).begin
           /\ at >= 0 => Trimmed(l, at).begin = IF at > l.begin THEN at ELSE l.begin
<1>1. l.begin \in 0..MaxOffset /\ l.end \in 0..MaxOffset /\ l.begin <= l.end
      /\ l = [begin |-> l.begin, end |-> l.end]
  BY LogType
<1> DEFINE b == IF at = -1 THEN l.end ELSE IF at > l.begin THEN at ELSE l.begin
<1>2. Trimmed(l, at) = [begin |-> b, end |-> l.end]
  BY <1>1 DEF Trimmed
<1>3. b \in 0..MaxOffset /\ b <= l.end /\ l.begin <= b
  BY <1>1, TopicsAssumption
<1>4. Trimmed(l, at) \in Log
  BY <1>1, <1>2, <1>3 DEF Log
<1> QED
  BY <1>2, <1>3, <1>4

(* Truncating raises begin offsets. *)
LEMMA TrimmedMoves ==
    ASSUME TopicsTypeOK, NEW n \in Names, Exists(n), NEW to,
           \A p \in DOMAIN to : CanTrim(n, p, to[p]), TrimmedAll(n, to)
    PROVE  TopicMoves
<1> DEFINE f == [p \in PartsOf(n) |->
                    IF p \in DOMAIN to THEN Trimmed(topics[n].parts[p], to[p]) ELSE topics[n].parts[p]]
<1>1. /\ topics[n] \in Topic /\ Count(n) \in 1..MaxPartitions /\ PartsOf(n) = 0..(Count(n) - 1)
      /\ topics[n].parts \in [PartsOf(n) -> Log]
  BY TopicShape
<1>2. \A p \in PartsOf(n) : f[p] \in Log /\ topics[n].parts[p].begin <= f[p].begin
  <2> SUFFICES ASSUME NEW p \in PartsOf(n)
               PROVE  f[p] \in Log /\ topics[n].parts[p].begin <= f[p].begin
    OBVIOUS
  <2>1. topics[n].parts[p] \in Log
    BY <1>1
  <2>2. CASE p \in DOMAIN to
    <3>1. to[p] = -1 \/ to[p] \in 0..topics[n].parts[p].end
      BY <2>2 DEF CanTrim
    <3> QED
      BY <2>1, <2>2, <3>1, TrimmedType
  <2>3. CASE p \notin DOMAIN to
    BY <2>1, <2>3, LogType
  <2> QED
    BY <2>2, <2>3
<1>3. f \in [0..(Count(n) - 1) -> Log]
  BY <1>1, <1>2
<1>4. topics' = [topics EXCEPT ![n].parts = f] /\ births' = births
  BY DEF TrimmedAll
<1>5. topics' = [topics EXCEPT ![n] =
          [id |-> topics[n].id, config |-> topics[n].config, parts |-> f]]
  BY <1>4, PartsReplaced
<1> HIDE DEF f
<1>6. Count(n) >= Count(n)
  BY <1>1, TopicsAssumption
<1> QED
  BY <1>1, <1>2, <1>3, <1>4, <1>5, <1>6, LogsMove, ConfigType

(* Two steps of others on one partition. *)
LEMMA LogReplacedMoves ==
    ASSUME TopicsTypeOK, NEW n \in Names, Exists(n), NEW p \in PartsOf(n), NEW l \in Log,
           topics[n].parts[p].begin <= l.begin,
           topics' = [topics EXCEPT ![n].parts = [@ EXCEPT ![p] = l]], births' = births
    PROVE  TopicMoves
<1> DEFINE f == [topics[n].parts EXCEPT ![p] = l]
<1>1. /\ topics[n] \in Topic /\ Count(n) \in 1..MaxPartitions /\ PartsOf(n) = 0..(Count(n) - 1)
      /\ topics[n].parts \in [PartsOf(n) -> Log]
  BY TopicShape
<1>2. f \in [0..(Count(n) - 1) -> Log]
  BY <1>1
<1>3. \A q \in PartsOf(n) : topics[n].parts[q].begin <= f[q].begin
  BY <1>1, LogType, SMTT(30)
<1>4. topics' = [topics EXCEPT ![n].parts = f]
  BY DEF TopicsTypeOK
<1>5. topics' = [topics EXCEPT ![n] =
          [id |-> topics[n].id, config |-> topics[n].config, parts |-> f]]
  BY <1>4, PartsReplaced
<1> HIDE DEF f
<1>6. Count(n) >= Count(n)
  BY <1>1, TopicsAssumption
<1> QED
  BY <1>1, <1>2, <1>3, <1>5, <1>6, LogsMove, ConfigType

(* The other clients, and retention, move topics likewise. *)
LEMMA OthersMove ==
    ASSUME TopicsTypeOK, Others
    PROVE  TopicMoves
<1> SUFFICES ASSUME NEW n \in Names,
                    \/ OtherCreates(n) \/ OtherDeletes(n) \/ OtherGrows(n)
                    \/ OtherProduces(n) \/ Retention(n)
             PROVE  TopicMoves
  BY DEF Others
<1>1. CASE OtherCreates(n)
  BY <1>1, BornMoves DEF OtherCreates
<1>2. CASE OtherDeletes(n)
  BY <1>2, RemovedMoves DEF OtherDeletes
<1>3. CASE OtherGrows(n)
  <2>1. Exists(n) /\ Count(n) < MaxPartitions /\ Grown(n, Count(n) + 1)
    BY <1>3 DEF OtherGrows
  <2>2. Count(n) \in 1..MaxPartitions
    BY <2>1, TopicShape
  <2>3. Count(n) + 1 \in 1..MaxPartitions /\ Count(n) + 1 >= Count(n)
    BY <2>1, <2>2, TopicsAssumption
  <2> QED
    BY <2>1, <2>3, GrownMoves
<1>4. CASE OtherProduces(n)
  <2>1. PICK p \in PartsOf(n) :
          /\ topics[n].parts[p].end < MaxOffset
          /\ topics' = [topics EXCEPT ![n].parts[p].end = @ + 1]
    BY <1>4 DEF OtherProduces
  <2>2. Exists(n) /\ births' = births
    BY <1>4 DEF OtherProduces
  <2> DEFINE l == topics[n].parts[p]
             m == [l EXCEPT !.end = @ + 1]
  <2>3. l \in Log
    BY <2>2, TopicShape
  <2>4. m = [begin |-> l.begin, end |-> l.end + 1]
    BY <2>3, LogType
  <2>5. m \in Log /\ l.begin <= m.begin
    <3>1. l.begin \in 0..MaxOffset /\ l.end \in 0..MaxOffset /\ l.begin <= l.end
      BY <2>3, LogType
    <3>2. l.end + 1 \in 0..MaxOffset /\ l.begin <= l.end + 1 /\ l.begin <= l.begin
      BY <3>1, <2>1, TopicsAssumption
    <3> QED
      BY <3>1, <3>2, <2>4 DEF Log
  <2>6. topics' = [topics EXCEPT ![n].parts = [@ EXCEPT ![p] = m]]
    BY <2>1
  <2> HIDE DEF m
  <2> QED
    BY <2>2, <2>5, <2>6, LogReplacedMoves
<1>5. CASE Retention(n)
  <2>1. PICK p \in PartsOf(n) :
          /\ topics[n].parts[p].begin < topics[n].parts[p].end
          /\ topics' = [topics EXCEPT ![n].parts[p].begin = @ + 1]
    BY <1>5 DEF Retention
  <2>2. Exists(n) /\ births' = births
    BY <1>5 DEF Retention
  <2> DEFINE l == topics[n].parts[p]
             m == [l EXCEPT !.begin = @ + 1]
  <2>3. l \in Log
    BY <2>2, TopicShape
  <2>4. m = [begin |-> l.begin + 1, end |-> l.end]
    BY <2>3, LogType
  <2>5. m \in Log /\ l.begin <= m.begin
    <3>1. l.begin \in 0..MaxOffset /\ l.end \in 0..MaxOffset /\ l.begin <= l.end
      BY <2>3, LogType
    <3>2. l.begin + 1 \in 0..MaxOffset /\ l.begin + 1 <= l.end /\ l.begin <= l.begin + 1
      BY <3>1, <2>1, TopicsAssumption
    <3> QED
      BY <3>1, <3>2, <2>4 DEF Log
  <2>6. topics' = [topics EXCEPT ![n].parts = [@ EXCEPT ![p] = m]]
    BY <2>1
  <2> HIDE DEF m
  <2> QED
    BY <2>2, <2>5, <2>6, LogReplacedMoves
<1> QED
  BY <1>1, <1>2, <1>3, <1>4, <1>5

-----------------------------------------------------------------------------
(* The requests.  A handler changes nothing of another request. *)
Only(r) ==
    \A q \in Requests \ {r} :
        /\ call'[q] = call[q] /\ pc'[q] = pc[q] /\ seen'[q] = seen[q]
        /\ plan'[q] = plan[q] /\ items'[q] = items[q] /\ effect'[q] = effect[q]

(* The steps before the apply are of one request only. *)
LEMMA OnlyPlanning ==
    ASSUME TopicAdminTypeOK, NEW r \in Requests,
           \/ Receive(r) \/ ReadFails(r) \/ PurgeDescribes(r) \/ PurgeReadsEnds(r)
           \/ Describes(r) \/ ReadsStarts(r) \/ ReadsEnds(r) \/ ReadsConfigs(r)
           \/ ResolvesTargets(r) \/ ValidatesBulk(r) \/ DryRunCreate(r)
           \/ Confirms(r) \/ Attempts(r)
    PROVE  Only(r)
<1>1. CASE Receive(r)
  BY <1>1 DEF TopicAdminTypeOK, Only, Receive, Goto
<1>2. CASE ReadFails(r)
  BY <1>2 DEF TopicAdminTypeOK, Only, ReadFails, Goto, Finish
<1>3. CASE PurgeDescribes(r)
  BY <1>3 DEF TopicAdminTypeOK, Only, PurgeDescribes, Goto, See
<1>4. CASE PurgeReadsEnds(r)
  BY <1>4 DEF TopicAdminTypeOK, Only, PurgeReadsEnds, Goto, See
<1>5. CASE Describes(r)
  BY <1>5 DEF TopicAdminTypeOK, Only, Describes, Goto, Finish, See, Planned
<1>6. CASE ReadsStarts(r)
  BY <1>6 DEF TopicAdminTypeOK, Only, ReadsStarts, Goto, See
<1>7. CASE ReadsEnds(r)
  BY <1>7 DEF TopicAdminTypeOK, Only, ReadsEnds, Goto, Finish, See, Planned
<1>8. CASE ReadsConfigs(r)
  BY <1>8 DEF TopicAdminTypeOK, Only, ReadsConfigs, Goto, See, Planned
<1>9. CASE ResolvesTargets(r)
  BY <1>9 DEF TopicAdminTypeOK, Only, ResolvesTargets, Goto, Finish, Planned
<1>10. CASE ValidatesBulk(r)
  BY <1>10 DEF TopicAdminTypeOK, Only, ValidatesBulk, Goto, Finish
<1>11. CASE DryRunCreate(r)
  BY <1>11 DEF TopicAdminTypeOK, Only, DryRunCreate, Goto, Finish
<1>12. CASE Confirms(r)
  BY <1>12 DEF TopicAdminTypeOK, Only, Confirms, Goto, Finish
<1>13. CASE Attempts(r)
  BY <1>13 DEF TopicAdminTypeOK, Only, Attempts, Goto, Finish
<1> QED
  BY <1>1, <1>2, <1>3, <1>4, <1>5, <1>6, <1>7, <1>8, <1>9, <1>10, <1>11, <1>12, <1>13

(* The steps of the apply are of one request only. *)
LEMMA OnlyApplying ==
    ASSUME TopicAdminTypeOK, NEW r \in Requests,
           \/ Deletes(r) \/ Creates(r) \/ Alters(r) \/ Rereads(r) \/ Grows(r) \/ Truncates(r)
           \/ ApplyFails(r) \/ CreatesItem(r) \/ ReportsBulk(r)
    PROVE  Only(r)
<1>1. CASE Deletes(r)
  BY <1>1 DEF TopicAdminTypeOK, Only, Deletes, DeleteEffect, Did, Report, Goto, Finish
<1>2. CASE Creates(r)
  BY <1>2 DEF TopicAdminTypeOK, Only, Creates, CreateEffect, Did, Report, Goto, Finish
<1>3. CASE Alters(r)
  BY <1>3 DEF TopicAdminTypeOK, Only, Alters, AlterEffect, Did, Goto
<1>4. CASE Rereads(r)
  BY <1>4 DEF TopicAdminTypeOK, Only, Rereads, Report, Goto, Finish
<1>5. CASE Grows(r)
  BY <1>5 DEF TopicAdminTypeOK, Only, Grows, GrowEffect, Did, Report, Goto, Finish
<1>6. CASE Truncates(r)
  BY <1>6 DEF TopicAdminTypeOK, Only, Truncates, TrimEffect, Did, Report, Goto, Finish
<1>7. CASE ApplyFails(r)
  <2>1. UNCHANGED effect \/ \E S : Did(r, S)
    BY <1>7 DEF ApplyFails, NoEffect, DeleteEffect, CreateEffect, AlterEffect, GrowEffect, TrimEffect
  <2>2. UNCHANGED <<call, seen, plan, items>> /\ Report(r, "FAILED", "KafkaError")
    BY <1>7 DEF ApplyFails
  <2> QED
    BY <2>1, <2>2 DEF TopicAdminTypeOK, Only, Did, Report, Goto, Finish
<1>8. CASE CreatesItem(r)
  <2>1. UNCHANGED effect \/ \E S : Did(r, S)
    BY <1>8 DEF CreatesItem, NoEffect, CreateEffect
  <2>2. UNCHANGED <<call, pc, seen, plan>> /\ \E o : ItemDone(r, o)
    BY <1>8 DEF CreatesItem
  <2> QED
    BY <2>1, <2>2 DEF TopicAdminTypeOK, Only, Did, ItemDone
<1>9. CASE ReportsBulk(r)
  BY <1>9 DEF TopicAdminTypeOK, Only, ReportsBulk, Report, Goto, Finish
<1> QED
  BY <1>1, <1>2, <1>3, <1>4, <1>5, <1>6, <1>7, <1>8, <1>9

(* No handler changes another request. *)
LEMMA HandlesOnlyItself ==
    ASSUME TopicAdminTypeOK, NEW r \in Requests, Handle(r)
    PROVE  Only(r)
BY OnlyPlanning, OnlyApplying DEF Handle

(* The part of the invariant that is about one request. *)
RequestInv(r) ==
    /\ Path(r) /\ NotYet(r) /\ PlanKept(r) /\ SeenBounds(r) /\ ItemsTrue(r)
    /\ \A e \in Effects(r, "delete") : e.name \in call[r].confirm
    /\ \A e \in Effects(r, "truncate") :
          SameTopic(r, e) /\ Targets(r)[e.part] >= 0 => e.lost <= plan[r].affected[e.part]
    /\ \A e \in Effects(r, "truncate") :
          Op(r) = "T12" /\ SameTopic(r, e) /\ e.lost > 0 => e.to <= At(seen[r].end, e.part)

(* The invariant, request by request. *)
LEMMA AdminInvParts ==
    AdminInv <=> TopicAdminTypeOK /\ IdsBorn /\ \A r \in Requests : RequestInv(r)
BY DEF AdminInv, RequestInv, DeletesOnlyTheConfirmed, RemovesAsPlanned, PurgeSparesNewRecords

(* A step that leaves the topics alone moves them. *)
LEMMA UnchangedMoves ==
    ASSUME TopicsTypeOK, UNCHANGED topicVars
    PROVE  TopicMoves
<1>1. \A m \in Names : Exists(m) => \A p \in PartsOf(m) : topics[m].parts[p].begin \in Int
  BY TopicShape, LogType
<1> QED
  BY <1>1 DEF TopicMoves, TopicsTypeOK, topicVars, Exists, PartsOf

(* Ids are given out in order. *)
LEMMA IdsStayBorn ==
    ASSUME TopicsTypeOK, IdsBorn, TopicMoves
    PROVE  IdsBorn'
<1>1. births \in Int /\ births' \in Int /\ births <= births'
  BY DEF TopicMoves, TopicsTypeOK
<1>2. \A n \in Names : Exists(n) => topics[n].id \in Int
  BY TopicShape DEF Topic
<1> QED
  BY <1>1, <1>2 DEF IdsBorn, TopicMoves

(* What a request has read still bounds its topic after any step. *)
LEMMA SeenBoundsKept ==
    ASSUME TopicAdminTypeOK, NEW r \in Requests, SeenBounds(r), TopicMoves,
           call'[r] = call[r], pc'[r] = pc[r] \/ pc[r] # "idle", seen'[r] = seen[r],
           pc[r] # "idle" => Name(r) \in Names
    PROVE  SeenBounds(r)'
<1>1. births \in Int /\ births' \in Int /\ births <= births'
  BY DEF TopicMoves, TopicAdminTypeOK, TopicsTypeOK
<1>2. seen[r] \in Seen
  BY DEF TopicAdminTypeOK
<1>3. \A i \in seen[r].ids : i \in Int /\ i <= births /\ i <= births'
  BY <1>1, <1>2 DEF SeenBounds, Seen
<1>4. ASSUME pc[r] # "idle", Exists(Name(r))', seen[r].ids = {topics'[Name(r)].id},
             NEW p \in DOMAIN seen[r].begin
      PROVE  /\ p \in DOMAIN topics'[Name(r)].parts
             /\ seen[r].begin[p] <= topics'[Name(r)].parts[p].begin
  <2>1. Name(r) \in Names
    BY <1>4
  <2>2. ~ (topics'[Name(r)].id > births)
    BY <1>1, <1>3, <1>4
  <2>3. /\ Exists(Name(r)) /\ topics'[Name(r)].id = topics[Name(r)].id
        /\ \A q \in PartsOf(Name(r)) :
              /\ q \in DOMAIN topics'[Name(r)].parts
              /\ topics[Name(r)].parts[q].begin <= topics'[Name(r)].parts[q].begin
    <3>1. Exists(Name(r))' <=> topics'[Name(r)] # Gone
      BY DEF Exists, Name
    <3> HIDE DEF Name
    <3> QED
      BY <1>4, <2>1, <2>2, <3>1 DEF TopicMoves, Exists
  <2>4. p \in PartsOf(Name(r)) /\ seen[r].begin[p] <= topics[Name(r)].parts[p].begin
    BY <1>4, <2>3 DEF SeenBounds
  <2>5. seen[r].begin[p] \in Int
    BY <1>2 DEF Seen, OffsetMap
  <2>6. topics[Name(r)].parts[p].begin \in Int
    BY <2>1, <2>3, <2>4, TopicShape, LogType DEF TopicAdminTypeOK
  <2>7. TopicsTypeOK' /\ Exists(Name(r))'
    BY <1>4 DEF TopicMoves
  <2>8. topics'[Name(r)].parts[p].begin \in Int
    <3>1. topics'[Name(r)] \in Topic
      BY <2>1, <2>7 DEF TopicsTypeOK, Exists, Name
    <3> QED
      BY <2>3, <2>4, <3>1, LogType DEF Topic
  <2> QED
    BY <2>3, <2>4, <2>5, <2>6, <2>8
<1> QED
  BY <1>3, <1>4 DEF SeenBounds, Name, PartsOf, Exists

(* The call of a request under way is one of Calls. *)
LEMMA CallType ==
    ASSUME TopicAdminTypeOK, NEW r \in Requests, call[r] # NoCall
    PROVE  /\ call[r] \in Call
           /\ Name(r) \in Names
           /\ Op(r) \in Ops
BY CallAssumption DEF TopicAdminTypeOK, Call, Name, Op

(* A request that another one's step, or another client's, passes by. *)
LEMMA PassedBy ==
    ASSUME TopicAdminTypeOK, NEW q \in Requests, RequestInv(q), TopicMoves,
           call'[q] = call[q], pc'[q] = pc[q], seen'[q] = seen[q],
           plan'[q] = plan[q], items'[q] = items[q], effect'[q] = effect[q]
    PROVE  RequestInv(q)'
<1>1. Path(q)'
  BY DEF RequestInv, Path, Op
<1>2. NotYet(q)'
  BY DEF RequestInv, NotYet, Op
<1>3. PlanKept(q)'
  BY DEF RequestInv, PlanKept, HasPlan, Op
<1>4. SeenBounds(q)'
  BY SeenBoundsKept, CallType DEF RequestInv, Path
<1>5. (\A e \in Effects(q, "delete") : e.name \in call[q].confirm)'
  BY DEF RequestInv, Effects
<1>6. (\A e \in Effects(q, "truncate") :
          SameTopic(q, e) /\ Targets(q)[e.part] >= 0 => e.lost <= plan[q].affected[e.part])'
  BY DEF RequestInv, Effects, SameTopic, Targets
<1>7. (\A e \in Effects(q, "truncate") :
          Op(q) = "T12" /\ SameTopic(q, e) /\ e.lost > 0 => e.to <= At(seen[q].end, e.part))'
  BY DEF RequestInv, Effects, SameTopic, Op
<1>8. ItemsTrue(q)'
  BY DEF RequestInv, ItemsTrue, Effects, Op
<1> QED
  BY <1>1, <1>2, <1>3, <1>4, <1>5, <1>6, <1>7, <1>8 DEF RequestInv

(* A request that has not touched the cluster. *)
LEMMA Quiet ==
    ASSUME NEW r \in Requests, effect'[r] = {}, items'[r] = << >>,
           Path(r)', NotYet(r)', PlanKept(r)', SeenBounds(r)'
    PROVE  RequestInv(r)'
<1>1. ItemsTrue(r)'
  BY DEF ItemsTrue
<1> QED
  BY <1>1 DEF RequestInv, Effects

Planning ==
    {"purge", "ends0", "describe", "starts", "ends", "configs", "list", "validate",
     "confirm", "attempt"}

(* A step on the way to the apply that keeps what was read. *)
LEMMA QuietStep ==
    ASSUME TopicAdminTypeOK, NEW r \in Requests, RequestInv(r), pc[r] \in Planning,
           UNCHANGED topicVars, UNCHANGED <<call, effect, items>>
    PROVE  /\ effect[r] = {} /\ items[r] = << >>
           /\ effect'[r] = {} /\ items'[r] = << >> /\ call'[r] = call[r]
           /\ call[r] \in Call /\ Name(r) \in Names
           /\ pc'[r] # "idle" => NotYet(r)'
           /\ TopicMoves
           /\ seen'[r] = seen[r] => SeenBounds(r)'
<1>1. pc[r] # "idle" /\ pc[r] \notin {"reread", "done", "apply"}
  BY DEF Planning
<1>2. effect[r] = {} /\ items[r] = << >>
  BY <1>1 DEF RequestInv, NotYet
<1>3. call[r] \in Call /\ Name(r) \in Names
  BY <1>1, CallType DEF RequestInv, Path
<1>4. TopicMoves
  BY UnchangedMoves DEF TopicAdminTypeOK
<1>5. pc'[r] # "idle" => NotYet(r)'
  BY <1>2 DEF NotYet
<1>6. seen'[r] = seen[r] => SeenBounds(r)'
  BY <1>1, <1>3, <1>4, SeenBoundsKept DEF RequestInv
<1> QED
  BY <1>2, <1>3, <1>4, <1>5, <1>6

(* An answer before the apply keeps the invariant of its request. *)
LEMMA FinishKeeps ==
    ASSUME TopicAdminTypeOK, NEW r \in Requests, RequestInv(r), pc[r] \in Planning,
           UNCHANGED topicVars, UNCHANGED <<call, seen, plan, effect, items>>,
           pc' = [pc EXCEPT ![r] = "done"]
    PROVE  RequestInv(r)'
<1>1. pc'[r] = "done"
  BY DEF TopicAdminTypeOK
<1>2. Path(r)' /\ PlanKept(r)'
  <2>1. call[r] # NoCall /\ call'[r] = call[r] /\ seen'[r] = seen[r]
    BY DEF RequestInv, Path, Planning
  <2> QED
    BY <1>1, <2>1 DEF Path, PlanKept, HasPlan, Op
<1> QED
  BY <1>1, <1>2, QuietStep, Quiet

(* A failed read ends the request. *)
LEMMA ReadFailsKeeps ==
    ASSUME TopicAdminTypeOK, NEW r \in Requests, RequestInv(r), ReadFails(r)
    PROVE  RequestInv(r)'
BY FinishKeeps DEF ReadFails, Finish, Goto, Reading, Planning

(* The fields of seen that a read leaves alone. *)
LEMMA SeeFields ==
    ASSUME TopicAdminTypeOK, NEW r \in Requests, Exists(Name(r)), Name(r) \in Names,
           NEW field \in {"parts", "begin", "end", "targets"}, NEW v,
           [seen[r] EXCEPT ![field] = v] \in Seen, See(r, field, v)
    PROVE  /\ seen' \in [Requests -> Seen]
           /\ seen'[r][field] = v
           /\ \A f \in {"parts", "begin", "end", "targets"} \ {field} : seen'[r][f] = seen[r][f]
           /\ seen'[r].ids = seen[r].ids \cup {topics[Name(r)].id}
           /\ topics[Name(r)].id \in 1..MaxBirths
<1>1. topics[Name(r)].id \in 1..MaxBirths
  BY TopicShape DEF Topic, TopicAdminTypeOK
<1> DEFINE s == [seen[r] EXCEPT ![field] = v]
           t == [s EXCEPT !.ids = @ \cup {topics[Name(r)].id}]
<1>2. seen[r] \in Seen
  BY DEF TopicAdminTypeOK
<1>3. s \in Seen /\ s[field] = v /\ s.ids = seen[r].ids
      /\ \A f \in {"parts", "begin", "end", "targets"} \ {field} : s[f] = seen[r][f]
  BY <1>2 DEF Seen
<1>4. seen' = [seen EXCEPT ![r] = t]
  BY DEF See
<1> HIDE DEF s
<1>5. t \in Seen
  BY <1>1, <1>3 DEF Seen
<1>6. t[field] = v /\ t.ids = seen[r].ids \cup {topics[Name(r)].id}
      /\ \A f \in {"parts", "begin", "end", "targets"} \ {field} : t[f] = seen[r][f]
  BY <1>3 DEF Seen
<1> HIDE DEF t
<1>7. seen' \in [Requests -> Seen] /\ seen'[r] = t
  BY <1>4, <1>5 DEF TopicAdminTypeOK
<1> QED
  BY <1>1, <1>6, <1>7

(* What a partition listing or an offset listing returns has its type. *)
LEMMA ReadTypes ==
    ASSUME TopicAdminTypeOK, NEW n \in Names, Exists(n)
    PROVE  /\ PartsOf(n) \in SUBSET (0..MaxPartitions)
           /\ [p \in PartsOf(n) |-> topics[n].parts[p].begin] \in OffsetMap(0..MaxOffset)
           /\ [p \in PartsOf(n) |-> topics[n].parts[p].end] \in OffsetMap(0..MaxOffset)
<1>1. /\ Count(n) \in 1..MaxPartitions /\ PartsOf(n) = 0..(Count(n) - 1)
      /\ topics[n].parts \in [PartsOf(n) -> Log]
  BY TopicShape DEF TopicAdminTypeOK
<1>2. PartsOf(n) \in SUBSET (0..MaxPartitions)
  BY <1>1, TopicsAssumption
<1>3. \A p \in PartsOf(n) : topics[n].parts[p].begin \in 0..MaxOffset
                            /\ topics[n].parts[p].end \in 0..MaxOffset
  BY <1>1, LogType
<1> QED
  BY <1>2, <1>3 DEF OffsetMap

(* What a read adds to what was seen. *)
LEMMA SeenReads ==
    ASSUME TopicAdminTypeOK, NEW r \in Requests, Name(r) \in Names, Exists(Name(r))
    PROVE  /\ [seen[r] EXCEPT !["parts"] = PartsOf(Name(r))] \in Seen
           /\ [seen[r] EXCEPT !["begin"] = Log0(r, "begin")] \in Seen
           /\ [seen[r] EXCEPT !["end"] = Log0(r, "end")] \in Seen
<1>1. /\ PartsOf(Name(r)) \in SUBSET (0..MaxPartitions)
      /\ Log0(r, "begin") \in OffsetMap(0..MaxOffset)
      /\ Log0(r, "end") \in OffsetMap(0..MaxOffset)
  BY ReadTypes DEF Log0
<1>2. seen[r] \in Seen
  BY DEF TopicAdminTypeOK
<1> QED
  BY <1>1, <1>2 DEF Seen

(* An offset looked up is an offset, or 0. *)
LEMMA AtType ==
    ASSUME NEW S, 0 \in S, NEW f \in OffsetMap(S), NEW p
    PROVE  At(f, p) \in S
BY DEF At, OffsetMap

(* A read of anything but the begin offsets keeps the bound they are.      *)
LEMMA SeeBounds ==
    ASSUME TopicAdminTypeOK, NEW r \in Requests, IdsBorn, RequestInv(r), Exists(Name(r)),
           Name(r) \in Names, UNCHANGED topicVars, call'[r] = call[r], pc[r] # "idle",
           seen'[r].begin = seen[r].begin
             \/ seen'[r].begin = [p \in PartsOf(Name(r)) |-> topics[Name(r)].parts[p].begin],
           seen'[r].ids = seen[r].ids \cup {topics[Name(r)].id}
    PROVE  SeenBounds(r)'
<1> DEFINE n == Name(r)
<1>1. topics' = topics /\ births' = births /\ n \in Names
  BY DEF topicVars
<1>2. topics[n].id \in Int /\ topics[n].id <= births /\ births \in Int
  BY TopicShape DEF Topic, TopicAdminTypeOK, TopicsTypeOK, IdsBorn
<1>3. \A i \in seen'[r].ids : i <= births'
  BY <1>1, <1>2 DEF RequestInv, SeenBounds
<1>4. seen'[r].ids # {}
  OBVIOUS
<1>5. ASSUME seen'[r].ids = {topics[n].id}, NEW p \in DOMAIN seen'[r].begin
      PROVE  p \in PartsOf(n) /\ seen'[r].begin[p] <= topics[n].parts[p].begin
  <2>1. CASE seen'[r].begin = [q \in PartsOf(n) |-> topics[n].parts[q].begin]
    <3>1. topics[n].parts \in [PartsOf(n) -> Log]
      BY TopicShape DEF TopicAdminTypeOK
    <3> QED
      BY <2>1, <3>1, <1>5, LogType
  <2>2. CASE seen'[r].begin = seen[r].begin
    <3>1. seen[r].ids = {} \/ seen[r].ids = {topics[n].id}
      BY <1>5
    <3>2. seen[r].ids # {}
      BY <1>5, <2>2 DEF RequestInv, SeenBounds
    <3> QED
      BY <1>5, <2>2, <3>1, <3>2 DEF RequestInv, SeenBounds
  <2> QED
    BY <2>1, <2>2
<1>6. Name(r)' = n
  BY DEF Name
<1> QED
  BY <1>1, <1>3, <1>4, <1>5, <1>6 DEF SeenBounds, Exists, PartsOf

(* A read on the way to a plan. *)
LEMMA ReadKeeps ==
    ASSUME TopicAdminTypeOK, NEW r \in Requests, IdsBorn, RequestInv(r),
           NEW step \in Planning, Reads(r, step), NEW next \in Planning \ {"confirm", "attempt", "list", "validate"},
           Goto(r, next), UNCHANGED <<topicVars, call, plan, items, reply, outcome, effect>>,
           NEW field \in {"parts", "begin", "end", "targets"}, NEW v,
           [seen[r] EXCEPT ![field] = v] \in Seen, See(r, field, v),
           field = "begin" => v = [p \in PartsOf(Name(r)) |-> topics[Name(r)].parts[p].begin],
           field = "targets" => \A p \in DOMAIN v : v[p] >= 0,
           next \in {"purge", "ends0"} => Op(r) = "T12",
           next = "describe" => Op(r) = "T12" /\ field = "targets",
           next \in {"starts", "ends"} => Op(r) \in {"T7", "T11", "T12"} /\ step \notin {"purge", "ends0"},
           next = "configs" => Op(r) \in {"T7", "T9"}
    PROVE  TopicAdminTypeOK' /\ RequestInv(r)'
<1>1. pc[r] = step /\ Exists(Name(r)) /\ pc[r] \in Planning
  BY DEF Reads
<1>2. /\ effect'[r] = {} /\ items'[r] = << >> /\ call'[r] = call[r] /\ Name(r) \in Names /\ TopicMoves
      /\ pc'[r] # "idle" => NotYet(r)'
  BY <1>1, QuietStep
<1>3. pc'[r] = next /\ pc' \in [Requests -> Steps] /\ next # "idle"
  BY DEF TopicAdminTypeOK, Goto, Planning, Steps
<1>4. /\ seen' \in [Requests -> Seen]
      /\ seen'[r][field] = v
      /\ \A f \in {"parts", "begin", "end", "targets"} \ {field} : seen'[r][f] = seen[r][f]
      /\ seen'[r].ids = seen[r].ids \cup {topics[Name(r)].id}
  BY <1>1, <1>2, SeeFields
<1>5. TopicAdminTypeOK'
  BY <1>3, <1>4 DEF TopicAdminTypeOK, topicVars, TopicsTypeOK
<1>6. seen'[r].begin = seen[r].begin
        \/ seen'[r].begin = [p \in PartsOf(Name(r)) |-> topics[Name(r)].parts[p].begin]
  BY <1>4
<1>7. SeenBounds(r)'
  BY <1>1, <1>2, <1>4, <1>6, SeeBounds DEF Planning
<1>8. Path(r)'
  BY <1>1, <1>2, <1>3 DEF RequestInv, Path, Op, Planning
<1>9. PlanKept(r)'
  <2>1. ~ HasPlan(r)'
    BY <1>3 DEF HasPlan, Planning
  <2>2. ASSUME Op(r) = "T12", next \notin {"purge", "ends0"}
        PROVE  \A p \in DOMAIN seen'[r].targets : seen'[r].targets[p] >= 0
    <3>1. CASE field = "targets"
      BY <1>4, <3>1
    <3>2. CASE field # "targets"
      <4>1. pc[r] \notin {"idle", "purge", "ends0", "done"}
        BY <1>1, <2>2, <3>2 DEF Planning
      <4>2. seen'[r].targets = seen[r].targets
        BY <1>4, <3>2
      <4> QED
        BY <2>2, <4>1, <4>2 DEF RequestInv, PlanKept
    <3> QED
      BY <3>1, <3>2
  <2> QED
    BY <1>2, <1>3, <2>1, <2>2 DEF PlanKept, Op
<1> QED
  BY <1>2, <1>3, <1>5, <1>7, <1>8, <1>9, Quiet

(* The first read of T12. *)
LEMMA PurgeDescribesKeeps ==
    ASSUME TopicAdminTypeOK, NEW r \in Requests, IdsBorn, RequestInv(r), PurgeDescribes(r)
    PROVE  TopicAdminTypeOK' /\ RequestInv(r)'
<1>1. Reads(r, "purge") /\ Exists(Name(r)) /\ Op(r) = "T12" /\ Name(r) \in Names
  BY CallType DEF PurgeDescribes, Reads, RequestInv, Path
<1>2. [seen[r] EXCEPT !["parts"] = PartsOf(Name(r))] \in Seen
  BY <1>1, SeenReads
<1> QED
  BY <1>1, <1>2, ReadKeeps DEF PurgeDescribes, Planning

(* The second: its targets are end offsets, and so not negative. *)
LEMMA PurgeReadsEndsKeeps ==
    ASSUME TopicAdminTypeOK, NEW r \in Requests, IdsBorn, RequestInv(r), PurgeReadsEnds(r)
    PROVE  TopicAdminTypeOK' /\ RequestInv(r)'
<1> DEFINE v == [p \in seen[r].parts |-> At(Log0(r, "end"), p)]
<1>1. Reads(r, "ends0") /\ Exists(Name(r)) /\ Op(r) = "T12" /\ Name(r) \in Names
  BY CallType DEF PurgeReadsEnds, Reads, RequestInv, Path
<1>2. Log0(r, "end") \in OffsetMap(0..MaxOffset)
  BY <1>1, ReadTypes DEF Log0
<1>3. \A p : At(Log0(r, "end"), p) \in 0..MaxOffset
  BY <1>2, AtType, TopicsAssumption
<1>4. seen[r] \in Seen
  BY DEF TopicAdminTypeOK
<1>5. v \in [seen[r].parts -> (-1)..(MaxOffset + 1)] /\ \A p \in DOMAIN v : v[p] >= 0
  BY <1>3, TopicsAssumption
<1>6. v \in OffsetMap((-1)..(MaxOffset + 1))
  BY <1>4, <1>5 DEF OffsetMap, Seen
<1>7. See(r, "targets", v) /\ Goto(r, "describe")
      /\ UNCHANGED <<topicVars, call, plan, items, outcome, reply, effect>>
  BY DEF PurgeReadsEnds
<1> HIDE DEF v
<1>8. [seen[r] EXCEPT !["targets"] = v] \in Seen
  BY <1>4, <1>6 DEF Seen
<1> QED
  BY <1>1, <1>5, <1>7, <1>8, ReadKeeps DEF Planning

(* The begin offsets are those of the topic read. *)
LEMMA ReadsStartsKeeps ==
    ASSUME TopicAdminTypeOK, NEW r \in Requests, IdsBorn, RequestInv(r), ReadsStarts(r)
    PROVE  TopicAdminTypeOK' /\ RequestInv(r)'
<1> DEFINE v == [p \in PartsOf(Name(r)) |-> topics[Name(r)].parts[p].begin]
<1>1. Reads(r, "starts") /\ Exists(Name(r)) /\ Op(r) \in {"T7", "T11", "T12"} /\ Name(r) \in Names
  BY CallType DEF ReadsStarts, Reads, RequestInv, Path
<1>2. See(r, "begin", v)
  BY DEF ReadsStarts, Log0
<1>4. Goto(r, "ends") /\ UNCHANGED <<topicVars, call, plan, items, outcome, reply, effect>>
  BY DEF ReadsStarts
<1>5. [seen[r] EXCEPT !["begin"] = v] \in Seen
  BY <1>1, SeenReads DEF Log0
<1> QED
  BY <1>1, <1>2, <1>4, <1>5, ReadKeeps DEF Planning

(* A read that ends the planning, with an answer or with a plan. *)
LEMMA LastReadKeeps ==
    ASSUME TopicAdminTypeOK, NEW r \in Requests, IdsBorn, RequestInv(r),
           NEW step \in Planning \ {"purge", "ends0"}, Reads(r, step),
           UNCHANGED <<topicVars, call, items, outcome, effect>>,
           NEW field \in {"parts", "end"}, NEW v,
           [seen[r] EXCEPT ![field] = v] \in Seen, See(r, field, v),
           \/ \E answer \in Replies : Finish(r, answer) /\ UNCHANGED plan
           \/ \E P \in Plan :
                 /\ Planned(r, P) /\ UNCHANGED reply
                 /\ P.names = P.confirm
                 /\ Op(r) \in {"T11", "T12"} =>
                       /\ P.targets = seen[r].targets
                       /\ P.affected = Affected(seen'[r])
                       /\ Truncatable(seen'[r], seen'[r].end)
    PROVE  TopicAdminTypeOK' /\ RequestInv(r)'
<1>1. pc[r] = step /\ Exists(Name(r)) /\ pc[r] \in Planning
  BY DEF Reads
<1>2. /\ effect'[r] = {} /\ items'[r] = << >> /\ call'[r] = call[r] /\ Name(r) \in Names /\ TopicMoves
      /\ pc'[r] # "idle" => NotYet(r)'
  BY <1>1, QuietStep
<1>3. /\ pc' \in [Requests -> Steps] /\ reply' \in [Requests -> Replies]
      /\ plan' \in [Requests -> Plan \cup {NoPlan}]
      /\ pc'[r] \in {"done", "confirm"}
  BY DEF TopicAdminTypeOK, Goto, Finish, Planned, Steps
<1>4. /\ seen' \in [Requests -> Seen]
      /\ seen'[r].begin = seen[r].begin /\ seen'[r].targets = seen[r].targets
      /\ seen'[r].ids = seen[r].ids \cup {topics[Name(r)].id}
  BY <1>1, <1>2, SeeFields
<1>5. TopicAdminTypeOK'
  BY <1>3, <1>4 DEF TopicAdminTypeOK, topicVars, TopicsTypeOK
<1>6. SeenBounds(r)'
  BY <1>1, <1>2, <1>4, SeeBounds DEF Planning
<1>7. Path(r)'
  BY <1>1, <1>2, <1>3 DEF RequestInv, Path, Op, Planning
<1>8. PlanKept(r)'
  <2>1. Op(r) = "T12" => \A p \in DOMAIN seen'[r].targets : seen'[r].targets[p] >= 0
    BY <1>1, <1>4 DEF RequestInv, PlanKept, Planning
  <2>2. CASE pc'[r] = "done"
    BY <2>2 DEF PlanKept, HasPlan
  <2>3. CASE pc'[r] = "confirm"
    <3>1. PICK P \in Plan :
             /\ plan' = [plan EXCEPT ![r] = P]
             /\ P.names = P.confirm
             /\ Op(r) \in {"T11", "T12"} =>
                   /\ P.targets = seen[r].targets
                   /\ P.affected = Affected(seen'[r])
                   /\ Truncatable(seen'[r], seen'[r].end)
      BY <2>3 DEF Finish, Goto, Planned, TopicAdminTypeOK
    <3>2. plan'[r] = P
      BY <3>1 DEF TopicAdminTypeOK
    <3>3. Op(r)' = Op(r)
      BY <1>2 DEF Op
    <3> QED
      BY <1>4, <2>1, <2>3, <3>1, <3>2, <3>3 DEF PlanKept
  <2> QED
    BY <1>3, <2>2, <2>3
<1> QED
  BY <1>2, <1>3, <1>5, <1>6, <1>7, <1>8, Quiet

(* A plan confirmed by name. *)
LEMMA NamePlanType ==
    ASSUME NEW r, Name(r) \in Names
    PROVE  NamePlan(r) \in Plan /\ NamePlan(r).names = NamePlan(r).confirm
<1>1. << >> \in OffsetMap((-1)..(MaxOffset + 1)) /\ << >> \in OffsetMap(0..(MaxOffset + 1))
  <2>1. \A S : << >> \in [{} -> S]
    OBVIOUS
  <2> QED
    BY <2>1 DEF OffsetMap
<1> QED
  BY <1>1 DEF NamePlan, Plan

(* T10 plans here; T7, T11 and T12 read on. *)
LEMMA DescribesKeeps ==
    ASSUME TopicAdminTypeOK, NEW r \in Requests, IdsBorn, RequestInv(r), Describes(r)
    PROVE  TopicAdminTypeOK' /\ RequestInv(r)'
<1>1. Reads(r, "describe") /\ Exists(Name(r)) /\ Op(r) \in {"T7", "T10", "T11", "T12"} /\ Name(r) \in Names
  BY CallType DEF Describes, Reads, RequestInv, Path
<1>2. [seen[r] EXCEPT !["parts"] = PartsOf(Name(r))] \in Seen
  BY <1>1, SeenReads
<1>3. See(r, "parts", PartsOf(Name(r))) /\ UNCHANGED <<topicVars, call, items, outcome, effect>>
  BY DEF Describes
<1>4. CASE Op(r) = "T10"
  <2>1. (Finish(r, "PartitionMismatch") /\ UNCHANGED plan) \/ (Planned(r, NamePlan(r)) /\ UNCHANGED reply)
    BY <1>4 DEF Describes
  <2>2. \/ \E answer \in Replies : Finish(r, answer) /\ UNCHANGED plan
        \/ \E P \in Plan : Planned(r, P) /\ UNCHANGED reply /\ P.names = P.confirm
    <3>1. "PartitionMismatch" \in Replies
      BY DEF Replies
    <3> QED
      BY <1>1, <2>1, <3>1, NamePlanType
  <2> QED
    BY <1>1, <1>2, <1>3, <1>4, <2>2, LastReadKeeps DEF Planning
<1>5. CASE Op(r) # "T10"
  <2>1. Goto(r, "starts") /\ UNCHANGED <<plan, reply>>
    BY <1>5 DEF Describes
  <2> QED
    BY <1>1, <1>2, <1>3, <1>5, <2>1, ReadKeeps DEF Planning
<1> QED
  BY <1>4, <1>5

(* The estimate of a plan: the target less the begin offset, or 0. *)
LEMMA AffectedType ==
    ASSUME NEW s \in Seen
    PROVE  /\ Affected(s) \in OffsetMap(0..(MaxOffset + 1))
           /\ DOMAIN Affected(s) = DOMAIN s.targets
           /\ \A p \in DOMAIN s.targets :
                 /\ s.targets[p] \in Int /\ At(s.begin, p) \in Nat
                 /\ Affected(s)[p] =
                       IF s.targets[p] - At(s.begin, p) < 0 THEN 0
                       ELSE s.targets[p] - At(s.begin, p)
<1>1. \A p : At(s.begin, p) \in 0..MaxOffset
  BY AtType, TopicsAssumption DEF Seen
<1>2. PICK P \in SUBSET (0..MaxPartitions) : s.targets \in [P -> (-1)..(MaxOffset + 1)]
  BY DEF Seen, OffsetMap
<1>3. \A p \in P : s.targets[p] \in (-1)..(MaxOffset + 1)
  BY <1>2
<1>4. \A p \in P : Affected(s)[p] =
          IF s.targets[p] - At(s.begin, p) < 0 THEN 0 ELSE s.targets[p] - At(s.begin, p)
  BY <1>2 DEF Affected
<1>5. \A p \in P : Affected(s)[p] \in 0..(MaxOffset + 1)
  BY <1>1, <1>3, <1>4, TopicsAssumption
<1>6. Affected(s) \in [P -> 0..(MaxOffset + 1)]
  BY <1>2, <1>5 DEF Affected
<1>7. Affected(s) \in OffsetMap(0..(MaxOffset + 1))
  BY <1>6 DEF OffsetMap
<1>8. DOMAIN s.targets = P /\ DOMAIN Affected(s) = P
  BY <1>2, <1>6
<1>9. \A p \in P : s.targets[p] \in Int /\ At(s.begin, p) \in Nat
  BY <1>1, <1>3, TopicsAssumption
<1> QED
  BY <1>4, <1>7, <1>8, <1>9

(* T11 and T12 plan here, from what they have read. *)
LEMMA ReadsEndsKeeps ==
    ASSUME TopicAdminTypeOK, NEW r \in Requests, IdsBorn, RequestInv(r), ReadsEnds(r)
    PROVE  TopicAdminTypeOK' /\ RequestInv(r)'
<1> DEFINE end == Log0(r, "end")
<1>1. Reads(r, "ends") /\ Exists(Name(r)) /\ Op(r) \in {"T7", "T11", "T12"} /\ Name(r) \in Names
  BY CallType DEF ReadsEnds, Reads, RequestInv, Path
<1>2. [seen[r] EXCEPT !["end"] = end] \in Seen
  BY <1>1, SeenReads
<1>3. See(r, "end", end) /\ UNCHANGED <<topicVars, call, items, outcome, effect>>
  BY DEF ReadsEnds
<1>4. seen[r] \in Seen
  BY DEF TopicAdminTypeOK
<1>5. CASE Op(r) = "T7"
  <2>1. Goto(r, "configs") /\ UNCHANGED <<plan, reply>>
    BY <1>5 DEF ReadsEnds
  <2> HIDE DEF end
  <2> QED
    BY <1>1, <1>2, <1>3, <1>5, <2>1, ReadKeeps DEF Planning
<1>6. CASE Op(r) # "T7" /\ ~ Truncatable(seen[r], end)
  <2>1. Finish(r, "Validation") /\ UNCHANGED plan
    BY <1>6 DEF ReadsEnds
  <2>2. \E answer \in Replies : Finish(r, answer) /\ UNCHANGED plan
    BY <2>1 DEF Replies
  <2> HIDE DEF end
  <2> QED
    BY <1>1, <1>2, <1>3, <2>2, LastReadKeeps DEF Planning
<1>7. CASE Op(r) # "T7" /\ Truncatable(seen[r], end)
  <2> DEFINE P == [NamePlan(r) EXCEPT !.targets = seen[r].targets, !.affected = Affected(seen[r])]
  <2>1. Planned(r, P) /\ UNCHANGED reply
    BY <1>7 DEF ReadsEnds
  <2>2. P \in Plan /\ P.names = P.confirm /\ P.targets = seen[r].targets
        /\ P.affected = Affected(seen[r])
    BY <1>1, <1>4, NamePlanType, AffectedType DEF Plan, Seen
  <2> HIDE DEF end
  <2>3. seen'[r].end = end /\ seen'[r].begin = seen[r].begin /\ seen'[r].targets = seen[r].targets
        /\ seen'[r].parts = seen[r].parts
    BY <1>1, <1>2, <1>3, SeeFields
  <2>4. Affected(seen'[r]) = Affected(seen[r]) /\ Truncatable(seen'[r], seen'[r].end)
    BY <1>7, <2>3 DEF Affected, Truncatable
  <2> HIDE DEF P
  <2>5. \E Q \in Plan :
           /\ Planned(r, Q) /\ UNCHANGED reply
           /\ Q.names = Q.confirm
           /\ Op(r) \in {"T11", "T12"} =>
                 /\ Q.targets = seen[r].targets
                 /\ Q.affected = Affected(seen'[r])
                 /\ Truncatable(seen'[r], seen'[r].end)
    BY <2>1, <2>2, <2>4
  <2> QED
    BY <1>1, <1>2, <1>3, <2>5, LastReadKeeps DEF Planning
<1> QED
  BY <1>5, <1>6, <1>7

(* T7 and T9 plan here. *)
LEMMA ReadsConfigsKeeps ==
    ASSUME TopicAdminTypeOK, NEW r \in Requests, IdsBorn, RequestInv(r), ReadsConfigs(r)
    PROVE  TopicAdminTypeOK' /\ RequestInv(r)'
<1>1. Reads(r, "configs") /\ Exists(Name(r)) /\ Op(r) \in {"T7", "T9"} /\ Name(r) \in Names
  BY CallType DEF ReadsConfigs, Reads, RequestInv, Path
<1>2. [seen[r] EXCEPT !["parts"] = seen[r].parts] \in Seen
  BY DEF TopicAdminTypeOK, Seen
<1>3. /\ See(r, "parts", seen[r].parts)
      /\ UNCHANGED <<topicVars, call, items, outcome, effect>>
      /\ Planned(r, NamePlan(r)) /\ UNCHANGED reply
  BY DEF ReadsConfigs
<1>4. \E P \in Plan : Planned(r, P) /\ UNCHANGED reply /\ P.names = P.confirm
  BY <1>1, <1>3, NamePlanType
<1> QED
  BY <1>1, <1>2, <1>3, <1>4, LastReadKeeps DEF Planning

(* T8 plans here: its token names what it will delete. *)
LEMMA ResolvesTargetsKeeps ==
    ASSUME TopicAdminTypeOK, NEW r \in Requests, RequestInv(r), ResolvesTargets(r)
    PROVE  TopicAdminTypeOK' /\ RequestInv(r)'
<1>1. pc[r] = "list" /\ Op(r) = "T8" /\ UNCHANGED <<topicVars, call, seen, items, outcome, effect>>
  BY DEF ResolvesTargets
<1>2. /\ effect'[r] = {} /\ items'[r] = << >> /\ call'[r] = call[r] /\ Name(r) \in Names /\ call[r] \in Call
      /\ pc'[r] # "idle" => NotYet(r)'
      /\ SeenBounds(r)'
  BY <1>1, QuietStep DEF Planning
<1>3. CASE Finish(r, "Validation") /\ UNCHANGED plan
  <2>1. RequestInv(r)'
    BY <1>1, <1>3, FinishKeeps DEF Finish, Goto, Planning
  <2>2. TopicAdminTypeOK'
    BY <1>1, <1>3 DEF TopicAdminTypeOK, TopicsTypeOK, topicVars, Finish, Goto, Steps, Replies
  <2> QED
    BY <2>1, <2>2
<1>4. ASSUME NEW P \in Plan, P.names = P.confirm, Planned(r, P), UNCHANGED reply
      PROVE  TopicAdminTypeOK' /\ RequestInv(r)'
  <2>1. pc'[r] = "confirm" /\ plan'[r] = P
    BY <1>4 DEF TopicAdminTypeOK, Planned, Goto
  <2>2. TopicAdminTypeOK'
    BY <1>1, <1>4 DEF TopicAdminTypeOK, TopicsTypeOK, topicVars, Planned, Goto, Steps
  <2>3. Path(r)' /\ PlanKept(r)'
    BY <1>1, <1>2, <1>4, <2>1 DEF RequestInv, Path, PlanKept, HasPlan, Op
  <2> QED
    BY <1>2, <2>1, <2>2, <2>3, Quiet
<1>5. CASE ~ (~ call[r].pattern /\ call[r].targets = {})
  <2> DEFINE P == [NamePlan(r) EXCEPT !.names = Resolved(r), !.confirm = Resolved(r),
                                      !.existing = Resolved(r) \cap Existing]
  <2>1. Planned(r, P) /\ UNCHANGED reply
    BY <1>5 DEF ResolvesTargets
  <2>2. Resolved(r) \in SUBSET Names
    BY <1>2 DEF Resolved, Call
  <2>3. P \in Plan /\ P.names = P.confirm
    BY <1>2, <2>2, NamePlanType DEF Plan
  <2> QED
    BY <1>4, <2>1, <2>3
<1> QED
  BY <1>3, <1>5 DEF ResolvesTargets

(* Steps that end the request, or send it to its ATTEMPT, with no plan to keep. *)
LEMMA ValidatesBulkKeeps ==
    ASSUME TopicAdminTypeOK, NEW r \in Requests, RequestInv(r), ValidatesBulk(r)
    PROVE  TopicAdminTypeOK' /\ RequestInv(r)'
<1>1. /\ pc[r] = "list" /\ Op(r) = "T6"
      /\ UNCHANGED <<topicVars, call, seen, plan, items, outcome, effect>>
  BY DEF ValidatesBulk
<1>2. /\ effect'[r] = {} /\ items'[r] = << >> /\ call'[r] = call[r]
      /\ pc'[r] # "idle" => NotYet(r)'
      /\ SeenBounds(r)'
  BY <1>1, QuietStep DEF Planning
<1>3. pc'[r] \in {"done", "attempt"}
  BY DEF ValidatesBulk, Finish, Goto, TopicAdminTypeOK
<1>4. TopicAdminTypeOK'
  BY DEF ValidatesBulk, TopicAdminTypeOK, TopicsTypeOK, topicVars, Finish, Goto, Steps, Replies
<1>5. Path(r)' /\ PlanKept(r)'
  BY <1>1, <1>2, <1>3 DEF RequestInv, Path, PlanKept, HasPlan, Op
<1> QED
  BY <1>2, <1>3, <1>4, <1>5, Quiet

(* A dry-run T5 ends here. *)
LEMMA DryRunCreateKeeps ==
    ASSUME TopicAdminTypeOK, NEW r \in Requests, RequestInv(r), DryRunCreate(r)
    PROVE  TopicAdminTypeOK' /\ RequestInv(r)'
<1>1. RequestInv(r)'
  BY FinishKeeps DEF DryRunCreate, Finish, Goto, Planning
<1>2. TopicAdminTypeOK'
  BY DEF DryRunCreate, TopicAdminTypeOK, TopicsTypeOK, topicVars, Finish, Goto, Steps, Replies
<1> QED
  BY <1>1, <1>2

(* A failed read keeps the types. *)
LEMMA ReadFailsType ==
    ASSUME TopicAdminTypeOK, NEW r \in Requests, ReadFails(r)
    PROVE  TopicAdminTypeOK'
BY DEF ReadFails, TopicAdminTypeOK, TopicsTypeOK, topicVars, Finish, Goto, Steps, Replies

(* Past this step, the plan is the confirmed one. *)
LEMMA ConfirmsKeeps ==
    ASSUME TopicAdminTypeOK, NEW r \in Requests, RequestInv(r), Confirms(r)
    PROVE  TopicAdminTypeOK' /\ RequestInv(r)'
<1>1. pc[r] = "confirm" /\ UNCHANGED <<topicVars, call, seen, plan, items, effect>>
  BY DEF Confirms
<1>2. /\ effect'[r] = {} /\ items'[r] = << >> /\ call'[r] = call[r]
      /\ pc'[r] # "idle" => NotYet(r)'
      /\ SeenBounds(r)'
  BY <1>1, QuietStep DEF Planning
<1>3. pc'[r] = "done" \/ (pc'[r] = "attempt" /\ call[r].confirm = plan[r].confirm)
  BY DEF Confirms, Finish, Goto, TopicAdminTypeOK
<1>4. TopicAdminTypeOK'
  BY DEF Confirms, TopicAdminTypeOK, TopicsTypeOK, topicVars, Finish, Goto, Steps, Replies
<1>5. Path(r)' /\ PlanKept(r)'
  BY <1>1, <1>2, <1>3 DEF RequestInv, Path, PlanKept, HasPlan, Op
<1> QED
  BY <1>2, <1>3, <1>4, <1>5, Quiet

(* The ATTEMPT changes no plan. *)
LEMMA AttemptsKeeps ==
    ASSUME TopicAdminTypeOK, NEW r \in Requests, RequestInv(r), Attempts(r)
    PROVE  TopicAdminTypeOK' /\ RequestInv(r)'
<1>1. pc[r] = "attempt" /\ UNCHANGED <<topicVars, call, seen, plan, items, outcome, effect>>
  BY DEF Attempts
<1>2. /\ effect'[r] = {} /\ items'[r] = << >> /\ call'[r] = call[r]
      /\ pc'[r] # "idle" => NotYet(r)'
      /\ SeenBounds(r)'
  BY <1>1, QuietStep DEF Planning
<1>3. pc'[r] \in {"done", "apply"}
  BY DEF Attempts, Finish, Goto, TopicAdminTypeOK
<1>4. TopicAdminTypeOK'
  BY DEF Attempts, TopicAdminTypeOK, TopicsTypeOK, topicVars, Finish, Goto, Steps, Replies
<1>5. Path(r)' /\ PlanKept(r)'
  BY <1>1, <1>2, <1>3 DEF RequestInv, Path, PlanKept, HasPlan, Op
<1> QED
  BY <1>2, <1>3, <1>4, <1>5, Quiet

-----------------------------------------------------------------------------
(* The applies.  What a change to the cluster must respect. *)
SoundEffect(r, e) ==
    /\ e.kind = "delete" => e.name \in call[r].confirm
    /\ e.kind = "truncate" =>
          /\ SameTopic(r, e) /\ Targets(r)[e.part] >= 0 => e.lost <= plan[r].affected[e.part]
          /\ Op(r) = "T12" /\ SameTopic(r, e) /\ e.lost > 0 => e.to <= At(seen[r].end, e.part)

(* Adding sound effects to sound effects. *)
LEMMA SoundEffects ==
    ASSUME TopicAdminTypeOK, NEW r \in Requests, RequestInv(r),
           NEW S \in SUBSET Effect, Did(r, S), \A e \in S : SoundEffect(r, e)
    PROVE  /\ effect' \in [Requests -> SUBSET Effect]
           /\ \A e \in effect'[r] : SoundEffect(r, e)
           /\ effect'[r] = effect[r] \cup S
<1>1. effect' = [effect EXCEPT ![r] = @ \cup S] /\ effect[r] \in SUBSET Effect
  BY DEF Did, TopicAdminTypeOK
<1>2. \A e \in effect[r] : SoundEffect(r, e)
  BY DEF RequestInv, SoundEffect, Effects
<1>3. effect'[r] = effect[r] \cup S
  BY <1>1 DEF TopicAdminTypeOK
<1> QED
  BY <1>1, <1>2, <1>3 DEF TopicAdminTypeOK

(* A sound apply keeps the invariant of its request. *)
LEMMA ApplyKeeps ==
    ASSUME TopicAdminTypeOK, NEW r \in Requests, RequestInv(r), pc[r] = "apply",
           TopicMoves, UNCHANGED <<call, seen, plan>>,
           \/ pc'[r] = "done"
           \/ pc'[r] = "reread"
           \/ pc'[r] = "apply" /\ Op(r) = "T6",
           ItemsTrue(r)',
           \A e \in effect'[r] : SoundEffect(r, e)
    PROVE  RequestInv(r)'
<1>1. call[r] # NoCall /\ Name(r) \in Names
  BY CallType DEF RequestInv, Path
<1>2. SeenBounds(r)'
  BY <1>1, SeenBoundsKept DEF RequestInv
<1>3. Path(r)' /\ NotYet(r)' /\ PlanKept(r)'
  <2>1. Op(r)' = Op(r) /\ call'[r] = call[r] /\ seen'[r] = seen[r] /\ plan'[r] = plan[r]
    BY DEF Op
  <2>2. Path(r)' /\ NotYet(r)'
    BY <1>1, <2>1 DEF Path, NotYet
  <2>3. Op(r) = "T12" => \A p \in DOMAIN seen[r].targets : seen[r].targets[p] >= 0
    BY DEF RequestInv, PlanKept
  <2>4. ~ HasPlan(r)'
    BY <2>1 DEF HasPlan
  <2> QED
    BY <2>1, <2>2, <2>3, <2>4 DEF PlanKept
<1>4. (\A e \in Effects(r, "delete") : e.name \in call[r].confirm)'
  BY DEF Effects, SoundEffect
<1>5. (\A e \in Effects(r, "truncate") :
          SameTopic(r, e) /\ Targets(r)[e.part] >= 0 => e.lost <= plan[r].affected[e.part])'
  BY DEF Effects, SoundEffect, SameTopic, Targets
<1>6. (\A e \in Effects(r, "truncate") :
          Op(r) = "T12" /\ SameTopic(r, e) /\ e.lost > 0 => e.to <= At(seen[r].end, e.part))'
  BY DEF Effects, SoundEffect, SameTopic, Op
<1> QED
  BY <1>2, <1>3, <1>4, <1>5, <1>6 DEF RequestInv

(* Every change leaves the topics well formed and is sound. *)
Keeps(r) ==
    /\ TopicMoves
    /\ effect' \in [Requests -> SUBSET Effect]
    /\ effect[r] \subseteq effect'[r]
    /\ \A e \in effect'[r] : SoundEffect(r, e)

(* Doing nothing is sound. *)
LEMMA NoEffectKeeps ==
    ASSUME TopicAdminTypeOK, NEW r \in Requests, RequestInv(r), NoEffect
    PROVE  Keeps(r)
<1>1. \A e \in effect[r] : SoundEffect(r, e)
  BY DEF RequestInv, SoundEffect, Effects
<1>2. TopicMoves
  BY UnchangedMoves DEF NoEffect, TopicAdminTypeOK
<1> QED
  BY <1>1, <1>2 DEF Keeps, NoEffect, TopicAdminTypeOK

(* The trace of a change, field by field. *)
LEMMA OnTopicType ==
    ASSUME TopicsTypeOK, NEW n \in Names,
           NEW kind \in {"create", "delete", "configure", "grow", "truncate"},
           NEW part \in 0..MaxPartitions, NEW to \in 0..(MaxOffset + MaxPartitions),
           NEW lost \in 0..MaxOffset, Exists(n) \/ births < MaxBirths
    PROVE  /\ OnTopic(kind, n, part, to, lost) \in Effect
           /\ OnTopic(kind, n, part, to, lost).kind = kind
           /\ OnTopic(kind, n, part, to, lost).name = n
           /\ OnTopic(kind, n, part, to, lost).part = part
           /\ OnTopic(kind, n, part, to, lost).to = to
           /\ OnTopic(kind, n, part, to, lost).lost = lost
           /\ Exists(n) => OnTopic(kind, n, part, to, lost).id = topics[n].id
<1>1. Exists(n) => topics[n].id \in 1..MaxBirths
  BY TopicShape DEF Topic
<1>2. ~ Exists(n) => births + 1 \in 1..MaxBirths
  BY TopicsAssumption DEF TopicsTypeOK
<1> QED
  BY <1>1, <1>2 DEF OnTopic, Effect

(* Deleting some of the planned names is sound. *)
LEMMA DeleteKeeps ==
    ASSUME TopicAdminTypeOK, NEW r \in Requests, RequestInv(r), Applies(r, {"T7", "T8"}),
           NEW D \in SUBSET (plan[r].names \cap Existing), DeleteEffect(r, D)
    PROVE  Keeps(r)
<1> DEFINE S == {OnTopic("delete", n, 0, 0, 0) : n \in D}
<1>1. Removed(D) /\ Did(r, S)
  BY DEF DeleteEffect
<1>2. TopicMoves
  BY <1>1, RemovedMoves DEF TopicAdminTypeOK
<1>3. plan[r].names = call[r].confirm
  BY DEF Applies, RequestInv, PlanKept, HasPlan
<1>4. \A n \in D : n \in Names /\ Exists(n) /\ n \in call[r].confirm
  BY <1>3 DEF Existing
<1>5. 0 \in 0..MaxPartitions /\ 0 \in 0..(MaxOffset + MaxPartitions) /\ 0 \in 0..MaxOffset
  BY TopicsAssumption
<1>6. \A n \in D : /\ OnTopic("delete", n, 0, 0, 0) \in Effect
                   /\ OnTopic("delete", n, 0, 0, 0).kind = "delete"
                   /\ OnTopic("delete", n, 0, 0, 0).name = n
  BY <1>4, <1>5, OnTopicType DEF TopicAdminTypeOK
<1>7. S \in SUBSET Effect /\ \A e \in S : SoundEffect(r, e)
  BY <1>4, <1>6 DEF SoundEffect
<1> HIDE DEF S
<1> QED
  BY <1>1, <1>2, <1>7, SoundEffects DEF Keeps

(* Creations, growth and configuration remove nothing. *)
LEMMA HarmlessKeeps ==
    ASSUME TopicAdminTypeOK, NEW r \in Requests, RequestInv(r), TopicMoves, NEW n \in Names,
           NEW kind \in {"create", "configure", "grow"}, NEW to \in 0..(MaxOffset + MaxPartitions),
           Exists(n) \/ births < MaxBirths, Did(r, {OnTopic(kind, n, 0, to, 0)})
    PROVE  Keeps(r)
<1>1. 0 \in 0..MaxPartitions /\ 0 \in 0..MaxOffset
  BY TopicsAssumption
<1>2. OnTopic(kind, n, 0, to, 0) \in Effect /\ OnTopic(kind, n, 0, to, 0).kind = kind
  BY <1>1, OnTopicType DEF TopicAdminTypeOK
<1>3. SoundEffect(r, OnTopic(kind, n, 0, to, 0))
  BY <1>2 DEF SoundEffect
<1> QED
  BY <1>2, <1>3, SoundEffects DEF Keeps

(* What a request asks for has its type. *)
LEMMA CallFields ==
    ASSUME TopicAdminTypeOK, NEW r \in Requests, RequestInv(r), pc[r] # "idle"
    PROVE  /\ Name(r) \in Names /\ call[r].count \in 1..MaxPartitions /\ call[r].value \in Values
           /\ call[r].count \in 0..(MaxOffset + MaxPartitions)
           /\ call[r].items \in Seq(Names)
<1>1. call[r] \in Call /\ Name(r) \in Names
  BY CallType DEF RequestInv, Path
<1> QED
  BY <1>1, TopicsAssumption DEF Call

(* Creating is sound. *)
LEMMA CreateKeeps ==
    ASSUME TopicAdminTypeOK, NEW r \in Requests, RequestInv(r), pc[r] = "apply",
           NEW n \in Names, CreateEffect(r, n)
    PROVE  Keeps(r)
<1>1. Born(n, call[r].count, call[r].value) /\ Did(r, {OnTopic("create", n, 0, call[r].count, 0)})
  BY DEF CreateEffect
<1>2. TopicMoves /\ births < MaxBirths
  BY <1>1, CallFields, BornMoves DEF TopicAdminTypeOK
<1> QED
  BY <1>1, <1>2, CallFields, HarmlessKeeps

(* Configuring is sound. *)
LEMMA AlterKeeps ==
    ASSUME TopicAdminTypeOK, NEW r \in Requests, RequestInv(r), pc[r] = "apply", AlterEffect(r)
    PROVE  Keeps(r)
<1>1. /\ Exists(Name(r)) /\ Configured(Name(r), call[r].value)
      /\ Did(r, {OnTopic("configure", Name(r), 0, 0, 0)})
  BY DEF AlterEffect
<1>2. TopicMoves
  BY <1>1, CallFields, ConfiguredMoves DEF TopicAdminTypeOK
<1>3. 0 \in 0..(MaxOffset + MaxPartitions)
  BY TopicsAssumption
<1> QED
  BY <1>1, <1>2, <1>3, CallFields, HarmlessKeeps

(* Growing is sound. *)
LEMMA GrowKeeps ==
    ASSUME TopicAdminTypeOK, NEW r \in Requests, RequestInv(r), pc[r] = "apply", GrowEffect(r)
    PROVE  Keeps(r)
<1>1. /\ Exists(Name(r)) /\ call[r].count > Count(Name(r)) /\ Grown(Name(r), call[r].count)
      /\ Did(r, {OnTopic("grow", Name(r), 0, call[r].count, 0)})
  BY DEF GrowEffect
<1>2. Name(r) \in Names /\ call[r].count \in 1..MaxPartitions
  BY CallFields
<1>3. Count(Name(r)) \in 1..MaxPartitions
  BY <1>1, <1>2, TopicShape DEF TopicAdminTypeOK
<1>4. call[r].count >= Count(Name(r))
  BY <1>1, <1>2, <1>3, TopicsAssumption
<1>5. TopicMoves
  BY <1>1, <1>2, <1>4, GrownMoves DEF TopicAdminTypeOK
<1> QED
  BY <1>1, <1>2, <1>5, CallFields, HarmlessKeeps

(* A truncation of any of the planned partitions, on the topic there is.   *)
LEMMA TrimKeeps ==
    ASSUME TopicAdminTypeOK, NEW r \in Requests, RequestInv(r), Applies(r, {"T11", "T12"}),
           NEW P \in SUBSET DOMAIN Targets(r), TrimEffect(r, P)
    PROVE  Keeps(r)
<1> DEFINE n == Name(r)
           t == Targets(r)
           log(p) == topics[n].parts[p]
           trim(p) == Trimmed(log(p), t[p])
           ev(p) == OnTopic("truncate", n, p, trim(p).begin, trim(p).begin - log(p).begin)
           S == {ev(p) : p \in P}
<1>1. /\ Exists(n) /\ \A p \in P : CanTrim(n, p, t[p])
      /\ TrimmedAll(n, [p \in P |-> t[p]]) /\ Did(r, S)
  BY DEF TrimEffect
<1>2. n \in Names /\ Op(r) \in {"T11", "T12"} /\ pc[r] = "apply"
  BY CallFields DEF Applies
<1>3. TopicMoves
  <2> DEFINE to == [p \in P |-> t[p]]
  <2>1. \A p \in DOMAIN to : CanTrim(n, p, to[p])
    BY <1>1
  <2> HIDE DEF to
  <2> QED
    BY <1>1, <1>2, <2>1, TrimmedMoves DEF TopicAdminTypeOK, to
<1>4. /\ t = seen[r].targets
      /\ plan[r].affected = Affected(seen[r])
      /\ Truncatable(seen[r], seen[r].end)
      /\ Op(r) = "T12" => \A p \in DOMAIN t : t[p] >= 0
  BY <1>2 DEF RequestInv, PlanKept, HasPlan, Targets
<1>5. ASSUME NEW p \in P
      PROVE  ev(p) \in Effect /\ SoundEffect(r, ev(p))
  <2>1. p \in PartsOf(n) /\ (t[p] = -1 \/ t[p] \in 0..log(p).end)
    BY <1>1 DEF CanTrim
  <2>2. topics[n].parts \in [PartsOf(n) -> Log] /\ PartsOf(n) = 0..(Count(n) - 1)
        /\ Count(n) \in 1..MaxPartitions
    BY <1>1, <1>2, TopicShape DEF TopicAdminTypeOK
  <2>3. log(p) \in Log /\ p \in 0..MaxPartitions
    BY <2>1, <2>2, TopicsAssumption
  <2>4. /\ trim(p) \in Log /\ log(p).begin <= trim(p).begin
        /\ t[p] >= 0 => trim(p).begin = IF t[p] > log(p).begin THEN t[p] ELSE log(p).begin
    BY <2>1, <2>3, TrimmedType
  <2>5. trim(p).begin \in 0..MaxOffset /\ log(p).begin \in 0..MaxOffset
    BY <2>3, <2>4, LogType
  <2> DEFINE b == trim(p).begin
             lost == trim(p).begin - log(p).begin
  <2>6. b \in 0..(MaxOffset + MaxPartitions) /\ lost \in 0..MaxOffset
    BY <2>4, <2>5, TopicsAssumption
  <2>7. /\ ev(p) \in Effect /\ ev(p).kind = "truncate" /\ ev(p).part = p
        /\ ev(p).to = b /\ ev(p).lost = lost /\ ev(p).id = topics[n].id
    <3> HIDE DEF b, lost
    <3>1. ev(p) = OnTopic("truncate", n, p, b, lost)
      BY DEF b, lost
    <3> HIDE DEF ev
    <3> QED
      BY <1>1, <1>2, <2>3, <2>6, <3>1, OnTopicType DEF TopicAdminTypeOK
  <2>8. seen[r] \in Seen /\ p \in DOMAIN seen[r].targets
    BY <1>4 DEF TopicAdminTypeOK
  <2>9. /\ t[p] \in Int /\ At(seen[r].begin, p) \in Nat
        /\ plan[r].affected[p] =
              IF t[p] - At(seen[r].begin, p) < 0 THEN 0 ELSE t[p] - At(seen[r].begin, p)
    BY <1>4, <2>8, AffectedType
  <2>10. SameTopic(r, ev(p)) => At(seen[r].begin, p) <= log(p).begin
    <3>1. CASE p \in DOMAIN seen[r].begin
      BY <1>1, <1>2, <2>7, <3>1 DEF RequestInv, SeenBounds, SameTopic, At
    <3>2. CASE p \notin DOMAIN seen[r].begin
      BY <2>5, <3>2 DEF At
    <3> QED
      BY <3>1, <3>2
  <2>11. SameTopic(r, ev(p)) /\ t[p] >= 0 => lost <= plan[r].affected[p]
    BY <2>4, <2>5, <2>9, <2>10
  <2>12. Op(r) = "T12" /\ lost > 0 => b <= At(seen[r].end, p)
    <3>1. Op(r) = "T12" => t[p] >= 0 /\ t[p] <= At(seen[r].end, p)
      BY <1>4, <2>8 DEF Truncatable
    <3> QED
      BY <2>4, <2>5, <2>9, <3>1
  <2> HIDE DEF ev, b, lost, t
  <2> QED
    BY <2>7, <2>11, <2>12 DEF SoundEffect, t
<1>6. S \in SUBSET Effect /\ \A e \in S : SoundEffect(r, e)
  BY <1>5
<1> HIDE DEF S
<1> QED
  BY <1>1, <1>3, <1>6, SoundEffects DEF Keeps

(* Whatever a failed port call did is sound. *)
LEMMA ApplyFailsEffect ==
    ASSUME TopicAdminTypeOK, NEW r \in Requests, RequestInv(r), ApplyFails(r)
    PROVE  Keeps(r)
<1>1. pc[r] = "apply"
  BY DEF ApplyFails, Applies
<1>2. CASE NoEffect
  BY <1>2, NoEffectKeeps
<1>3. CASE Op(r) \in {"T7", "T8"} /\ \E D \in SUBSET (plan[r].names \cap Existing) : DeleteEffect(r, D)
  BY <1>1, <1>3, DeleteKeeps DEF Applies
<1>4. CASE CreateEffect(r, Name(r))
  BY <1>1, <1>4, CallFields, CreateKeeps
<1>5. CASE AlterEffect(r)
  BY <1>1, <1>5, AlterKeeps
<1>6. CASE GrowEffect(r)
  BY <1>1, <1>6, GrowKeeps
<1>7. CASE Op(r) \in {"T11", "T12"} /\ \E P \in SUBSET DOMAIN Targets(r) : TrimEffect(r, P)
  BY <1>1, <1>7, TrimKeeps DEF Applies
<1> QED
  BY <1>2, <1>3, <1>4, <1>5, <1>6, <1>7 DEF ApplyFails

(* The types that an apply changes beside the cluster and effect. *)
LEMMA ReportType ==
    ASSUME TopicAdminTypeOK, NEW r \in Requests, Keeps(r),
           NEW out \in {"SUCCEEDED", "FAILED"}, NEW answer \in Replies, Report(r, out, answer),
           UNCHANGED <<call, seen, plan>>, DOMAIN items' = Requests,
           \A q \in Requests : \A i \in DOMAIN items'[q] : items'[q][i] \in {"SUCCEEDED", "FAILED"}
    PROVE  TopicAdminTypeOK' /\ pc'[r] = "done"
BY DEF TopicAdminTypeOK, Keeps, TopicMoves, Report, Finish, Goto, Steps

(* Items that stay keep their type. *)
LEMMA ItemsSame ==
    TopicAdminTypeOK /\ UNCHANGED items =>
        /\ DOMAIN items' = Requests
        /\ \A q \in Requests : \A i \in DOMAIN items'[q] : items'[q][i] \in {"SUCCEEDED", "FAILED"}
BY DEF TopicAdminTypeOK

(* The answers an apply gives. *)
LEMMA RepliesKnown == "ok" \in Replies /\ "KafkaError" \in Replies
BY DEF Replies

(* Items that stay keep their trace. *)
LEMMA ItemsKept ==
    ASSUME TopicAdminTypeOK, NEW r \in Requests, RequestInv(r), pc'[r] # "apply",
           UNCHANGED <<call, items>>, effect[r] \subseteq effect'[r]
    PROVE  ItemsTrue(r)'
BY DEF RequestInv, ItemsTrue, Effects, Op

(* T7 and T8: the items called SUCCEEDED are among the deleted. *)
LEMMA DeletesKeeps ==
    ASSUME TopicAdminTypeOK, NEW r \in Requests, RequestInv(r), Deletes(r)
    PROVE  TopicAdminTypeOK' /\ TopicMoves /\ RequestInv(r)'
<1>1. Applies(r, {"T7", "T8"}) /\ pc[r] = "apply" /\ UNCHANGED <<call, seen, plan>>
  BY DEF Deletes, Applies
<1>2. PICK D \in SUBSET (plan[r].names \cap Existing) : \E good \in SUBSET D :
          /\ DeleteEffect(r, D)
          /\ \/ /\ Op(r) = "T8"
                /\ items' = [items EXCEPT ![r] = Mark(good, plan[r].names)]
                /\ Report(r, "SUCCEEDED", "ok")
             \/ /\ Op(r) = "T7"
                /\ IF good = {} THEN Report(r, "FAILED", "KafkaError") ELSE Report(r, "SUCCEEDED", "ok")
                /\ UNCHANGED items
  BY DEF Deletes
<1>3. Keeps(r)
  BY <1>1, <1>2, DeleteKeeps
<1>4. /\ DOMAIN items' = Requests
      /\ \A q \in Requests : \A i \in DOMAIN items'[q] : items'[q][i] \in {"SUCCEEDED", "FAILED"}
  <2>1. CASE UNCHANGED items
    BY <2>1, ItemsSame
  <2>2. ASSUME NEW good, items' = [items EXCEPT ![r] = Mark(good, plan[r].names)]
        PROVE  /\ DOMAIN items' = Requests
               /\ \A q \in Requests : \A i \in DOMAIN items'[q] :
                     items'[q][i] \in {"SUCCEEDED", "FAILED"}
    BY <2>2 DEF TopicAdminTypeOK, Mark
  <2> QED
    BY <1>2, <2>1, <2>2
<1>5. \E out \in {"SUCCEEDED", "FAILED"} : \E answer \in Replies : Report(r, out, answer)
  BY <1>2, RepliesKnown
<1>6. TopicAdminTypeOK' /\ pc'[r] = "done"
  BY <1>1, <1>3, <1>4, <1>5, ReportType
<1>7. ItemsTrue(r)'
  <2>1. CASE UNCHANGED items
    BY <1>1, <1>3, <1>6, <2>1, ItemsKept DEF Keeps
  <2>2. ASSUME Op(r) = "T8", NEW good \in SUBSET D, DeleteEffect(r, D),
               items' = [items EXCEPT ![r] = Mark(good, plan[r].names)]
        PROVE  ItemsTrue(r)'
    <3>1. items'[r] = Mark(good, plan[r].names)
      BY <2>2 DEF TopicAdminTypeOK
    <3>2. \A n \in DOMAIN items'[r] : items'[r][n] = "SUCCEEDED" => n \in good
      BY <3>1 DEF Mark
    <3>3. \A n \in D : OnTopic("delete", n, 0, 0, 0) \in effect'[r]
      BY <2>2 DEF DeleteEffect, Did, TopicAdminTypeOK
    <3>4. ASSUME NEW n \in D
          PROVE  \E e \in Effects(r, "delete")' : e.name = n
      <4> DEFINE d == OnTopic("delete", n, 0, 0, 0)
      <4>1. d.kind = "delete" /\ d.name = n
        BY DEF OnTopic
      <4>2. d \in effect'[r]
        BY <3>3
      <4> HIDE DEF d
      <4> QED
        BY <4>1, <4>2 DEF Effects
    <3>5. Op(r)' = "T8" /\ pc'[r] = "done"
      BY <1>1, <1>6, <2>2 DEF Op
    <3> QED
      BY <3>2, <3>4, <3>5 DEF ItemsTrue
  <2> QED
    BY <1>2, <2>1, <2>2
<1> QED
  BY <1>1, <1>3, <1>6, <1>7, ApplyKeeps DEF Keeps

(* The applies of one change and one report. *)
LEMMA OneReportKeeps ==
    ASSUME TopicAdminTypeOK, NEW r \in Requests, RequestInv(r),
           \/ Creates(r) \/ Grows(r) \/ Truncates(r) \/ ApplyFails(r) \/ ReportsBulk(r)
    PROVE  TopicAdminTypeOK' /\ TopicMoves /\ RequestInv(r)'
<1>1. pc[r] = "apply" /\ UNCHANGED <<call, seen, plan, items>>
  BY DEF Creates, Grows, Truncates, ApplyFails, ReportsBulk, Applies
<1>2. \E out \in {"SUCCEEDED", "FAILED"} : \E answer \in Replies : Report(r, out, answer)
  BY RepliesKnown DEF Creates, Grows, Truncates, ApplyFails, ReportsBulk
<1>3. Keeps(r)
  <2>1. CASE Creates(r)
    BY <1>1, <2>1, CallFields, CreateKeeps DEF Creates
  <2>2. CASE Grows(r)
    BY <1>1, <2>2, GrowKeeps DEF Grows
  <2>3. CASE Truncates(r)
    BY <1>1, <2>3, TrimKeeps DEF Truncates
  <2>4. CASE ApplyFails(r)
    BY <2>4, ApplyFailsEffect
  <2>5. CASE ReportsBulk(r)
    BY <2>5, NoEffectKeeps DEF ReportsBulk, NoEffect
  <2> QED
    BY <2>1, <2>2, <2>3, <2>4, <2>5
<1>4. TopicAdminTypeOK' /\ pc'[r] = "done"
  BY <1>1, <1>2, <1>3, ItemsSame, ReportType
<1>5. ItemsTrue(r)'
  BY <1>1, <1>3, <1>4, ItemsKept DEF Keeps
<1> QED
  BY <1>1, <1>3, <1>4, <1>5, ApplyKeeps DEF Keeps

(* T9 goes on to describe the topic. *)
LEMMA AltersKeeps ==
    ASSUME TopicAdminTypeOK, NEW r \in Requests, RequestInv(r), Alters(r)
    PROVE  TopicAdminTypeOK' /\ TopicMoves /\ RequestInv(r)'
<1>1. /\ pc[r] = "apply" /\ AlterEffect(r) /\ Goto(r, "reread")
      /\ UNCHANGED <<call, seen, plan, items, outcome, reply>>
  BY DEF Alters, Applies
<1>2. Keeps(r)
  BY <1>1, AlterKeeps
<1>3. TopicAdminTypeOK' /\ pc'[r] = "reread"
  BY <1>1, <1>2, ItemsSame DEF TopicAdminTypeOK, Keeps, TopicMoves, Goto, Steps
<1>4. ItemsTrue(r)'
  BY <1>1, <1>2, <1>3, ItemsKept DEF Keeps
<1> QED
  BY <1>1, <1>2, <1>3, <1>4, ApplyKeeps DEF Keeps

(* The description T9 ends with changes nothing. *)
LEMMA RereadsKeeps ==
    ASSUME TopicAdminTypeOK, NEW r \in Requests, RequestInv(r), Rereads(r)
    PROVE  TopicAdminTypeOK' /\ TopicMoves /\ RequestInv(r)'
<1>1. pc[r] = "reread" /\ UNCHANGED <<topicVars, call, seen, plan, items, effect>>
  BY DEF Rereads
<1>2. \E out \in {"SUCCEEDED", "FAILED"} : \E answer \in Replies : Report(r, out, answer)
  BY RepliesKnown DEF Rereads
<1>3. Keeps(r)
  BY <1>1, NoEffectKeeps DEF NoEffect
<1>4. TopicAdminTypeOK' /\ pc'[r] = "done"
  BY <1>1, <1>2, <1>3, ItemsSame, ReportType
<1>5. ItemsTrue(r)'
  BY <1>1, <1>3, <1>4, ItemsKept DEF Keeps
<1>6. SeenBounds(r)'
  BY <1>1, <1>3, CallFields, SeenBoundsKept DEF Keeps, RequestInv
<1>7. Path(r)' /\ NotYet(r)' /\ PlanKept(r)'
  BY <1>1, <1>4 DEF RequestInv, Path, NotYet, PlanKept, HasPlan, Op
<1>8. /\ call'[r] = call[r] /\ effect'[r] = effect[r] /\ plan'[r] = plan[r] /\ seen'[r] = seen[r]
  BY <1>1
<1> QED
  BY <1>3, <1>4, <1>5, <1>6, <1>7, <1>8
  DEF RequestInv, Keeps, Effects, SameTopic, Targets, Op

(* One item of T6. *)
LEMMA CreatesItemKeeps ==
    ASSUME TopicAdminTypeOK, NEW r \in Requests, RequestInv(r), CreatesItem(r)
    PROVE  TopicAdminTypeOK' /\ TopicMoves /\ RequestInv(r)'
<1> DEFINE i == Len(items[r]) + 1
           n == call[r].items[i]
<1>1. /\ pc[r] = "apply" /\ Op(r) = "T6" /\ Remaining(r) > 0
      /\ UNCHANGED <<call, pc, seen, plan, outcome, reply>>
  BY DEF CreatesItem, Applies
<1>2. items[r] \in Seq({"SUCCEEDED", "FAILED"})
  BY <1>1 DEF RequestInv, ItemsTrue
<1>3. i \in 1..Len(call[r].items) /\ n \in Names
  <2>1. call[r].items \in Seq(Names)
    BY <1>1, CallFields
  <2>2. Len(items[r]) \in Nat /\ Len(call[r].items) \in Nat
    BY <1>2, <2>1
  <2>3. Len(call[r].items) - Len(items[r]) > 0
    BY <1>1 DEF Remaining
  <2>4. \A a, b \in Nat : b - a > 0 => a + 1 \in 1..b
    OBVIOUS
  <2>5. i \in 1..Len(call[r].items)
    BY <2>2, <2>3, <2>4
  <2> QED
    BY <2>1, <2>5
<1>4. PICK out \in {"SUCCEEDED", "FAILED"} :
          /\ ItemDone(r, out)
          /\ CreateEffect(r, n) \/ NoEffect
          /\ out = "SUCCEEDED" => CreateEffect(r, n)
  BY DEF CreatesItem
<1> HIDE DEF i, n
<1>5. Keeps(r)
  BY <1>1, <1>3, <1>4, CreateKeeps, NoEffectKeeps
<1>6. items' = [items EXCEPT ![r] = Append(@, out)]
  BY <1>4 DEF ItemDone
<1>7. /\ items'[r] = Append(items[r], out)
      /\ \A q \in Requests \ {r} : items'[q] = items[q]
      /\ DOMAIN items' = Requests
  BY <1>6 DEF TopicAdminTypeOK
<1>8. /\ items'[r] \in Seq({"SUCCEEDED", "FAILED"})
      /\ DOMAIN items'[r] = 1..i
      /\ \A j \in DOMAIN items'[r] : items'[r][j] = IF j = i THEN out ELSE items[r][j]
      /\ \A j \in DOMAIN items'[r] : j = i \/ j \in DOMAIN items[r]
  BY <1>2, <1>7 DEF i
<1>9. \A q \in Requests : \A j \in DOMAIN items'[q] : items'[q][j] \in {"SUCCEEDED", "FAILED"}
  BY <1>7, <1>8 DEF TopicAdminTypeOK
<1>10. TopicAdminTypeOK'
  BY <1>1, <1>5, <1>7, <1>9 DEF TopicAdminTypeOK, Keeps, TopicMoves
<1>11. ItemsTrue(r)'
  <2>1. Op(r)' = "T6" /\ call'[r] = call[r]
    BY <1>1 DEF Op
  <2>2. ASSUME NEW j \in DOMAIN items'[r], items'[r][j] = "SUCCEEDED"
        PROVE  \E e \in Effects(r, "create")' : e.name = call[r].items[j]
    <3>1. CASE j = i
      <4>1. CreateEffect(r, n)
        BY <1>4, <1>8, <2>2, <3>1
      <4> DEFINE d == OnTopic("create", n, 0, call[r].count, 0)
      <4>2. d \in effect'[r]
        BY <4>1 DEF CreateEffect, Did, TopicAdminTypeOK
      <4>3. d.kind = "create" /\ d.name = n
        BY DEF OnTopic
      <4> HIDE DEF d
      <4> QED
        BY <3>1, <4>2, <4>3 DEF Effects, n
    <3>2. CASE j # i
      <4>1. j \in DOMAIN items[r] /\ items[r][j] = "SUCCEEDED"
        BY <1>8, <2>2, <3>2
      <4>2. \E e \in Effects(r, "create") : e.name = call[r].items[j]
        BY <1>1, <4>1 DEF RequestInv, ItemsTrue
      <4> QED
        BY <1>5, <4>2 DEF Keeps, Effects
    <3> QED
      BY <3>1, <3>2
  <2> QED
    BY <1>8, <2>1, <2>2 DEF ItemsTrue
<1>12. pc'[r] = "apply"
  BY <1>1
<1> QED
  BY <1>1, <1>5, <1>10, <1>11, <1>12, ApplyKeeps DEF Keeps

-----------------------------------------------------------------------------
(* Which command starts with which port call. *)
LEMMA FirstStep ==
    ASSUME NEW c \in Call
    PROVE  /\ First(c) \in Planning \ {"ends0", "starts", "ends", "confirm"}
           /\ First(c) = "purge" => c.op = "T12"
           /\ First(c) = "describe" => c.op \in {"T7", "T10", "T11"}
           /\ First(c) = "configs" => c.op = "T9"
           /\ First(c) = "attempt" => c.op = "T5"
           /\ c.op = "T12" => First(c) = "purge"
<1>1. c.op \in Ops /\ c.dryRun \in BOOLEAN
  BY DEF Call
<1> QED
  BY <1>1 DEF First, Ops, Planning

(* A new request has seen and done nothing. *)
LEMMA ReceiveKeeps ==
    ASSUME TopicAdminTypeOK, NEW r \in Requests, RequestInv(r), Receive(r)
    PROVE  TopicAdminTypeOK' /\ RequestInv(r)'
<1>1. PICK c \in Calls :
         /\ call' = [call EXCEPT ![r] = c]
         /\ Goto(r, First(c))
         /\ seen' = [seen EXCEPT ![r].targets = c.offsets]
  BY DEF Receive
<1>2. pc[r] = "idle" /\ UNCHANGED <<topicVars, plan, items, outcome, reply, effect>>
  BY DEF Receive
<1>3. c \in Call /\ c # NoCall
  <2>1. c \in Call
    BY CallAssumption
  <2> QED
    BY <2>1 DEF Call, Ops, NoCall
<1>4. call'[r] = c /\ pc'[r] = First(c) /\ Op(r)' = c.op
  BY <1>1 DEF TopicAdminTypeOK, Goto, Op
<1>5. seen[r] \in Seen /\ seen' = [seen EXCEPT ![r] = [seen[r] EXCEPT !.targets = c.offsets]]
  BY <1>1 DEF TopicAdminTypeOK
<1>6. [seen[r] EXCEPT !.targets = c.offsets] \in Seen
  BY <1>3, <1>5 DEF Seen, Call
<1>7. seen' \in [Requests -> Seen] /\ seen'[r].ids = seen[r].ids /\ seen'[r].begin = seen[r].begin
  BY <1>5, <1>6 DEF TopicAdminTypeOK, Seen
<1>8. First(c) \in Steps
  BY <1>3, FirstStep DEF Planning, Steps
<1>9. TopicAdminTypeOK'
  BY <1>1, <1>2, <1>7, <1>8 DEF TopicAdminTypeOK, TopicsTypeOK, topicVars, Goto
<1>10. effect'[r] = {} /\ items'[r] = << >> /\ seen'[r].ids = {}
  BY <1>2, <1>7 DEF RequestInv, NotYet
<1>11. SeenBounds(r)'
  BY <1>7, <1>10 DEF RequestInv, SeenBounds
<1>12. Path(r)' /\ NotYet(r)' /\ PlanKept(r)'
  BY <1>3, <1>4, <1>10, FirstStep DEF Path, NotYet, PlanKept, HasPlan, Planning
<1> QED
  BY <1>9, <1>10, <1>11, <1>12, Quiet

(* Every step of a handler keeps the invariant of its request. *)
LEMMA HandleKeeps ==
    ASSUME TopicAdminTypeOK, NEW r \in Requests, IdsBorn, RequestInv(r), Handle(r)
    PROVE  TopicAdminTypeOK' /\ TopicMoves /\ RequestInv(r)'
<1>1. CASE \/ Receive(r) \/ PurgeDescribes(r) \/ PurgeReadsEnds(r) \/ Describes(r)
           \/ ReadsStarts(r) \/ ReadsEnds(r) \/ ReadsConfigs(r) \/ ResolvesTargets(r)
           \/ ValidatesBulk(r) \/ DryRunCreate(r) \/ Confirms(r) \/ Attempts(r) \/ ReadFails(r)
  <2>1. TopicMoves
    <3>1. UNCHANGED topicVars
      BY <1>1 DEF Receive, PurgeDescribes, PurgeReadsEnds, Describes, ReadsStarts, ReadsEnds,
                  ReadsConfigs, ResolvesTargets, ValidatesBulk, DryRunCreate, Confirms,
                  Attempts, ReadFails
    <3> QED
      BY <3>1, UnchangedMoves DEF TopicAdminTypeOK
  <2> QED
    BY <1>1, <2>1, ReceiveKeeps, PurgeDescribesKeeps, PurgeReadsEndsKeeps, DescribesKeeps,
       ReadsStartsKeeps, ReadsEndsKeeps, ReadsConfigsKeeps, ResolvesTargetsKeeps,
       ValidatesBulkKeeps, DryRunCreateKeeps, ConfirmsKeeps, AttemptsKeeps, ReadFailsKeeps,
       ReadFailsType
<1>2. CASE \/ Deletes(r) \/ Creates(r) \/ Alters(r) \/ Rereads(r) \/ Grows(r) \/ Truncates(r)
           \/ ApplyFails(r) \/ CreatesItem(r) \/ ReportsBulk(r)
  BY <1>2, DeletesKeeps, OneReportKeeps, AltersKeeps, RereadsKeeps, CreatesItemKeeps
<1> QED
  BY <1>1, <1>2 DEF Handle

(* The invariant holds initially. *)
LEMMA InitEstablishes == Init => AdminInv
<1> SUFFICES ASSUME Init PROVE AdminInv
  OBVIOUS
<1>1. TopicAdminTypeOK
  <2>1. Unseen \in Seen
    <3>1. \A S : << >> \in [{} -> S]
      OBVIOUS
    <3>2. \A S : << >> \in OffsetMap(S)
      BY <3>1 DEF OffsetMap
    <3> QED
      BY <3>2 DEF Unseen, Seen
  <2> QED
    BY <2>1 DEF Init, TopicAdminTypeOK, TopicsTypeOK, Steps, Replies
<1>2. IdsBorn
  BY DEF Init, IdsBorn, Existing
<1>3. \A r \in Requests : RequestInv(r)
  BY DEF Init, RequestInv, Path, NotYet, PlanKept, HasPlan, SeenBounds, ItemsTrue, Effects, Unseen, Op, NoCall
<1> QED
  BY <1>1, <1>2, <1>3, AdminInvParts

(* Every step keeps the invariant. *)
LEMMA NextKeeps == AdminInv /\ [Next]_vars => AdminInv'
<1> SUFFICES ASSUME AdminInv, [Next]_vars PROVE AdminInv'
  OBVIOUS
<1>1. TopicAdminTypeOK /\ IdsBorn /\ \A r \in Requests : RequestInv(r)
  BY AdminInvParts
<1>2. TopicsTypeOK
  BY <1>1 DEF TopicAdminTypeOK
<1>3. SUFFICES TopicAdminTypeOK' /\ TopicMoves /\ \A q \in Requests : RequestInv(q)'
  <2>1. IdsBorn'
    BY <1>1, <1>2, <1>3, IdsStayBorn
  <2> QED
    BY <1>3, <2>1 DEF AdminInv, RequestInv, DeletesOnlyTheConfirmed, RemovesAsPlanned,
                      PurgeSparesNewRecords
<1>4. ASSUME NEW r \in Requests, Handle(r)
      PROVE  TopicAdminTypeOK' /\ TopicMoves /\ \A q \in Requests : RequestInv(q)'
  <2>1. TopicAdminTypeOK' /\ TopicMoves /\ RequestInv(r)'
    BY <1>1, <1>4, HandleKeeps
  <2>2. ASSUME NEW q \in Requests \ {r} PROVE RequestInv(q)'
    BY <1>1, <1>4, <2>1, <2>2, HandlesOnlyItself, PassedBy DEF Only
  <2> QED
    BY <2>1, <2>2
<1>5. CASE Others /\ UNCHANGED reqVars
  <2>1. TopicMoves
    BY <1>2, <1>5, OthersMove
  <2>2. TopicAdminTypeOK'
    BY <1>1, <1>5, <2>1 DEF TopicAdminTypeOK, TopicMoves, reqVars
  <2>3. ASSUME NEW q \in Requests PROVE RequestInv(q)'
    BY <1>1, <1>5, <2>1, PassedBy DEF reqVars
  <2> QED
    BY <2>1, <2>2, <2>3
<1>6. CASE UNCHANGED vars
  <2>1. UNCHANGED topicVars /\ UNCHANGED reqVars
    BY <1>6 DEF vars
  <2>2. TopicMoves
    BY <1>2, <2>1, UnchangedMoves
  <2>3. TopicAdminTypeOK'
    BY <1>1, <2>1, <2>2 DEF TopicAdminTypeOK, TopicMoves, reqVars
  <2>4. ASSUME NEW q \in Requests PROVE RequestInv(q)'
    BY <1>1, <2>1, <2>2, PassedBy DEF reqVars
  <2> QED
    BY <2>2, <2>3, <2>4
<1> QED
  BY <1>4, <1>5, <1>6 DEF Next

(* The invariant of the topic commands. *)
THEOREM AdminInvariance == Spec => []AdminInv
<1>1. Init => AdminInv
  BY InitEstablishes
<1>2. AdminInv /\ [Next]_vars => AdminInv'
  BY NextKeeps
<1> QED
  BY <1>1, <1>2, PTL DEF Spec

(* Every variable keeps its type. *)
THEOREM TopicAdminTypeCorrect == Spec => []TopicAdminTypeOK
<1>1. AdminInv => TopicAdminTypeOK
  BY DEF AdminInv
<1> QED
  BY <1>1, AdminInvariance, PTL

(* T7 and T8 delete nothing the caller did not name in the confirmation,   *)
(* however the cluster changes between the preview and the deletion.       *)
THEOREM DeletionsConfirmed == Spec => []DeletesOnlyTheConfirmed
<1>1. AdminInv => DeletesOnlyTheConfirmed
  BY DEF AdminInv
<1> QED
  BY <1>1, AdminInvariance, PTL

(* T11 and T12 remove at most what their plan announced.                   *)
THEOREM RemovalsPlanned == Spec => []RemovesAsPlanned
<1>1. AdminInv => RemovesAsPlanned
  BY DEF AdminInv
<1> QED
  BY <1>1, AdminInvariance, PTL

(* A purge spares the records produced after it was planned.               *)
THEOREM PurgeSpares == Spec => []PurgeSparesNewRecords
<1>1. AdminInv => PurgeSparesNewRecords
  BY DEF AdminInv
<1> QED
  BY <1>1, AdminInvariance, PTL

(* What a bulk answer calls SUCCEEDED was done by this very request.       *)
THEOREM BulkTruthful == Spec => []BulkItemsTruthful
<1>1. AdminInv => BulkItemsTruthful
  BY DEF AdminInv, ItemsTrue, BulkItemsTruthful
<1> QED
  BY <1>1, AdminInvariance, PTL

-----------------------------------------------------------------------------
(* The creations of T6 so far are told apart by the ids of their topics,   *)
(* and are as many as the items, if none of these failed.                  *)
Counted(r) ==
    /\ IsFiniteSet(Effects(r, "create"))
    /\ \A e \in Effects(r, "create") : e.id <= births
    /\ ~ AnyFailed(r) => Cardinality(Effects(r, "create")) >= Len(items[r])

(* SUCCEEDED is the last word, and said of all that was asked.             *)
Whole(r) ==
    /\ pc[r] = "validate" => call[r].dryRun
    /\ HasPlan(r) /\ Op(r) = "T7" => plan[r].names = {Name(r)}
    /\ pc[r] = "reread" => Op(r) = "T9" /\ Effects(r, "configure") # {}
    /\ pc[r] = "apply" /\ Op(r) = "T6" => Counted(r)
    /\ outcome[r] = "SUCCEEDED" => pc[r] = "done" /\ (~ call[r].dryRun => WholeEffect(r))

AllWhole == \A r \in Requests : Whole(r)

(* A request that has touched nothing and claims nothing.                  *)
LEMMA QuietIsWhole ==
    ASSUME NEW r \in Requests, effect'[r] = {}, items'[r] = << >>,
           pc'[r] \notin {"validate", "reread"},
           outcome'[r] = "SUCCEEDED" => pc'[r] = "done" /\ call'[r].dryRun,
           pc'[r] \in {"confirm", "attempt", "apply"} /\ call'[r].op = "T7"
              => plan'[r].names = {call'[r].name}
    PROVE  Whole(r)'
<1>1. Effects(r, "create")' = {}
  BY DEF Effects
<1>2. Cardinality({}) = 0 /\ IsFiniteSet({})
  BY FS_EmptySet
<1>3. Len(items'[r]) = 0
  OBVIOUS
<1>4. Counted(r)'
  <2>1. IsFiniteSet(Effects(r, "create"))' /\ Cardinality(Effects(r, "create"))' = 0
    BY <1>1, <1>2
  <2>2. Cardinality(Effects(r, "create"))' >= Len(items'[r])
    BY <1>3, <2>1
  <2>3. \A e \in Effects(r, "create")' : e.id <= births'
    BY <1>1
  <2> QED
    BY <2>1, <2>2, <2>3 DEF Counted
<1> QED
  BY <1>4 DEF Whole, HasPlan, Op, Name

(* A new request claims nothing.                                           *)
LEMMA ReceiveIsWhole ==
    ASSUME TopicAdminTypeOK, NEW r \in Requests, RequestInv(r), Whole(r), Receive(r)
    PROVE  Whole(r)'
<1>1. PICK c \in Calls : call' = [call EXCEPT ![r] = c] /\ Goto(r, First(c))
  BY DEF Receive
<1>2. c \in Call /\ call'[r] = c /\ pc'[r] = First(c)
  BY <1>1, CallAssumption DEF TopicAdminTypeOK, Goto
<1>3. pc[r] = "idle" /\ UNCHANGED <<plan, items, outcome, effect>>
  BY DEF Receive
<1>4. effect'[r] = {} /\ items'[r] = << >> /\ outcome'[r] # "SUCCEEDED"
  BY <1>3 DEF RequestInv, NotYet, Whole
<1>5. First(c) \in Planning \ {"confirm"} /\ (First(c) = "attempt" => c.op = "T5")
  BY <1>2, FirstStep
<1>6. First(c) = "validate" => c.dryRun
  BY <1>2 DEF First, Call, Ops
<1> QED
  BY <1>2, <1>4, <1>5, <1>6 DEF Whole, HasPlan, Op, Planning

(* What a step on the way to the apply says of the outcome and the plan.   *)
PlanningSays(r) ==
    /\ effect' = effect /\ items' = items /\ call' = call
    /\ pc[r] \in Planning /\ pc'[r] \notin {"validate", "reread"}
    /\ \/ outcome' = outcome
       \/ outcome' = [outcome EXCEPT ![r] = "SUCCEEDED"] /\ pc'[r] = "done" /\ call[r].dryRun
    /\ pc'[r] \in {"confirm", "attempt", "apply"} /\ Op(r) = "T7" =>
          \/ plan'[r].names = {Name(r)}
          \/ HasPlan(r) /\ plan' = plan

(* Each of these steps says so.                                            *)
LEMMA PlanningSteps ==
    ASSUME TopicAdminTypeOK, NEW r \in Requests, RequestInv(r), Whole(r),
           \/ ReadFails(r) \/ PurgeDescribes(r) \/ PurgeReadsEnds(r)
           \/ Describes(r) \/ ReadsStarts(r) \/ ReadsEnds(r) \/ ReadsConfigs(r)
           \/ ResolvesTargets(r) \/ ValidatesBulk(r) \/ DryRunCreate(r)
           \/ Confirms(r) \/ Attempts(r)
    PROVE  PlanningSays(r)
<1>1. CASE ReadFails(r)
  BY <1>1 DEF TopicAdminTypeOK, PlanningSays, Planning, ReadFails, Finish, Goto, Reading
<1>2. CASE PurgeDescribes(r)
  BY <1>2 DEF TopicAdminTypeOK, PlanningSays, Planning, PurgeDescribes, Reads, Goto
<1>3. CASE PurgeReadsEnds(r)
  BY <1>3 DEF TopicAdminTypeOK, PlanningSays, Planning, PurgeReadsEnds, Reads, Goto
<1>4. CASE Describes(r)
  BY <1>4 DEF TopicAdminTypeOK, PlanningSays, Planning, Describes, Reads, Finish, Planned, Goto
<1>5. CASE ReadsStarts(r)
  BY <1>5 DEF TopicAdminTypeOK, PlanningSays, Planning, ReadsStarts, Reads, Goto
<1>6. CASE ReadsEnds(r)
  BY <1>6 DEF TopicAdminTypeOK, PlanningSays, Planning, ReadsEnds, Reads, Finish, Planned, Goto
<1>7. CASE ReadsConfigs(r)
  BY <1>7 DEF TopicAdminTypeOK, PlanningSays, Planning, ReadsConfigs, Reads, Planned, Goto, NamePlan
<1>8. CASE ResolvesTargets(r)
  BY <1>8 DEF TopicAdminTypeOK, PlanningSays, Planning, ResolvesTargets, Finish, Planned, Goto
<1>9. CASE ValidatesBulk(r)
  BY <1>9 DEF TopicAdminTypeOK, PlanningSays, Planning, ValidatesBulk, Finish, Goto
<1>10. CASE DryRunCreate(r)
  BY <1>10 DEF TopicAdminTypeOK, PlanningSays, Planning, DryRunCreate, Finish, Goto, Whole
<1>11. CASE Confirms(r)
  BY <1>11 DEF TopicAdminTypeOK, PlanningSays, Planning, Confirms, Finish, Goto, HasPlan
<1>12. CASE Attempts(r)
  BY <1>12 DEF TopicAdminTypeOK, PlanningSays, Planning, Attempts, Finish, Goto, HasPlan
<1> QED
  BY <1>1, <1>2, <1>3, <1>4, <1>5, <1>6, <1>7, <1>8, <1>9, <1>10, <1>11, <1>12

(* So nothing is claimed on the way to the apply.                          *)
LEMMA PlanningIsWhole ==
    ASSUME TopicAdminTypeOK, NEW r \in Requests, RequestInv(r), Whole(r), PlanningSays(r)
    PROVE  Whole(r)'
<1>1. effect[r] = {} /\ items[r] = << >>
  BY DEF PlanningSays, Planning, RequestInv, NotYet
<1>2. effect'[r] = {} /\ items'[r] = << >> /\ call'[r] = call[r]
  BY <1>1 DEF PlanningSays
<1>3. outcome[r] # "SUCCEEDED"
  BY DEF PlanningSays, Planning, Whole
<1>4. outcome'[r] = "SUCCEEDED" => pc'[r] = "done" /\ call'[r].dryRun
  BY <1>2, <1>3 DEF PlanningSays, TopicAdminTypeOK
<1>5. pc'[r] \in {"confirm", "attempt", "apply"} /\ call'[r].op = "T7" =>
         plan'[r].names = {call'[r].name}
  BY <1>2 DEF PlanningSays, Whole, Op, Name
<1>6. pc'[r] \notin {"validate", "reread"}
  BY DEF PlanningSays
<1> QED
  BY <1>2, <1>4, <1>5, <1>6, QuietIsWhole

-----------------------------------------------------------------------------
(* A handler leaves the outcome of the others alone.                       *)
LEMMA OnlyItsOutcome ==
    ASSUME TopicAdminTypeOK, NEW r \in Requests, Handle(r)
    PROVE  \A q \in Requests \ {r} : outcome'[q] = outcome[q]
<1>1. outcome' = outcome \/ \E o : outcome' = [outcome EXCEPT ![r] = o]
  BY DEF Handle, Receive, ReadFails, PurgeDescribes, PurgeReadsEnds, Describes, ReadsStarts, ReadsEnds,
         ReadsConfigs, ResolvesTargets, ValidatesBulk, DryRunCreate, Confirms, Attempts, Deletes, Creates,
         Alters, Rereads, Grows, Truncates, ApplyFails, CreatesItem, ReportsBulk, Report
<1> QED
  BY <1>1 DEF TopicAdminTypeOK

(* A request that another one's step, or another client's, passes by.      *)
LEMMA WholePassedBy ==
    ASSUME TopicAdminTypeOK, NEW q \in Requests, Whole(q), TopicMoves,
           call'[q] = call[q], pc'[q] = pc[q], plan'[q] = plan[q], items'[q] = items[q],
           effect'[q] = effect[q], outcome'[q] = outcome[q]
    PROVE  Whole(q)'
<1>1. Effects(q, "create") \subseteq Effect
  BY DEF TopicAdminTypeOK, Effects
<1>2. \A e \in Effects(q, "create") : e.id \in Int
  BY <1>1 DEF Effect
<1>3. births \in Int /\ births' \in Int /\ births <= births'
  BY DEF TopicMoves, TopicAdminTypeOK, TopicsTypeOK
<1>4. Effects(q, "create")' = Effects(q, "create")
  BY DEF Effects
<1>5. Counted(q) => Counted(q)'
  <2> SUFFICES ASSUME Counted(q) PROVE Counted(q)'
    OBVIOUS
  <2>1. \A e \in Effects(q, "create")' : e.id <= births'
    BY <1>2, <1>3, <1>4 DEF Counted
  <2>2. AnyFailed(q)' <=> AnyFailed(q)
    BY DEF AnyFailed
  <2> QED
    BY <1>4, <2>1, <2>2 DEF Counted
<1>6. WholeEffect(q) => WholeEffect(q)'
  BY DEF WholeEffect, Effects, Op, Name, Targets
<1> QED
  BY <1>5, <1>6 DEF Whole, HasPlan, Op, Name, Effects

(* An apply that ends the request, truthfully.                             *)
LEMMA ReportIsWhole ==
    ASSUME TopicAdminTypeOK, NEW r \in Requests, NEW out, NEW answer, Report(r, out, answer),
           out = "SUCCEEDED" => WholeEffect(r)'
    PROVE  Whole(r)'
<1>1. pc'[r] = "done" /\ outcome'[r] = out
  BY DEF TopicAdminTypeOK, Report, Finish, Goto
<1> QED
  BY <1>1 DEF Whole, HasPlan

(* What is done is in effect.                                              *)
LEMMA DidIt ==
    ASSUME TopicAdminTypeOK, NEW r \in Requests, NEW S, Did(r, S)
    PROVE  effect'[r] = effect[r] \cup S
BY DEF TopicAdminTypeOK, Did

(* T7 succeeds when its topic is deleted; T8 is not judged as a whole.     *)
LEMMA DeletesIsWhole ==
    ASSUME TopicAdminTypeOK, NEW r \in Requests, RequestInv(r), Whole(r), Deletes(r)
    PROVE  Whole(r)'
<1>1. Applies(r, {"T7", "T8"}) /\ UNCHANGED <<call, plan>>
  BY DEF Deletes
<1>2. PICK D \in SUBSET (plan[r].names \cap Existing) : \E good \in SUBSET D :
          /\ DeleteEffect(r, D)
          /\ \/ Op(r) = "T8" /\ Report(r, "SUCCEEDED", "ok")
             \/ /\ Op(r) = "T7"
                /\ IF good = {} THEN Report(r, "FAILED", "KafkaError") ELSE Report(r, "SUCCEEDED", "ok")
  BY DEF Deletes
<1>3. PICK good \in SUBSET D :
          /\ DeleteEffect(r, D)
          /\ \/ Op(r) = "T8" /\ Report(r, "SUCCEEDED", "ok")
             \/ /\ Op(r) = "T7"
                /\ IF good = {} THEN Report(r, "FAILED", "KafkaError") ELSE Report(r, "SUCCEEDED", "ok")
  BY <1>2
<1>4. Op(r)' = Op(r) /\ Name(r)' = Name(r)
  BY <1>1 DEF Op, Name
<1>5. CASE Op(r) = "T8"
  <2>1. WholeEffect(r)'
    BY <1>4, <1>5 DEF WholeEffect
  <2> QED
    BY <1>3, <1>5, <2>1, ReportIsWhole
<1>6. CASE Op(r) = "T7" /\ good = {}
  BY <1>3, <1>6, ReportIsWhole
<1>7. CASE Op(r) = "T7" /\ good # {}
  <2>1. plan[r].names = {Name(r)}
    BY <1>1, <1>7 DEF Applies, Whole, HasPlan
  <2>2. Name(r) \in D
    BY <1>7, <2>1
  <2>3. effect'[r] = effect[r] \cup {OnTopic("delete", n, 0, 0, 0) : n \in D}
    BY <1>3, DidIt DEF DeleteEffect
  <2>4. OnTopic("delete", Name(r), 0, 0, 0) \in Effects(r, "delete")'
    BY <2>2, <2>3 DEF Effects, OnTopic
  <2>5. OnTopic("delete", Name(r), 0, 0, 0).name = Name(r)
    BY DEF OnTopic
  <2>6. WholeEffect(r)'
    BY <1>4, <1>7, <2>4, <2>5 DEF WholeEffect
  <2> QED
    BY <1>3, <1>7, <2>6, ReportIsWhole
<1> QED
  BY <1>3, <1>5, <1>6, <1>7

(* T5 and T10 succeed when their topic is made, or grown to what was asked *)
(* for; T9 waits for a fresh description.                                  *)
LEMMA OneTopicIsWhole ==
    ASSUME TopicAdminTypeOK, NEW r \in Requests, RequestInv(r), Whole(r),
           Creates(r) \/ Grows(r) \/ Alters(r) \/ Rereads(r)
    PROVE  Whole(r)'
<1>1. UNCHANGED <<call, plan>> /\ Op(r)' = Op(r) /\ Name(r)' = Name(r)
  BY DEF Creates, Grows, Alters, Rereads, Op, Name
<1>2. CASE Creates(r)
  <2>1. Op(r) = "T5" /\ Report(r, "SUCCEEDED", "ok")
    BY <1>2 DEF Creates, Applies
  <2> DEFINE e == OnTopic("create", Name(r), 0, call[r].count, 0)
  <2>2. effect'[r] = effect[r] \cup {e}
    BY <1>2, DidIt DEF Creates, CreateEffect
  <2>3. e.kind = "create"
    BY DEF OnTopic
  <2> HIDE DEF e
  <2>4. Effects(r, "create")' # {}
    BY <2>2, <2>3 DEF Effects
  <2> QED
    BY <1>1, <2>1, <2>4, ReportIsWhole DEF WholeEffect
<1>3. CASE Grows(r)
  <2>1. Op(r) = "T10" /\ Report(r, "SUCCEEDED", "ok")
    BY <1>3 DEF Grows, Applies
  <2> DEFINE e == OnTopic("grow", Name(r), 0, call[r].count, 0)
  <2>2. effect'[r] = effect[r] \cup {e}
    BY <1>3, DidIt DEF Grows, GrowEffect
  <2>3. e.kind = "grow" /\ e.to = call[r].count
    BY DEF OnTopic
  <2> HIDE DEF e
  <2>4. \E g \in Effects(r, "grow")' : g.to = call'[r].count
    BY <1>1, <2>2, <2>3 DEF Effects
  <2> QED
    BY <1>1, <2>1, <2>4, ReportIsWhole DEF WholeEffect
<1>4. CASE Alters(r)
  <2>1. Op(r) = "T9" /\ pc'[r] = "reread" /\ outcome'[r] # "SUCCEEDED"
    BY <1>4 DEF Alters, Applies, Goto, Whole, TopicAdminTypeOK
  <2> DEFINE e == OnTopic("configure", Name(r), 0, 0, 0)
  <2>2. effect'[r] = effect[r] \cup {e}
    BY <1>4, DidIt DEF Alters, AlterEffect
  <2>3. e.kind = "configure"
    BY DEF OnTopic
  <2> HIDE DEF e
  <2>4. Effects(r, "configure")' # {}
    BY <2>2, <2>3 DEF Effects
  <2> QED
    BY <1>1, <2>1, <2>4 DEF Whole, HasPlan
<1>5. CASE Rereads(r)
  <2>1. Op(r) = "T9" /\ Effects(r, "configure") # {} /\ effect' = effect
    BY <1>5 DEF Rereads, Whole
  <2>2. WholeEffect(r)'
    BY <1>1, <2>1 DEF WholeEffect, Effects
  <2>3. Report(r, "SUCCEEDED", "ok") \/ Report(r, "FAILED", "KafkaError")
    BY <1>5 DEF Rereads
  <2> QED
    BY <2>2, <2>3, ReportIsWhole
<1> QED
  BY <1>2, <1>3, <1>4, <1>5

(* T11 and T12 succeed when every partition of the plan is truncated.      *)
LEMMA TruncatesIsWhole ==
    ASSUME TopicAdminTypeOK, NEW r \in Requests, RequestInv(r), Truncates(r)
    PROVE  Whole(r)'
<1>1. Applies(r, {"T11", "T12"}) /\ UNCHANGED <<call, plan>> /\ Report(r, "SUCCEEDED", "ok")
  BY DEF Truncates
<1>2. effect[r] = {} /\ Op(r)' = Op(r) /\ Op(r) \in {"T11", "T12"} /\ Targets(r)' = Targets(r)
  BY <1>1 DEF Applies, RequestInv, NotYet, Op, Targets
<1> DEFINE n == Name(r)
           P == DOMAIN Targets(r)
           log(p) == topics[n].parts[p]
           trim(p) == Trimmed(log(p), Targets(r)[p])
           ev(p) == OnTopic("truncate", n, p, trim(p).begin, trim(p).begin - log(p).begin)
<1>3. Did(r, {ev(p) : p \in P})
  BY DEF Truncates, TrimEffect
<1>4. effect'[r] = {ev(p) : p \in P}
  BY <1>2, <1>3, DidIt
<1>5. \A p \in P : ev(p).part = p /\ ev(p).kind = "truncate"
  BY DEF OnTopic
<1> HIDE DEF ev, P
<1>6. Effects(r, "truncate")' = {ev(p) : p \in P}
  BY <1>4, <1>5 DEF Effects
<1>7. {e.part : e \in {ev(p) : p \in P}} = P
  BY <1>5
<1>8. {e.part : e \in Effects(r, "truncate")'} = DOMAIN Targets(r)'
  BY <1>2, <1>6, <1>7 DEF P
<1> QED
  BY <1>1, <1>2, <1>8, ReportIsWhole DEF WholeEffect

(* A new creation is told apart from those before it.                      *)
LEMMA OneMore ==
    ASSUME TopicAdminTypeOK, NEW r \in Requests, Counted(r), NEW n \in Names, CreateEffect(r, n)
    PROVE  /\ IsFiniteSet(Effects(r, "create")')
           /\ \A e \in Effects(r, "create")' : e.id <= births'
           /\ Cardinality(Effects(r, "create")') = Cardinality(Effects(r, "create")) + 1
           /\ Cardinality(Effects(r, "create")) \in Nat
<1> DEFINE e == OnTopic("create", n, 0, call[r].count, 0)
<1>1. effect'[r] = effect[r] \cup {e}
  BY DidIt DEF CreateEffect
<1>2. ~ Exists(n) /\ births' = births + 1 /\ births \in Int
  BY DEF CreateEffect, Born, TopicAdminTypeOK, TopicsTypeOK
<1>3. e.kind = "create" /\ e.id = births + 1
  BY <1>2 DEF OnTopic
<1> HIDE DEF e
<1>4. Effects(r, "create")' = Effects(r, "create") \cup {e}
  BY <1>1, <1>3 DEF Effects
<1>5. \A x \in Effects(r, "create") : x.id \in Int /\ x.id <= births
  <2>1. \A x \in Effects(r, "create") : x \in Effect
    BY DEF TopicAdminTypeOK, Effects
  <2> QED
    BY <2>1 DEF Counted, Effect
<1>6. e \notin Effects(r, "create")
  BY <1>2, <1>3, <1>5
<1>7. \A x \in Effects(r, "create")' : x.id <= births'
  BY <1>2, <1>3, <1>4, <1>5
<1>8. IsFiniteSet(Effects(r, "create"))
  BY DEF Counted
<1> QED
  BY <1>4, <1>6, <1>7, <1>8, FS_AddElement, FS_CardinalityType

(* One item more: a creation more, unless it failed.                       *)
LEMMA CreatesItemIsWhole ==
    ASSUME TopicAdminTypeOK, NEW r \in Requests, RequestInv(r), Whole(r), CreatesItem(r)
    PROVE  Whole(r)'
<1>1. pc[r] = "apply" /\ Op(r) = "T6" /\ Remaining(r) > 0 /\ UNCHANGED <<call, pc, plan, outcome>>
  BY DEF CreatesItem, Applies
<1>2. items[r] \in Seq({"SUCCEEDED", "FAILED"}) /\ Counted(r) /\ call[r] \in Call
  BY <1>1, CallType DEF RequestInv, Path, ItemsTrue, Whole
<1> DEFINE n == call[r].items[Len(items[r]) + 1]
<1>3. n \in Names
  <2>1. call[r].items \in Seq(Names) /\ Len(items[r]) \in Nat
    BY <1>2 DEF Call
  <2>2. Len(call[r].items) \in Nat
    BY <2>1
  <2>3. Len(call[r].items) - Len(items[r]) > 0
    BY <1>1 DEF Remaining
  <2>4. \A k, m \in Nat : k - m > 0 => m + 1 \in 1..k
    OBVIOUS
  <2>5. Len(items[r]) + 1 \in 1..Len(call[r].items)
    BY <2>1, <2>2, <2>3, <2>4
  <2> QED
    BY <2>1, <2>5
<1>4. PICK out \in {"SUCCEEDED", "FAILED"} :
          /\ ItemDone(r, out)
          /\ CreateEffect(r, n) \/ (NoEffect /\ out = "FAILED")
  BY DEF CreatesItem
<1> HIDE DEF n
<1>5. items'[r] = Append(items[r], out)
  BY <1>4 DEF ItemDone, TopicAdminTypeOK
<1>6. Len(items'[r]) = Len(items[r]) + 1 /\ Len(items[r]) \in Nat
  BY <1>2, <1>5
<1>7. ~ AnyFailed(r)' => ~ AnyFailed(r) /\ out # "FAILED"
  BY <1>2, <1>5 DEF AnyFailed
<1>8. Counted(r)'
  <2>1. CASE CreateEffect(r, n)
    <3>1. /\ IsFiniteSet(Effects(r, "create")')
          /\ \A e \in Effects(r, "create")' : e.id <= births'
          /\ Cardinality(Effects(r, "create")') = Cardinality(Effects(r, "create")) + 1
          /\ Cardinality(Effects(r, "create")) \in Nat
      BY <1>2, <1>3, <2>1, OneMore
    <3>2. ~ AnyFailed(r)' => Cardinality(Effects(r, "create")') >= Len(items'[r])
      BY <1>2, <1>6, <1>7, <3>1 DEF Counted
    <3> QED
      BY <3>1, <3>2 DEF Counted
  <2>2. CASE NoEffect /\ out = "FAILED"
    <3>1. Effects(r, "create")' = Effects(r, "create") /\ births' = births
      BY <2>2 DEF NoEffect, Effects, topicVars
    <3>2. AnyFailed(r)'
      BY <1>7, <2>2
    <3> QED
      BY <1>2, <3>1, <3>2 DEF Counted
  <2> QED
    BY <1>4, <2>1, <2>2
<1> QED
  BY <1>1, <1>8 DEF Whole, HasPlan, Op

(* T6 succeeds when no item failed.                                        *)
LEMMA ReportsBulkIsWhole ==
    ASSUME TopicAdminTypeOK, NEW r \in Requests, RequestInv(r), Whole(r), ReportsBulk(r)
    PROVE  Whole(r)'
<1>1. /\ pc[r] = "apply" /\ Op(r) = "T6" /\ Remaining(r) = 0
      /\ UNCHANGED <<topicVars, call, plan, items, effect>>
      /\ Report(r, IF AnyFailed(r) THEN "FAILED" ELSE "SUCCEEDED", "ok")
  BY DEF ReportsBulk, Applies
<1>2. items[r] \in Seq({"SUCCEEDED", "FAILED"}) /\ Counted(r) /\ call[r] \in Call
  BY <1>1, CallType DEF RequestInv, Path, ItemsTrue, Whole
<1>3. Len(call[r].items) = Len(items[r])
  <2>1. call[r].items \in Seq(Names)
    BY <1>2 DEF Call
  <2> QED
    BY <1>1, <1>2, <2>1 DEF Remaining
<1>4. ~ AnyFailed(r) => Cardinality(Effects(r, "create")) >= Len(call[r].items)
  BY <1>2, <1>3 DEF Counted
<1>5. ~ AnyFailed(r) => WholeEffect(r)'
  BY <1>1, <1>4 DEF WholeEffect, Effects, Op
<1>6. CASE AnyFailed(r)
  BY <1>1, <1>6, ReportIsWhole
<1>7. CASE ~ AnyFailed(r)
  BY <1>1, <1>5, <1>7, ReportIsWhole
<1> QED
  BY <1>6, <1>7

(* Every step of a handler keeps its request whole.                        *)
LEMMA HandleIsWhole ==
    ASSUME TopicAdminTypeOK, NEW r \in Requests, RequestInv(r), Whole(r), Handle(r)
    PROVE  Whole(r)'
<1>1. CASE Receive(r)
  BY <1>1, ReceiveIsWhole
<1>2. CASE \/ ReadFails(r) \/ PurgeDescribes(r) \/ PurgeReadsEnds(r)
           \/ Describes(r) \/ ReadsStarts(r) \/ ReadsEnds(r) \/ ReadsConfigs(r)
           \/ ResolvesTargets(r) \/ ValidatesBulk(r) \/ DryRunCreate(r)
           \/ Confirms(r) \/ Attempts(r)
  BY <1>2, PlanningSteps, PlanningIsWhole
<1>3. CASE Deletes(r)
  BY <1>3, DeletesIsWhole
<1>4. CASE Creates(r) \/ Grows(r) \/ Alters(r) \/ Rereads(r)
  BY <1>4, OneTopicIsWhole
<1>5. CASE Truncates(r)
  BY <1>5, TruncatesIsWhole
<1>6. CASE ApplyFails(r)
  <2>1. Report(r, "FAILED", "KafkaError")
    BY <1>6 DEF ApplyFails
  <2> QED
    BY <2>1, ReportIsWhole
<1>7. CASE CreatesItem(r)
  BY <1>7, CreatesItemIsWhole
<1>8. CASE ReportsBulk(r)
  BY <1>8, ReportsBulkIsWhole
<1> QED
  BY <1>1, <1>2, <1>3, <1>4, <1>5, <1>6, <1>7, <1>8 DEF Handle

(* At first nothing is claimed.                                            *)
LEMMA InitIsWhole == Init => AllWhole
BY DEF Init, AllWhole, Whole, HasPlan

(* Every step keeps every request whole.                                   *)
LEMMA NextIsWhole == AdminInv /\ AllWhole /\ [Next]_vars => AllWhole'
<1> SUFFICES ASSUME AdminInv, AllWhole, [Next]_vars PROVE AllWhole'
  OBVIOUS
<1>1. TopicAdminTypeOK /\ IdsBorn /\ \A r \in Requests : RequestInv(r)
  BY AdminInvParts
<1>2. TopicsTypeOK
  BY <1>1 DEF TopicAdminTypeOK
<1>3. ASSUME NEW r \in Requests, Handle(r)
      PROVE  AllWhole'
  <2>1. TopicMoves /\ Whole(r)'
    BY <1>1, <1>3, HandleKeeps, HandleIsWhole DEF AllWhole
  <2>2. ASSUME NEW q \in Requests \ {r} PROVE Whole(q)'
    BY <1>1, <1>3, <2>1, <2>2, HandlesOnlyItself, OnlyItsOutcome, WholePassedBy DEF Only, AllWhole
  <2> QED
    BY <2>1, <2>2 DEF AllWhole
<1>4. CASE Others /\ UNCHANGED reqVars
  <2>1. TopicMoves
    BY <1>2, <1>4, OthersMove
  <2>2. ASSUME NEW q \in Requests PROVE Whole(q)'
    BY <1>1, <1>4, <2>1, WholePassedBy DEF reqVars, AllWhole
  <2> QED
    BY <2>2 DEF AllWhole
<1>5. CASE UNCHANGED vars
  <2>1. UNCHANGED topicVars /\ UNCHANGED reqVars
    BY <1>5 DEF vars
  <2>2. TopicMoves
    BY <1>2, <2>1, UnchangedMoves
  <2>3. ASSUME NEW q \in Requests PROVE Whole(q)'
    BY <1>1, <2>1, <2>2, WholePassedBy DEF reqVars, AllWhole
  <2> QED
    BY <2>3 DEF AllWhole
<1> QED
  BY <1>3, <1>4, <1>5 DEF Next

(* A command other than T8 that the trail calls SUCCEEDED did all that it  *)
(* was asked for: each partition, each item, and not one of them twice.    *)
THEOREM SuccessesWhole == Spec => []SuccessIsWhole
<1>1. Init => AllWhole
  BY InitIsWhole
<1>2. AdminInv /\ AllWhole /\ [Next]_vars => AllWhole'
  BY NextIsWhole
<1>3. AllWhole => SuccessIsWhole
  BY DEF AllWhole, Whole, SuccessIsWhole
<1> QED
  BY <1>1, <1>2, <1>3, AdminInvariance, PTL DEF Spec
=============================================================================
