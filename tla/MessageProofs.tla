---------------------------- MODULE MessageProofs ----------------------------
(***************************************************************************)
(* What the message reads and writes promise, for any topic, requests,     *)
(* gates and bounds, whatever the topic does meanwhile.                    *)
(***************************************************************************)
EXTENDS Writes, ScanProofs

(* The log, which every record of is before its end.                       *)
LogInv ==
    /\ live \in [Partitions -> SUBSET Offsets]
    /\ hw \in [Partitions -> 0..MaxOffset]
    /\ \A p \in Partitions : \A o \in live[p] : o < hw[p]

-----------------------------------------------------------------------------
(* A read on its way: what has been checked, asked and told so far.        *)
Reading == {"bounds", "ends", "begins", "fromTimes", "toTimes", "windows", "scan", "poll", "count"}

(* Each command goes its own way.                                          *)
Way ==
    IF ask.id = "M2" THEN {"handler", "gate", "poll", "replied"}
    ELSE IF ask.id = "T4" THEN {"handler", "fromTimes", "toTimes", "ends", "count", "replied"}
    ELSE {"handler", "gate", "replied"} \cup (Reading \ {"poll", "count"})

(* It went through the gate, which T4 does not have.                       *)
PassedGate == Verdict1 = "pass" /\ ask.id # "T4"

(* A read has been parsed, and gated before Kafka is asked for data; until *)
(* it is answered there is nothing to tell.                                *)
FlowInv ==
    /\ ask \in Asks /\ policy \in Policies
    /\ at \in Way
    /\ at \in Reading => PassedGate \/ ask.id = "T4"
    /\ at \notin {"handler", "replied"} => ~ Unparsable
    /\ touched => PassedGate /\ at \notin {"handler", "gate", "bounds"}
    /\ at # "replied" => answer = NoAnswer /\ got = <<>>
    /\ LockHolds

(* The offsets listed: the log only grows at its end, and loses records.   *)
ListedInv ==
    /\ {ends, begins, fromTimes, toTimes, came} \subseteq [Partitions -> 0..MaxOffset]
    /\ \A p \in Partitions :
          /\ ends[p] <= hw[p] /\ begins[p] <= hw[p] /\ fromTimes[p] <= hw[p] /\ came[p] <= hw[p]
          /\ \A o \in live[p] : begins[p] <= o
          /\ \A o \in live[p] : Time[<<p, o>>] >= ask.from.at => fromTimes[p] <= o

(* An offset none of whose predecessors has the time yet is before t's.    *)
Before(t, time, p, o) == (\A n \in 0..o : Time[<<p, n>>] < time) => o < t[p]

(* The windows are known.                                                  *)
Listed == at \in {"windows", "scan"} \/ Scanned

(* What is known then of a listing of the offsets up to a time.            *)
UpToInv ==
    Listed /\ ask.to.kind = "timestamp" =>
        \A p \in Partitions : \A o \in 0..(ends[p] - 1) : Before(toTimes, ask.to.at, p, o)

(* T4 has counted.                                                         *)
Told == answer.code = "count"

(* What T4 knows of its listings, which come in an order of their own: of  *)
(* the times for the records it found, and of the end, listed last, that   *)
(* the log has not shrunk.                                                 *)
SubtractInv ==
    ask.id = "T4" =>
        /\ at \in {"toTimes", "ends", "count"} \/ Told =>
               \A p \in Partitions : \A o \in 0..(came[p] - 1) : Before(fromTimes, ask.from.at, p, o)
        /\ at \in {"ends", "count"} \/ Told =>
               \A p \in Partitions : \A o \in 0..(came[p] - 1) : Before(toTimes, ask.to.at, p, o)
        /\ at = "count" \/ Told => \A p \in Partitions : fromTimes[p] <= ends[p]

(* A scan of a partition the topic does not have reads nothing.            *)
StrayInv ==
    /\ Scope \cap Partitions = {} /\ Scope # {}
    /\ items = <<>> /\ seen = {} /\ bounds \in Bound
    /\ pc \in {"assign", "loop", "drain", "done", "failed"}
    /\ WindowsExhausted

(* The scan of the windows keeps the invariant of module ScanProofs; until *)
(* they are known it has not started, and it is over when they are read.   *)
RunInv ==
    /\ IF Scope \subseteq Partitions THEN EmitInv ELSE StrayInv
    /\ at \notin {"scan", "replied"} => Started(window) /\ window = <<>> /\ bounds \in Bound
    /\ at = "scan" \/ Scanned \/ window # <<>> =>
           /\ window = Windows1 /\ bounds.latest = (ask.from.kind = "latest")
           /\ ~ Unparsable /\ ask.id # "M2"
    /\ Scanned => pc = "done"

(* What the caller was told is what was listed, or what was found.         *)
AnswerInv ==
    /\ answer.code = "count" =>
          /\ ask.id = "T4" /\ ~ Unparsable
          /\ answer.plan = [p \in Partitions |-> CountEnd(p) - fromTimes[p]]
    /\ GetIsTheRecord

(* The inductive invariant of a read.                                      *)
ReadsInv == LogInv /\ FlowInv /\ ListedInv /\ UpToInv /\ SubtractInv /\ RunInv /\ AnswerInv

-----------------------------------------------------------------------------
(* A write leaves the read's variables as they were.                       *)
Idle ==
    /\ where # "off" => /\ at = "handler" /\ ~ touched /\ got = <<>> /\ answer = NoAnswer
                        /\ sub \in Submissions

(* A record that is reported written.                                      *)
Acknowledged(i) ==
    LET p == results[i].partition
        o == results[i].offset
    IN  /\ p \in Partitions /\ o \in 0..(hw[p] - 1)
        /\ <<p, o>> \in written
        /\ batch1[i].partition # NoPartition => p = batch1[i].partition
        /\ content[<<p, o>>] = Bytes(batch1[i])

(* The result of a record.                                                 *)
Result == [outcome : {"SUCCEEDED", "FAILED"}, partition : Nat, offset : Nat]

(* The results are those of the first records, no two at the same offset.  *)
ResultsInv ==
    /\ results \in Seq(Result) /\ Len(results) <= Len(batch1)
    /\ \A i \in DOMAIN results : results[i].outcome = "SUCCEEDED" => Acknowledged(i)
    /\ \A i, j \in DOMAIN results :
          i # j /\ results[i].outcome = "SUCCEEDED" /\ results[j].outcome = "SUCCEEDED" =>
              <<results[i].partition, results[i].offset>> # <<results[j].partition, results[j].offset>>

(* What a request sends: its records, or an object without any field.      *)
Sent == Item \cup {EmptyItem}

(* The event before the first record is executed.                          *)
Attempted == <<"ATTEMPT", "">>

(* What was written is in the log, and its bytes are known.                *)
WrittenInv ==
    /\ where # "off" => existing \in 1..Cardinality(Partitions)
    /\ written = DOMAIN content /\ IsFiniteSet(written)
    /\ \A r \in written : r \in Records /\ r[2] < hw[r[1]]

(* Nothing is written, reported or recorded before the execution, which    *)
(* begins with valid records and an ATTEMPT and ends with the one RESULT.  *)
StageInv ==
    /\ batch1 \in Seq(Sent)
    /\ where \in {"off", "http", "gate", "bulk", "count", "validate"} =>
          results = <<>> /\ written = {} /\ trail = <<>> /\ response = NoResponse
    /\ where = "execute" => AllValid /\ trail = <<Attempted>> /\ response = NoResponse
    /\ where = "answered" =>
          \/ /\ results = <<>> /\ written = {}
             /\ response.code \notin {"", "ok", "multi"}
          \/ /\ AllValid /\ Len(results) = Len(batch1)
             /\ trail = <<Attempted, <<"RESULT", ResultOutcome>>>>
             /\ response = [code |-> Status, ok |-> Tally("SUCCEEDED"), failed |-> Tally("FAILED")]

(* The inductive invariant of a read and of a write.                       *)
MessagesInv ==
    /\ ReadsInv /\ Idle /\ WrittenInv /\ StageInv /\ ResultsInv
    /\ where \in {"off", "http", "gate", "bulk", "count", "validate", "execute", "answered"}
-----------------------------------------------------------------------------
(* A scan leaves the log alone.                                            *)
LEMMA StepKeepsLog == Step \/ Expire => UNCHANGED <<live, hw>>
BY DEF Step, Expire, NothingInScope, Assign, AssignFails, Exhausted, Continue, Poll, PollNothing,
   PollFails, Ignore, Evaluate, BatchDone, Drain, logVars

(* Nothing that happens to a scan or to the topic changes what was asked.  *)
LEMMA NextKeepsAsk == [Next]_vars => UNCHANGED <<window, bounds>>
BY DEF Next, Step, Expire, Topic, NothingInScope, Assign, AssignFails, Exhausted, Continue, Poll,
   PollNothing, PollFails, Ignore, Evaluate, BatchDone, Drain, Append1, Mark, Remove, askVars, vars

(* The topic changes its log alone, and only at its end or by a removal.   *)
LEMMA TopicStep ==
    ASSUME LogInv, Topic
    PROVE  /\ LogInv'
           /\ \A p \in Partitions : hw[p] <= hw'[p] /\ \A o \in live'[p] : o \in live[p] \/ o = hw[p]
           /\ UNCHANGED <<askVars, runVars, expired>>
<1>0. MaxOffset \in Nat /\ Offsets = 0..(MaxOffset - 1)
  BY ScanAssumption DEF Offsets
<1> USE DEF LogInv
<1>1. ASSUME NEW q \in Partitions, Append1(q)
      PROVE  /\ LogInv'
             /\ \A p \in Partitions : hw[p] <= hw'[p] /\ \A o \in live'[p] : o \in live[p] \/ o = hw[p]
  <2>1. /\ hw[q] \in Offsets /\ hw[q] + 1 \in 0..MaxOffset
        /\ live' = [live EXCEPT ![q] = live[q] \cup {hw[q]}] /\ hw' = [hw EXCEPT ![q] = hw[q] + 1]
    BY <1>0, <1>1 DEF Append1
  <2>2. live' \in [Partitions -> SUBSET Offsets] /\ hw' \in [Partitions -> 0..MaxOffset]
    BY <2>1
  <2>3. \A p \in Partitions : hw[p] <= hw'[p] /\ \A o \in live'[p] : o \in live[p] \/ o = hw[p]
    BY <1>0, <2>1
  <2>4. ASSUME NEW p \in Partitions, NEW o \in live'[p] PROVE o < hw'[p]
    BY <1>0, <2>1
  <2> QED
    BY <2>2, <2>3, <2>4
<1>2. ASSUME NEW q \in Partitions, Mark(q)
      PROVE  /\ LogInv'
             /\ \A p \in Partitions : hw[p] <= hw'[p] /\ \A o \in live'[p] : o \in live[p] \/ o = hw[p]
  <2>1. hw[q] + 1 \in 0..MaxOffset /\ live' = live /\ hw' = [hw EXCEPT ![q] = hw[q] + 1]
    BY <1>0, <1>2 DEF Mark
  <2>2. hw' \in [Partitions -> 0..MaxOffset] /\ \A p \in Partitions : hw[p] <= hw'[p]
    BY <1>0, <2>1
  <2>3. ASSUME NEW p \in Partitions, NEW o \in live'[p] PROVE o < hw'[p]
    BY <1>0, <2>1, <2>2
  <2> QED
    BY <2>1, <2>2, <2>3
<1>3. ASSUME NEW q \in Partitions, Remove(q)
      PROVE  /\ LogInv'
             /\ \A p \in Partitions : hw[p] <= hw'[p] /\ \A o \in live'[p] : o \in live[p] \/ o = hw[p]
  <2>1. PICK o \in live[q] : live' = [live EXCEPT ![q] = live[q] \ {o}] /\ hw' = hw
    BY <1>3 DEF Remove
  <2> QED
    BY <1>0, <2>1
<1>4. UNCHANGED <<askVars, runVars, expired>>
  BY DEF Topic, Append1, Mark, Remove
<1> QED
  BY <1>1, <1>2, <1>3, <1>4 DEF Topic

(* Whatever happens, the log only grows at its end.                        *)
LEMMA LogStep ==
    ASSUME LogInv, [Next]_vars
    PROVE  /\ LogInv'
           /\ \A p \in Partitions : /\ hw[p] \in Nat /\ hw'[p] \in Nat /\ hw[p] <= hw'[p]
                                    /\ \A o \in live'[p] : o \in live[p] \/ o = hw[p]
<1>0. MaxOffset \in Nat
  BY ScanAssumption
<1>1. CASE Topic
  BY <1>0, <1>1, TopicStep DEF LogInv
<1>2. CASE UNCHANGED <<live, hw>>
  BY <1>0, <1>2 DEF LogInv
<1> QED
  BY <1>1, <1>2, StepKeepsLog DEF Next, vars

-----------------------------------------------------------------------------
(* The first of a set of offsets, as the code finds it.                    *)
LEMMA FirstOf ==
    ASSUME NEW S, S \subseteq Nat, S # {}
    PROVE  LET m == CHOOSE o \in S : \A n \in S : o <= n
           IN  m \in S /\ \A n \in S : m <= n
BY Least

(* The offset of a time is where its records begin, whatever is in the log *)
(* at the time it is asked for.                                            *)
LEMMA AfterMilliIs ==
    ASSUME LogInv, NEW time \in Nat, NEW p \in Partitions
    PROVE  /\ AfterMilli(time)[p] \in 0..MaxOffset /\ AfterMilli(time)[p] <= hw[p]
           /\ \A o \in live[p] : Time[<<p, o>>] >= time => AfterMilli(time)[p] <= o
           /\ \A o \in 0..(hw[p] - 1) : Before(AfterMilli(time), time, p, o)
<1> DEFINE after == {o \in live[p] : Time[<<p, o>>] >= time}
           first == CHOOSE o \in after : \A n \in after : o <= n
<1>0. /\ MaxOffset \in Nat /\ Offsets = 0..(MaxOffset - 1) /\ hw[p] \in 0..MaxOffset
      /\ live[p] \subseteq Offsets /\ \A o \in live[p] : o < hw[p]
  BY ScanAssumption DEF Offsets, LogInv
<1>1. \A o \in Offsets : Time[<<p, o>>] \in Nat
  BY ScanAssumption DEF Records
<1>2. AfterMilli(time)[p] = IF after = {} THEN hw[p] ELSE first
  BY DEF AfterMilli
<1>3. CASE after = {}
  <2>1. AfterMilli(time)[p] = hw[p]
    BY <1>2, <1>3
  <2>2. \A o \in live[p] : ~ (Time[<<p, o>>] >= time)
    BY <1>3
  <2> QED
    BY <1>0, <2>1, <2>2 DEF Before
<1>4. CASE after # {}
  <2>1. first \in after /\ \A n \in after : first <= n
    <3>1. after \subseteq Nat
      BY <1>0
    <3> HIDE DEF after
    <3> QED
      BY <1>4, <3>1, FirstOf
  <2>2. AfterMilli(time)[p] = first
    BY <1>2, <1>4
  <2>3. first \in live[p] /\ Time[<<p, first>>] >= time
    BY <2>1
  <2>4. \A o \in live[p] : Time[<<p, o>>] >= time => first <= o
    BY <2>1
  <2> HIDE DEF first, after
  <2>5. \A o \in 0..(hw[p] - 1) : Before(AfterMilli(time), time, p, o)
    <3> SUFFICES ASSUME NEW o \in 0..(hw[p] - 1), \A n \in 0..o : Time[<<p, n>>] < time, ~ (o < first)
                 PROVE  FALSE
      BY <2>2 DEF Before
    <3>1. first \in 0..o
      BY <1>0, <2>3
    <3>2. Time[<<p, first>>] < time /\ Time[<<p, first>>] \in Nat
      BY <1>0, <1>1, <2>3, <3>1
    <3> QED
      BY <2>3, <3>2
  <2> QED
    BY <1>0, <2>2, <2>3, <2>4, <2>5
<1> QED
  BY <1>3, <1>4

-----------------------------------------------------------------------------
(* What a request is made of.                                              *)
LEMMA AskType ==
    ASSUME ask \in Asks
    PROVE  /\ ask.id \in {"M1", "M2", "M3", "M4", "M8", "T4"}
           /\ ask.caller \in Caller /\ Breaks \in BOOLEAN
           /\ ask.partition \in Int /\ ask.at \in Nat
           /\ ask.from \in From /\ ask.to \in From \cup {Absent}
           /\ ask.asked \in [BoundNames -> Int] /\ ask.matcher \in Matchers
           /\ ask.id = "T4" => {ask.from.kind, ask.to.kind} \subseteq {"timestamp", "unreadable"}
<1>1. ask \in Ask
  BY ReadsAssumption
<1>2. ask.caller \in Caller
  BY <1>1 DEF Ask
<1>3. Breaks \in BOOLEAN
  BY <1>2 DEF Breaks, Caller
<1> QED
  BY <1>1, <1>2, <1>3, ReadsAssumption DEF Ask

(* What a request is for.                                                  *)
LEMMA FromType ==
    ASSUME ask \in Asks
    PROVE  /\ ask.from.kind \in {"beginning", "latest", "offset", "timestamp", "unreadable"}
           /\ ask.from.at \in Nat
           /\ ask.to.kind \in {"beginning", "latest", "offset", "timestamp", "unreadable", "absent"}
           /\ ask.to.at \in Nat
<1>1. ask.from \in From /\ ask.to \in From \cup {Absent}
  BY AskType
<1> QED
  BY <1>1 DEF From, Absent

(* The gate passes or refuses, and passes a locked topic's data to an      *)
(* operator who breaks the glass, and to nobody else.                      *)
LEMMA GateOpens ==
    ASSUME ask \in Asks
    PROVE  /\ Verdict1 \in {"pass"} \cup Refusals
           /\ PassedGate /\ policy.dataPlaneLock => Breaks /\ ask.caller.tier = "operator"
<1>1. Verdict1 \in {"pass"} \cup Refusals
  BY DEF Verdict1, Check, WriteRefusal, LockRefusal, Refusals
<1>2. ASSUME PassedGate, policy.dataPlaneLock
      PROVE  Breaks /\ ask.caller.tier = "operator"
  <2>1. ask.id \in DataPlaneIds
    BY <1>2, AskType DEF PassedGate, DataPlaneIds
  <2>2. LockRefusal(ask.caller, ask.id, policy) = "pass"
    BY <1>2 DEF PassedGate, Verdict1, Check
  <2> QED
    BY <1>2, <2>1, <2>2 DEF LockRefusal, Breaks
<1> QED
  BY <1>1, <1>2

(* A step of a read that keeps the request and goes on.                    *)
LEMMA FlowOn ==
    ASSUME FlowInv, UNCHANGED <<given, outcomeVars, touched>>, at # "replied", at' # "replied",
           at' \in Way, ~ Unparsable,
           at' \in Reading => PassedGate \/ ask.id = "T4",
           touched => at' \notin {"handler", "gate", "bounds"}
    PROVE  FlowInv'
<1>1. UNCHANGED <<ask, policy, answer, audited, got, touched, Way, PassedGate, Unparsable>>
  BY DEF given, outcomeVars, Way, PassedGate, Verdict1, Unparsable
<1>2. LockHolds'
  BY <1>1 DEF FlowInv, LockHolds, Breaks
<1> QED
  BY <1>1, <1>2 DEF FlowInv

(* A read that has not been answered has not been audited.                 *)
LEMMA FlowEnds ==
    ASSUME FlowInv, UNCHANGED given, at # "replied", at' = "replied",
           touched' => PassedGate,
           answer'.code = "ok" /\ Breaks => audited' = "SUCCEEDED",
           answer'.code \in Refusals => audited' = "REJECTED" /\ ~ touched'
    PROVE  FlowInv'
<1>1. UNCHANGED <<ask, policy, Way, PassedGate, Unparsable>>
  BY DEF given, Way, PassedGate, Verdict1, Unparsable
<1>2. LockHolds'
  BY <1>1, GateOpens DEF FlowInv, LockHolds, Breaks
<1>3. "replied" \in Way
  BY DEF Way
<1>4. "replied" \notin Reading
  BY DEF Reading
<1> QED
  BY <1>1, <1>2, <1>3, <1>4 DEF FlowInv

(* The step of a read that goes on.                                        *)
LEMMA FlowGoesOn ==
    ASSUME FlowInv,
           \/ HandlerCalls \/ ReadAdmitted \/ Bounded
           \/ ListEnds \/ ListStarts \/ ListFromTimes \/ ListToTimes \/ StartScan
    PROVE  FlowInv'
<1>0. /\ ask.id \in {"M1", "M2", "M3", "M4", "M8", "T4"} /\ at \in Way
      /\ at \in Reading => PassedGate \/ ask.id = "T4"
      /\ at \notin {"handler", "replied"} => ~ Unparsable
      /\ touched => PassedGate /\ at \notin {"handler", "gate", "bounds"}
      /\ ask.id = "T4" => {ask.from.kind, ask.to.kind} \subseteq {"timestamp", "unreadable"}
  BY AskType DEF FlowInv
<1>1. ask.id = "T4" /\ ~ Unparsable => ask.from.kind = "timestamp" /\ ask.to.kind = "timestamp"
  BY <1>0 DEF Unparsable
<1> USE DEF Way, Reading
<1>2. CASE HandlerCalls
  <2>1. /\ at = "handler" /\ at' = IF ask.id = "T4" THEN "fromTimes" ELSE "gate"
        /\ ~ Unparsable /\ UNCHANGED <<given, outcomeVars, touched>>
    BY <1>2 DEF HandlerCalls, Go
  <2> QED
    BY <1>0, <2>1, FlowOn
<1>3. CASE ReadAdmitted
  <2>1. /\ at = "gate" /\ at' = IF ask.id = "M2" THEN "poll" ELSE "bounds"
        /\ Verdict1 = "pass" /\ UNCHANGED <<given, outcomeVars, touched>>
    BY <1>3 DEF ReadAdmitted, Go
  <2>2. PassedGate
    BY <1>0, <2>1 DEF PassedGate
  <2> QED
    BY <1>0, <2>1, <2>2, FlowOn
<1>4. CASE Bounded \/ ListStarts \/ ListFromTimes \/ ListToTimes \/ StartScan
  <2>1. /\ at \in {"bounds", "begins", "fromTimes", "toTimes", "windows"}
        /\ at' \in {"ends", "toTimes", "windows", "scan"}
        /\ at' = "ends" => at \in {"bounds", "toTimes"}
        /\ at = "toTimes" => at' = IF ask.id = "T4" THEN "ends" ELSE "windows"
        /\ at = "fromTimes" => at' = IF ask.to.kind = "timestamp" THEN "toTimes" ELSE "windows"
        /\ UNCHANGED <<given, outcomeVars, touched>>
    BY <1>4 DEF Bounded, ListStarts, ListFromTimes, ListToTimes, StartScan, Go
  <2>2. at' \in Way
    BY <1>0, <1>1, <2>1
  <2>3. PassedGate \/ ask.id = "T4"
    BY <1>0, <2>1
  <2> QED
    BY <1>0, <2>1, <2>2, <2>3, FlowOn
<1>5. CASE ListEnds
  <2>1. /\ at = "ends" /\ at' \in {"count", "begins", "fromTimes", "toTimes", "windows"}
        /\ at' = "count" <=> ask.id = "T4"
        /\ touched' = (ask.id # "T4") /\ UNCHANGED <<given, outcomeVars>>
    BY <1>5 DEF ListEnds, Go
  <2>2. PassedGate \/ ask.id = "T4"
    BY <1>0, <2>1
  <2>3. UNCHANGED <<ask, policy, answer, audited, got, Way, PassedGate, Unparsable>>
    BY <2>1 DEF given, outcomeVars, Way, PassedGate, Verdict1, Unparsable
  <2>4. answer = NoAnswer
    BY <2>1 DEF FlowInv
  <2>5. LockHolds'
    BY <2>1, <2>2, <2>3, <2>4, GateOpens DEF FlowInv, LockHolds, Breaks, NoAnswer, Refusals
  <2>6. at' \in Way
    BY <1>0, <2>1
  <2> QED
    BY <1>0, <2>1, <2>2, <2>3, <2>5, <2>6 DEF FlowInv
<1> QED
  BY <1>2, <1>3, <1>4, <1>5 DEF Reading

(* The step of a read that ends it.                                        *)
LEMMA FlowReplies ==
    ASSUME FlowInv,
           \/ HandlerRefuses \/ ReadRefused \/ BoundExceeded \/ MatcherRefused \/ PlanReplay
           \/ CountInWindow \/ ScanReplies \/ ScanFails \/ GetReplies \/ KafkaFails \/ GetFails
    PROVE  FlowInv'
<1>0. /\ at \in Way
      /\ at \in Reading => PassedGate \/ ask.id = "T4"
      /\ touched => PassedGate /\ at \notin {"handler", "gate", "bounds"}
  BY DEF FlowInv
<1>1. CASE \/ HandlerRefuses \/ BoundExceeded \/ MatcherRefused \/ PlanReplay
           \/ CountInWindow \/ ScanFails \/ KafkaFails
  <2>1. /\ at' = "replied" /\ at # "replied" /\ UNCHANGED <<given, touched>>
        /\ answer'.code \in {"Validation", "BoundExceeded", "InvalidRegex", "InvalidJSONPath", "count",
                             "plan", "PartitionMismatch", "KafkaError"}
    <3>1. CASE HandlerRefuses \/ BoundExceeded \/ ScanFails \/ KafkaFails
      BY <3>1 DEF HandlerRefuses, BoundExceeded, ScanFails, KafkaFails, Reply, NoAnswer
    <3>2. CASE MatcherRefused
      BY <3>2 DEF MatcherRefused, Reply, NoAnswer
    <3>3. CASE PlanReplay
      <4>1. CASE ask.preserve /\ \E p \in Chosen : TargetCount <= p
        BY <3>3, <4>1 DEF PlanReplay, Reply, NoAnswer
      <4>2. CASE ~ (ask.preserve /\ \E p \in Chosen : TargetCount <= p)
        BY <3>3, <4>2 DEF PlanReplay
      <4> QED
        BY <4>1, <4>2
    <3>4. CASE CountInWindow
      BY <3>4 DEF CountInWindow
    <3> QED
      BY <1>1, <3>1, <3>2, <3>3, <3>4
  <2> QED
    BY <1>0, <2>1, FlowEnds DEF Refusals
<1>2. CASE ReadRefused
  <2>1. /\ at = "gate" /\ at' = "replied" /\ UNCHANGED <<given, touched>>
        /\ answer'.code = Verdict1 /\ Verdict1 # "pass" /\ audited' = "REJECTED"
    BY <1>2 DEF ReadRefused, Reply, NoAnswer
  <2>2. Verdict1 \in Refusals /\ ~ touched
    BY <1>0, <2>1, GateOpens DEF FlowInv
  <2> QED
    BY <1>0, <2>1, <2>2, FlowEnds DEF Refusals
<1>3. CASE ScanReplies
  <2>1. /\ at = "scan" /\ at' = "replied" /\ UNCHANGED <<given, touched>>
        /\ answer'.code = "ok" /\ audited' = Audited
    BY <1>3 DEF ScanReplies, Reply, NoAnswer
  <2> QED
    BY <1>0, <2>1, FlowEnds DEF Refusals, Audited
<1>4. CASE GetReplies \/ GetFails
  <2>1. /\ at = "poll" /\ at' = "replied" /\ UNCHANGED given
        /\ \/ answer'.code \in {"NotFound", "KafkaError"}
           \/ answer'.code = "ok" /\ audited' = Audited
    BY <1>4 DEF GetReplies, GetFails, Reply, NoAnswer
  <2>2. PassedGate
    BY <1>0, <2>1 DEF Reading, Way
  <2> QED
    BY <1>0, <2>1, <2>2, FlowEnds DEF Refusals, Audited
<1> QED
  BY <1>1, <1>2, <1>3, <1>4

-----------------------------------------------------------------------------
(* What was listed stays true of the log, however it moves on.             *)
LEMMA ListedQuiet ==
    ASSUME LogInv, ListedInv, ask \in Asks, [Next]_vars, UNCHANGED <<ask, came, offsetVars>>
    PROVE  ListedInv'
<1>0. MaxOffset \in Nat /\ Offsets = 0..(MaxOffset - 1)
  BY ScanAssumption DEF Offsets
<1>1. {ends, begins, fromTimes, toTimes, came}' \subseteq [Partitions -> 0..MaxOffset]
  BY DEF ListedInv, offsetVars
<1>2. ASSUME NEW p \in Partitions
      PROVE  /\ ends'[p] <= hw'[p] /\ begins'[p] <= hw'[p] /\ fromTimes'[p] <= hw'[p] /\ came'[p] <= hw'[p]
             /\ \A o \in live'[p] : begins'[p] <= o
             /\ \A o \in live'[p] : Time[<<p, o>>] >= ask.from.at => fromTimes'[p] <= o
  <2>1. /\ hw[p] \in Nat /\ hw'[p] \in Nat /\ hw[p] <= hw'[p]
        /\ \A o \in live'[p] : o \in live[p] \/ o = hw[p]
    BY LogStep
  <2>2. /\ ends[p] \in 0..MaxOffset /\ begins[p] \in 0..MaxOffset
        /\ fromTimes[p] \in 0..MaxOffset /\ came[p] \in 0..MaxOffset
    BY DEF ListedInv
  <2>3. /\ ends[p] <= hw[p] /\ begins[p] <= hw[p] /\ fromTimes[p] <= hw[p] /\ came[p] <= hw[p]
        /\ \A o \in live[p] : begins[p] <= o
        /\ \A o \in live[p] : Time[<<p, o>>] >= ask.from.at => fromTimes[p] <= o
    BY DEF ListedInv
  <2>4. UNCHANGED <<ends, begins, fromTimes, came>>
    BY DEF offsetVars
  <2> QED
    BY <1>0, <2>1, <2>2, <2>3, <2>4
<1> QED
  BY <1>1, <1>2 DEF ListedInv

(* A listing lists what the log holds then.                                *)
LEMMA ListedLists ==
    ASSUME LogInv, ListedInv, ask \in Asks, ListEnds \/ ListStarts \/ ListFromTimes \/ ListToTimes
    PROVE  ListedInv'
<1>0. MaxOffset \in Nat /\ UNCHANGED <<ask, came, live, hw>>
  BY ScanAssumption DEF ListEnds, ListStarts, ListFromTimes, ListToTimes, vars, given
<1>1. hw \in [Partitions -> 0..MaxOffset]
  BY DEF LogInv
<1>2. ask.from.at \in Nat /\ ask.to.at \in Nat
  BY FromType
<1>3. \A time \in Nat : AfterMilli(time) \in [Partitions -> 0..MaxOffset]
  <2> SUFFICES ASSUME NEW time \in Nat PROVE AfterMilli(time) \in [Partitions -> 0..MaxOffset]
    OBVIOUS
  <2>1. \A p \in Partitions : AfterMilli(time)[p] \in 0..MaxOffset
    BY AfterMilliIs
  <2>2. AfterMilli(time) = [p \in Partitions |-> AfterMilli(time)[p]]
    BY DEF AfterMilli
  <2> QED
    BY <2>1, <2>2
<1>4. CASE ListEnds
  <2>1. ends' = hw /\ UNCHANGED <<begins, fromTimes, toTimes>>
    BY <1>4 DEF ListEnds
  <2> QED
    BY <1>0, <1>1, <2>1 DEF ListedInv
<1>5. CASE ListStarts
  <2>1. /\ begins' \in [Partitions -> 0..MaxOffset] /\ UNCHANGED <<ends, fromTimes, toTimes>>
        /\ \A p \in Partitions : begins'[p] <= hw[p] /\ \A o \in live[p] : begins'[p] <= o
    BY <1>5 DEF ListStarts
  <2> QED
    BY <1>0, <2>1 DEF ListedInv
<1>6. CASE ListFromTimes
  <2>1. fromTimes' = AfterMilli(ask.from.at) /\ UNCHANGED <<ends, begins, toTimes>>
    BY <1>6 DEF ListFromTimes
  <2>2. fromTimes' \in [Partitions -> 0..MaxOffset]
    BY <1>2, <1>3, <2>1
  <2>3. \A p \in Partitions :
            /\ fromTimes'[p] <= hw[p]
            /\ \A o \in live[p] : Time[<<p, o>>] >= ask.from.at => fromTimes'[p] <= o
    BY <1>2, <2>1, AfterMilliIs
  <2> QED
    BY <1>0, <2>1, <2>2, <2>3 DEF ListedInv
<1>7. CASE ListToTimes
  <2>1. toTimes' = AfterMilli(ask.to.at) /\ UNCHANGED <<ends, begins, fromTimes>>
    BY <1>7 DEF ListToTimes
  <2>2. toTimes' \in [Partitions -> 0..MaxOffset]
    BY <1>2, <1>3, <2>1
  <2> QED
    BY <1>0, <2>1, <2>2 DEF ListedInv
<1> QED
  BY <1>4, <1>5, <1>6, <1>7

(* What is known of the times stays known.                                 *)
LEMMA UpToKept ==
    ASSUME UpToInv, SubtractInv, UNCHANGED <<ask, came, offsetVars>>,
           Listed' /\ ask.to.kind = "timestamp" => Listed,
           Told' => Told \/ at = "count",
           ask.id = "T4" => at' \notin {"toTimes", "ends", "count"} \/ at' = at
    PROVE  UpToInv' /\ SubtractInv'
<1>1. UNCHANGED <<ask, came, ends, fromTimes, toTimes>>
  BY DEF offsetVars
<1>2. \A p, o : UNCHANGED <<Before(toTimes, ask.to.at, p, o), Before(fromTimes, ask.from.at, p, o)>>
  BY <1>1 DEF Before
<1>3. UpToInv'
  BY <1>1, <1>2 DEF UpToInv
<1>4. SubtractInv'
  BY <1>1, <1>2 DEF SubtractInv
<1> QED
  BY <1>3, <1>4

(* A listing of times lists what is before them.                           *)
LEMMA UpToLists ==
    ASSUME LogInv, FlowInv, ListedInv, UpToInv, SubtractInv,
           ListEnds \/ ListStarts \/ ListFromTimes \/ ListToTimes
    PROVE  UpToInv' /\ SubtractInv'
<1>0. /\ MaxOffset \in Nat /\ UNCHANGED <<ask, came, live, hw, answer>>
      /\ at' # "replied" /\ answer = NoAnswer
  BY ScanAssumption DEF ListEnds, ListStarts, ListFromTimes, ListToTimes, vars, given, outcomeVars, Go,
     FlowInv
<1>1. ~ Told' /\ ~ Scanned'
  BY <1>0 DEF Told, Scanned, NoAnswer
<1>2. /\ ask.from.at \in Nat /\ ask.to.at \in Nat
      /\ ask.id = "T4" => ask.to.kind = "timestamp"
  BY FromType, AskType DEF FlowInv, Unparsable, ListEnds, ListStarts, ListFromTimes, ListToTimes, Go
<1>3. /\ hw \in [Partitions -> 0..MaxOffset]
      /\ {ends, fromTimes, came} \subseteq [Partitions -> 0..MaxOffset]
      /\ \A p \in Partitions : ends[p] <= hw[p] /\ came[p] <= hw[p] /\ fromTimes[p] <= hw[p]
  BY DEF LogInv, ListedInv
<1>4. CASE ListEnds
  <2>1. /\ at = "ends" /\ ends' = hw /\ UNCHANGED <<fromTimes, toTimes>>
        /\ at' \in {"count", "begins", "fromTimes", "toTimes", "windows"}
        /\ ask.id = "T4" => at' = "count"
        /\ at' = "windows" => ask.to.kind # "timestamp"
    BY <1>4 DEF ListEnds, Go
  <2>2. UpToInv'
    BY <1>0, <1>1, <2>1 DEF UpToInv, Listed
  <2>3. \A p, o : UNCHANGED <<Before(toTimes, ask.to.at, p, o), Before(fromTimes, ask.from.at, p, o)>>
    BY <1>0, <2>1 DEF Before
  <2>4. SubtractInv'
    BY <1>0, <1>1, <1>3, <2>1, <2>3 DEF SubtractInv
  <2> QED
    BY <2>2, <2>4
<1>5. CASE ListStarts
  <2>1. /\ at = "begins" /\ at' \in {"toTimes", "windows"}
        /\ at' = "windows" => ask.to.kind # "timestamp"
    BY <1>5 DEF ListStarts, Go
  <2>2. ask.id # "T4"
    BY <2>1 DEF FlowInv, Way
  <2> QED
    BY <1>0, <1>1, <2>1, <2>2 DEF UpToInv, SubtractInv, Listed
<1>6. CASE ListFromTimes
  <2>1. /\ at = "fromTimes" /\ at' \in {"toTimes", "windows"}
        /\ at' = "windows" => ask.to.kind # "timestamp"
        /\ fromTimes' = AfterMilli(ask.from.at)
    BY <1>6 DEF ListFromTimes, Go
  <2>2. UpToInv'
    BY <1>0, <1>1, <2>1 DEF UpToInv, Listed
  <2>3. \A p \in Partitions : \A o \in 0..(came[p] - 1) : Before(fromTimes', ask.from.at, p, o)
    <3> SUFFICES ASSUME NEW p \in Partitions, NEW o \in 0..(came[p] - 1)
                 PROVE  Before(fromTimes', ask.from.at, p, o)
      OBVIOUS
    <3>1. o \in 0..(hw[p] - 1)
      BY <1>0, <1>3
    <3> QED
      BY <1>2, <2>1, <3>1, AfterMilliIs
  <2>4. SubtractInv'
    BY <1>0, <1>1, <1>2, <2>1, <2>3 DEF SubtractInv, Before
  <2> QED
    BY <2>2, <2>4
<1>7. CASE ListToTimes
  <2>1. /\ at = "toTimes" /\ at' = IF ask.id = "T4" THEN "ends" ELSE "windows"
        /\ toTimes' = AfterMilli(ask.to.at) /\ UNCHANGED <<ends, fromTimes>>
    BY <1>7 DEF ListToTimes, Go
  <2>2. \A p \in Partitions : \A o \in 0..(hw[p] - 1) : Before(toTimes', ask.to.at, p, o)
    BY <1>2, <2>1, AfterMilliIs
  <2>3. \A p \in Partitions : \A o \in 0..(ends[p] - 1) : o \in 0..(hw[p] - 1)
    BY <1>0, <1>3
  <2>4. \A p \in Partitions : \A o \in 0..(came[p] - 1) : o \in 0..(hw[p] - 1)
    BY <1>0, <1>3
  <2>5. UpToInv'
    BY <1>0, <2>1, <2>2, <2>3 DEF UpToInv, Before
  <2>6. SubtractInv'
    BY <1>0, <1>1, <2>1, <2>2, <2>4 DEF SubtractInv, Before
  <2> QED
    BY <2>5, <2>6
<1> QED
  BY <1>4, <1>5, <1>6, <1>7

-----------------------------------------------------------------------------
(* A scan of a partition that is not there ends at once.                   *)
LEMMA StrayStep == StrayInv /\ [Next]_vars => StrayInv'
<1> SUFFICES ASSUME StrayInv, [Next]_vars PROVE StrayInv'
  OBVIOUS
<1>1. UNCHANGED <<window, bounds, Scope>>
  BY NextKeepsAsk DEF Scope
<1> USE DEF StrayInv
<1>2. CASE Assign \/ AssignFails \/ Exhausted
  <2>1. UNCHANGED <<items, seen, cursor>> /\ pc' \in {"loop", "failed", "drain"}
    BY <1>2 DEF Assign, AssignFails, Exhausted, Stop
  <2> QED
    BY <1>1, <2>1 DEF WindowsExhausted
<1>3. CASE Drain
  <2>1. UNCHANGED <<seen, cursor>> /\ pc' = "done"
    BY <1>3 DEF Drain
  <2>2. items' = <<>>
    <3>1. Len(items) = 0 /\ bounds.maxMessages \in Nat
      BY EmptySeq DEF Bound
    <3>2. Kept = 0
      BY <3>1 DEF Kept, Reached
    <3>3. CASE bounds.latest
      <4>1. items' \in [1..0 -> Emitted]
        BY <1>3, <3>2, <3>3 DEF Drain
      <4>2. items' \in Seq(Emitted)
        BY <4>1, SeqDef
      <4>3. Len(items') \in Nat /\ 1..Len(items') = 1..0
        BY <4>1, <4>2, LenProperties
      <4>4. Len(items') = 0
        BY <4>3
      <4> QED
        BY <4>2, <4>4, EmptySeq
    <3>4. CASE ~ bounds.latest
      BY <1>3, <3>4 DEF Drain
    <3> QED
      BY <3>3, <3>4
  <2> QED
    BY <1>1, <2>1, <2>2 DEF WindowsExhausted
<1>4. CASE UNCHANGED <<pc, items, seen, cursor>>
  BY <1>1, <1>4 DEF WindowsExhausted
<1>5. CASE Expire \/ Topic \/ UNCHANGED vars
  BY <1>4, <1>5 DEF Expire, Topic, Append1, Mark, Remove, runVars, vars
<1>6. Step => Assign \/ AssignFails \/ Exhausted \/ Drain
  BY DEF Step, NothingInScope, Continue, Poll, PollNothing, PollFails, Ignore, Evaluate, BatchDone
<1> QED
  BY <1>2, <1>3, <1>5, <1>6 DEF Next

(* The scan has been started.                                              *)
Launched == at = "scan" \/ Scanned \/ window # <<>>

(* What a read knows of its scan stays true while the scan goes on, the    *)
(* topic moves, or the read goes on without a scan.                        *)
LEMMA RunKept ==
    ASSUME RunInv, [Next]_vars,
           at' \notin {"scan", "replied"} => at \notin {"scan", "replied"} /\ (Topic \/ UNCHANGED vars),
           Launched' => Launched /\ UNCHANGED <<ask, offsetVars>>,
           Scanned' => pc = "done" /\ pc' = "done"
    PROVE  RunInv'
<1>1. UNCHANGED <<window, bounds, Scope>>
  BY NextKeepsAsk DEF Scope
<1>2. (IF Scope \subseteq Partitions THEN EmitInv ELSE StrayInv)'
  <2>1. CASE Scope \subseteq Partitions
    BY <1>1, <2>1, EmitStep DEF RunInv
  <2>2. CASE ~ (Scope \subseteq Partitions)
    BY <1>1, <2>2, StrayStep DEF RunInv
  <2> QED
    BY <2>1, <2>2
<1>3. ASSUME at' \notin {"scan", "replied"}
      PROVE  Started(window)' /\ window' = <<>> /\ bounds' \in Bound
  <2>1. Started(window) /\ window = <<>> /\ bounds \in Bound
    BY <1>3 DEF RunInv
  <2>2. UNCHANGED <<pc, position, batch, cursor, acc, items, expired, stop, closed, seen>>
    BY <1>3 DEF Topic, Append1, Mark, Remove, runVars, vars
  <2> QED
    BY <1>1, <2>1, <2>2 DEF Started
<1>4. ASSUME Launched'
      PROVE  /\ window' = Windows1' /\ bounds'.latest = (ask'.from.kind = "latest")
             /\ ~ Unparsable' /\ ask'.id # "M2"
  <2>1. /\ window = Windows1 /\ bounds.latest = (ask.from.kind = "latest")
        /\ ~ Unparsable /\ ask.id # "M2"
    BY <1>4 DEF RunInv, Launched
  <2>2. UNCHANGED Windows1
    BY <1>4 DEF Windows1, Chosen, FromOffset, EndOffset, ToOffset, Of, Resolved, MessageBound, offsetVars
  <2>3. UNCHANGED Unparsable
    BY <1>4 DEF Unparsable
  <2> QED
    BY <1>1, <1>4, <2>1, <2>2, <2>3
<1> QED
  BY <1>2, <1>3, <1>4 DEF RunInv, Launched

(* The listings are of numbers, whatever partition is asked for.           *)
LEMMA OfType ==
    ASSUME ListedInv, NEW p
    PROVE  /\ Of(ends, p) \in Nat /\ Of(begins, p) \in Nat
           /\ Of(fromTimes, p) \in Nat /\ Of(toTimes, p) \in Nat
BY ScanAssumption DEF ListedInv, Of

(* Every bound that is asked for is a number.                              *)
LEMMA BoundsAsked ==
    ASSUME ask \in Asks
    PROVE  /\ Resolved(MessageBound) \in Int
           /\ \A name \in BoundNames : Effective(name) \in Nat
<1>1. \A name \in BoundNames : Resolved(name) \in Int
  BY AskType, ReadsAssumption DEF Resolved
<1>2. MessageBound \in BoundNames
  BY DEF MessageBound, BoundNames
<1> QED
  BY <1>1, <1>2 DEF Effective

(* A window is of numbers, and ends where the partition ended.             *)
LEMMA WindowType ==
    ASSUME ask \in Asks, ListedInv, ~ Unparsable, ask.id # "M2", NEW p
    PROVE  /\ FromOffset(p) \in Nat
           /\ EndOffset(p) \in Nat /\ EndOffset(p) <= Of(ends, p)
           /\ ask.from.kind = "offset" => FromOffset(p) = ask.from.at
           /\ ask.from.kind = "beginning" => FromOffset(p) = Of(begins, p)
           /\ ask.from.kind = "timestamp" => FromOffset(p) = Of(fromTimes, p)
           /\ ask.from.kind = "latest" => FromOffset(p) >= Of(ends, p) - Resolved(MessageBound)
           /\ ask.to.kind = "offset" => EndOffset(p) <= ask.to.at
           /\ \A o \in Nat : /\ o < Of(ends, p)
                             /\ ask.to.kind = "offset" => o < ask.to.at
                             /\ ask.to.kind = "timestamp" => o < Of(toTimes, p)
                             => o < EndOffset(p)
<1>1. /\ ask.from.kind \in {"beginning", "latest", "offset", "timestamp"}
      /\ ask.to.kind \in {"beginning", "latest", "offset", "timestamp", "absent"}
      /\ ask.from.at \in Nat /\ ask.to.at \in Nat
  BY FromType DEF Unparsable
<1>2. /\ Of(ends, p) \in Nat /\ Of(begins, p) \in Nat
      /\ Of(fromTimes, p) \in Nat /\ Of(toTimes, p) \in Nat
      /\ Resolved(MessageBound) \in Int
  BY OfType, BoundsAsked
<1>3. /\ ask.to.kind = "offset" => ToOffset(p) = ask.to.at
      /\ ask.to.kind = "timestamp" => ToOffset(p) = Of(toTimes, p)
      /\ ask.to.kind \notin {"offset", "timestamp"} => ToOffset(p) = Of(ends, p)
  BY DEF ToOffset
<1>4. /\ ask.from.kind = "beginning" => FromOffset(p) = Of(begins, p)
      /\ ask.from.kind = "latest" =>
             FromOffset(p) = Larger(Of(begins, p), Of(ends, p) - Resolved(MessageBound))
      /\ ask.from.kind = "offset" => FromOffset(p) = ask.from.at
      /\ ask.from.kind = "timestamp" => FromOffset(p) = Of(fromTimes, p)
  BY <1>1 DEF FromOffset
<1>5. /\ FromOffset(p) \in Nat
      /\ ask.from.kind = "latest" => FromOffset(p) >= Of(ends, p) - Resolved(MessageBound)
  BY <1>1, <1>2, <1>4 DEF Larger
<1>6. ToOffset(p) \in Nat
  BY <1>1, <1>2, <1>3
<1>7. /\ EndOffset(p) \in Nat /\ EndOffset(p) <= Of(ends, p) /\ EndOffset(p) <= ToOffset(p)
      /\ \A o \in Nat : o < Of(ends, p) /\ o < ToOffset(p) => o < EndOffset(p)
  BY <1>2, <1>6 DEF EndOffset
<1>8. \A o \in Nat : /\ o < Of(ends, p)
                     /\ ask.to.kind = "offset" => o < ask.to.at
                     /\ ask.to.kind = "timestamp" => o < Of(toTimes, p)
                     => o < EndOffset(p)
  <2> SUFFICES ASSUME NEW o \in Nat, o < Of(ends, p),
                      ask.to.kind = "offset" => o < ask.to.at,
                      ask.to.kind = "timestamp" => o < Of(toTimes, p)
               PROVE  o < ToOffset(p)
    BY <1>7
  <2> QED
    BY <1>3
<1>9. ask.to.kind = "offset" => EndOffset(p) <= ask.to.at
  BY <1>3, <1>7
<1> QED
  BY <1>4, <1>5, <1>7, <1>8, <1>9

(* A scan that is started has a window for each partition that was chosen, *)
(* and is ready to run unless the topic does not have that partition.      *)
LEMMA RunStarts ==
    ASSUME LogInv, FlowInv, ListedInv, RunInv, StartScan
    PROVE  RunInv'
<1>0. /\ at = "windows" /\ at' = "scan" /\ UNCHANGED <<live, hw, given, offsetVars>>
      /\ UNCHANGED <<pc, position, batch, acc, items, expired, stop, closed, seen>>
      /\ window' = Windows1 /\ cursor' = [p \in Chosen |-> FromOffset(p)]
  BY DEF StartScan, Go, logVars
<1>1. ask \in Asks /\ ~ Unparsable /\ ask.id # "M2"
  BY <1>0 DEF FlowInv, Way
<1>2. Started(window)
  BY <1>0 DEF RunInv
<1>3. Scope' = Chosen /\ \A p \in Chosen : window'[p] = [start |-> FromOffset(p), end |-> EndOffset(p)]
  BY <1>0 DEF Scope, Windows1
<1>4. \A p \in Chosen : FromOffset(p) \in Nat /\ EndOffset(p) \in Nat /\ EndOffset(p) <= Of(ends, p)
  BY <1>1, WindowType
<1>5. window' \in [Scope' -> Window]
  BY <1>0, <1>3, <1>4 DEF Window, Windows1
<1>6. /\ bounds' \in Bound
      /\ bounds'.latest = (ask.from.kind = "latest")
  <2>1. ask.matcher \in Matchers /\ \A name \in BoundNames : Effective(name) \in Nat
    BY <1>1, AskType, BoundsAsked
  <2>2. {MessageBound, "maxScan", "maxBytes", "maxTimeMs"} \subseteq BoundNames
    BY DEF MessageBound, BoundNames
  <2> DEFINE messages == Effective(MessageBound)
             scanned == Effective("maxScan")
             bytes == Effective("maxBytes")
             timed == Effective("maxTimeMs") > 0
             latest == ask.from.kind = "latest"
  <2>3. messages \in Nat /\ scanned \in Nat /\ bytes \in Nat /\ timed \in BOOLEAN /\ latest \in BOOLEAN
    BY <2>1, <2>2
  <2>4. bounds' = [latest |-> latest, maxMessages |-> messages, maxScanned |-> scanned,
                   maxBytes |-> bytes, timed |-> timed, matcher |-> ask.matcher]
    BY DEF StartScan
  <2> HIDE DEF messages, scanned, bytes, timed, latest
  <2>5. bounds' \in Bound /\ bounds'.latest = latest
    BY <2>1, <2>3, <2>4 DEF Bound
  <2> QED
    BY <2>5 DEF latest
<1>7. ASSUME Chosen \subseteq Partitions PROVE EmitInv'
  <2>1. \A p \in Chosen : window'[p].end <= hw'[p]
    <3>1. \A p \in Chosen : Of(ends, p) <= hw[p] /\ hw[p] \in Nat /\ Of(ends, p) \in Nat
      BY <1>7, ScanAssumption, OfType DEF ListedInv, LogInv, Of
    <3>2. ASSUME NEW p \in Chosen PROVE window'[p].end = EndOffset(p)
      <4>1. window'[p] = [start |-> FromOffset(p), end |-> EndOffset(p)]
        BY <1>3
      <4> QED
        BY <4>1
    <3> HIDE DEF EndOffset, Of
    <3> QED
      BY <1>0, <1>4, <3>1, <3>2
  <2>2. Started(window)'
    <3>1. cursor' = [p \in DOMAIN window' |-> window'[p].start]
      BY <1>0, <1>3 DEF Scope
    <3> QED
      BY <1>0, <1>2, <3>1 DEF Started
  <2>3. Ready'
    BY <1>0, <1>3, <1>5, <1>6, <1>7, <2>1, <2>2 DEF Ready, LogInv
  <2> QED
    BY <2>3, EmitInit, PTL
<1>8. ASSUME ~ (Chosen \subseteq Partitions) PROVE StrayInv'
  <2>1. Chosen = {ask.partition} /\ ask.partition \notin Partitions
    BY <1>8 DEF Chosen
  <2>2. Of(ends, ask.partition) = 0
    BY <2>1 DEF Of
  <2>3. EndOffset(ask.partition) = 0
    BY <1>4, <2>1, <2>2
  <2>4. WindowsExhausted'
    BY <1>0, <1>3, <1>4, <2>1, <2>3 DEF WindowsExhausted
  <2> QED
    BY <1>0, <1>2, <1>3, <1>6, <2>1, <2>4 DEF StrayInv, Started
<1>9. UNCHANGED Windows1 /\ ask' = ask /\ UNCHANGED Unparsable
  BY <1>0 DEF Windows1, Chosen, FromOffset, EndOffset, ToOffset, Of, Resolved, MessageBound, offsetVars,
     given, Unparsable
<1>10. ~ Scanned'
  BY <1>0 DEF Scanned
<1> QED
  BY <1>0, <1>1, <1>3, <1>6, <1>7, <1>8, <1>9, <1>10 DEF RunInv

(* What the caller was told stays as it was.                               *)
LEMMA AnswerKept ==
    ASSUME AnswerInv, UNCHANGED <<ask, got>>,
           Told' => Told /\ UNCHANGED <<answer, offsetVars>>,
           got # <<>> => UNCHANGED hw
    PROVE  AnswerInv'
<1>1. Told' => UNCHANGED <<answer, ends, fromTimes, toTimes>>
  BY DEF offsetVars
<1>2. ASSUME Told'
      PROVE  /\ ask'.id = "T4" /\ ~ Unparsable'
             /\ answer'.plan = [p \in Partitions |-> CountEnd(p)' - fromTimes'[p]]
  BY <1>1, <1>2 DEF AnswerInv, Told, CountEnd, Unparsable
<1>3. GetIsTheRecord'
  BY DEF AnswerInv, GetIsTheRecord
<1> QED
  BY <1>2, <1>3 DEF AnswerInv, Told

(* M2 answers with a record if the first from its offset on is at it.      *)
LEMMA AnswerGet ==
    ASSUME LogInv, FlowInv, AnswerInv, GetReplies
    PROVE  AnswerInv'
<1>0. /\ UNCHANGED <<ask, hw>> /\ at = "poll"
      /\ answer'.code \in {"ok", "NotFound"}
  BY DEF GetReplies, vars, given, Reply, NoAnswer
<1>1. got = <<>> /\ ask.at \in Nat
  BY <1>0, AskType DEF FlowInv
<1>2. CASE got' = got
  BY <1>0, <1>1, <1>2 DEF AnswerInv, GetIsTheRecord
<1>3. CASE got' # got
  <2> DEFINE p == ask.partition
             from == IF ask.at > hw[p] THEN 0 ELSE ask.at
             there == {n \in Offsets : p \in Partitions /\ n \in live[p] /\ n >= from}
             first == CHOOSE n \in there : \A m \in there : n <= m
  <2>0. FirstFrom(p, ask.at) = IF there = {} THEN -1 ELSE first
    BY DEF FirstFrom
  <2>1. /\ FirstFrom(p, ask.at) >= 0 /\ ~ (FirstFrom(p, ask.at) > ask.at)
        /\ got' = <<p, FirstFrom(p, ask.at)>>
    BY <1>3 DEF GetReplies
  <2>2. there # {} /\ FirstFrom(p, ask.at) = first
    BY <2>0, <2>1
  <2>3. first \in there
    <3>1. there \subseteq Nat
      BY OffsetsAreNat
    <3> HIDE DEF there
    <3> QED
      BY <2>2, <3>1, FirstOf
  <2>4. /\ first \in Nat /\ first >= from /\ p \in Partitions /\ first <= ask.at
    <3>1. first \in Offsets /\ p \in Partitions /\ first >= from
      BY <2>3
    <3>2. FirstFrom(p, ask.at) = first /\ ~ (first > ask.at)
      BY <2>1, <2>2
    <3> HIDE DEF first
    <3> QED
      BY <1>1, <3>1, <3>2, OffsetsAreNat
  <2>5. hw[p] \in Nat
    BY <2>4, OffsetsAreNat DEF LogInv
  <2>6. ask.at <= hw[p] => first = ask.at
    BY <1>1, <2>4, <2>5
  <2>7. got'[1] = p /\ got'[2] = first
    BY <2>1, <2>2
  <2> HIDE DEF first
  <2> QED
    BY <1>0, <2>6, <2>7 DEF AnswerInv, GetIsTheRecord
<1> QED
  BY <1>2, <1>3

-----------------------------------------------------------------------------
(* The log, a scan or nothing moves while the read stays where it is.      *)
LEMMA ReadsQuiet ==
    ASSUME ReadsInv, [Next]_vars, UNCHANGED readVars,
           \/ UNCHANGED vars
           \/ at = "scan"
           \/ at \notin {"scan", "replied"} /\ Topic
    PROVE  ReadsInv'
<1>0. /\ UNCHANGED <<ask, policy, came, at, ends, begins, fromTimes, toTimes, got, answer, audited, touched>>
      /\ UNCHANGED <<given, offsetVars, outcomeVars>>
  BY DEF readVars, given, offsetVars, outcomeVars
<1>1. LogInv' /\ ListedInv'
  BY <1>0, LogStep, ListedQuiet DEF ReadsInv, FlowInv
<1>2. UNCHANGED <<Way, PassedGate, Unparsable, LockHolds, Scanned, Told, Listed>>
  BY <1>0 DEF Way, PassedGate, Verdict1, Unparsable, LockHolds, Breaks, Scanned, Told, Listed
<1>3. FlowInv'
  BY <1>0, <1>2 DEF ReadsInv, FlowInv
<1>4. UpToInv' /\ SubtractInv'
  BY <1>0, <1>2, UpToKept DEF ReadsInv
<1>5. RunInv'
  <2>1. Scanned => at = "replied"
    BY DEF Scanned
  <2>2. Scanned' => pc = "done" /\ pc' = "done"
    BY <1>2, <2>1 DEF ReadsInv, RunInv, vars
  <2>3. UNCHANGED window
    BY NextKeepsAsk
  <2> QED
    BY <1>0, <1>2, <2>2, <2>3, RunKept DEF ReadsInv, Launched
<1>6. AnswerInv'
  <2>1. got # <<>> => UNCHANGED hw
    BY DEF ReadsInv, FlowInv, vars
  <2> QED
    BY <1>0, <1>2, <2>1, AnswerKept DEF ReadsInv
<1> QED
  BY <1>1, <1>3, <1>4, <1>5, <1>6 DEF ReadsInv

(* A read that goes on without touching log or scan.                       *)
LEMMA ReadsGoOn ==
    ASSUME ReadsInv,
           \/ HandlerCalls \/ ReadAdmitted \/ Bounded
           \/ ListEnds \/ ListStarts \/ ListFromTimes \/ ListToTimes
    PROVE  ReadsInv'
<1>0. /\ UNCHANGED <<vars, given, answer, got>>
      /\ at \in {"handler", "gate", "bounds", "ends", "begins", "fromTimes", "toTimes"}
      /\ at' \in {"gate", "poll", "bounds"} \cup {"ends", "begins", "fromTimes", "toTimes", "windows", "count"}
  BY DEF HandlerCalls, ReadAdmitted, Bounded, ListEnds, ListStarts, ListFromTimes, ListToTimes, Go,
     outcomeVars
<1>1. UNCHANGED <<ask, came, live, hw, window, bounds>> /\ ask \in Asks /\ answer = NoAnswer
  BY <1>0 DEF given, vars, ReadsInv, FlowInv
<1>2. FlowInv'
  BY FlowGoesOn DEF ReadsInv
<1>3. ~ Scanned' /\ ~ Told'
  BY <1>0, <1>1 DEF Scanned, Told, NoAnswer
<1>4. LogInv'
  BY <1>1 DEF ReadsInv, LogInv
<1>5. ASSUME HandlerCalls \/ ReadAdmitted \/ Bounded
      PROVE  ListedInv' /\ UpToInv' /\ SubtractInv'
  <2>1. UNCHANGED offsetVars
    BY <1>5 DEF HandlerCalls, ReadAdmitted, Bounded
  <2>2. ListedInv'
    BY <1>0, <1>1, <2>1, ListedQuiet DEF ReadsInv
  <2>3. /\ at' \notin {"windows", "scan", "toTimes", "count"}
        /\ at' = "ends" => at = "bounds"
    BY <1>5 DEF HandlerCalls, ReadAdmitted, Bounded, Go
  <2>4. ask.id = "T4" => at' \notin {"toTimes", "ends", "count"}
    BY <2>3 DEF ReadsInv, FlowInv, Way, Reading
  <2>5. UpToInv' /\ SubtractInv'
    BY <1>1, <1>3, <2>1, <2>3, <2>4, UpToKept DEF ReadsInv, Listed
  <2> QED
    BY <2>2, <2>5
<1>6. ASSUME ListEnds \/ ListStarts \/ ListFromTimes \/ ListToTimes
      PROVE  ListedInv' /\ UpToInv' /\ SubtractInv'
  BY <1>1, <1>6, ListedLists, UpToLists DEF ReadsInv
<1>7. RunInv'
  <2>1. window = <<>> /\ window' = <<>>
    BY <1>0, <1>1 DEF ReadsInv, RunInv
  <2>2. ~ Launched'
    BY <1>0, <1>3, <2>1 DEF Launched
  <2> QED
    BY <1>0, <1>3, <2>2, RunKept DEF ReadsInv
<1>8. AnswerInv'
  BY <1>0, <1>1, <1>3, AnswerKept DEF ReadsInv
<1> QED
  BY <1>2, <1>4, <1>5, <1>6, <1>7, <1>8 DEF ReadsInv

(* The start of the scan.                                                  *)
LEMMA ReadsScan == ReadsInv /\ StartScan => ReadsInv'
<1> SUFFICES ASSUME ReadsInv, StartScan PROVE ReadsInv'
  OBVIOUS
<1>0. /\ at = "windows" /\ at' = "scan" /\ UNCHANGED <<live, hw, given, offsetVars, outcomeVars>>
  BY DEF StartScan, Go, logVars
<1>1. /\ UNCHANGED <<ask, came, ends, begins, fromTimes, toTimes, got, answer>>
      /\ answer = NoAnswer
  BY <1>0 DEF given, offsetVars, outcomeVars, ReadsInv, FlowInv
<1>2. ~ Scanned' /\ ~ Told' /\ Listed
  BY <1>0, <1>1 DEF Scanned, Told, NoAnswer, Listed
<1>3. LogInv' /\ ListedInv'
  BY <1>0, <1>1 DEF ReadsInv, LogInv, ListedInv
<1>4. FlowInv'
  BY FlowGoesOn DEF ReadsInv
<1>5. UpToInv' /\ SubtractInv'
  BY <1>0, <1>1, <1>2, UpToKept DEF ReadsInv
<1>6. RunInv'
  BY RunStarts DEF ReadsInv
<1>7. AnswerInv'
  BY <1>0, <1>1, <1>2, AnswerKept DEF ReadsInv
<1> QED
  BY <1>3, <1>4, <1>5, <1>6, <1>7 DEF ReadsInv

(* The end of a read.                                                      *)
LEMMA ReadsReply ==
    ASSUME ReadsInv,
           \/ HandlerRefuses \/ ReadRefused \/ BoundExceeded \/ MatcherRefused \/ PlanReplay
           \/ CountInWindow \/ ScanReplies \/ ScanFails \/ GetReplies \/ KafkaFails \/ GetFails
    PROVE  ReadsInv'
<1>0. /\ UNCHANGED <<vars, given, offsetVars>> /\ at # "replied" /\ at' = "replied"
  <2>1. UNCHANGED <<vars, given, offsetVars>> /\ at # "replied"
    BY DEF HandlerRefuses, ReadRefused, BoundExceeded, MatcherRefused, PlanReplay, CountInWindow,
       ScanReplies, ScanFails, GetReplies, KafkaFails, GetFails
  <2>2. \A code : Reply(code) => at' = "replied"
    BY DEF Reply
  <2>3. at' = "replied"
    BY <2>2 DEF HandlerRefuses, ReadRefused, BoundExceeded, MatcherRefused, PlanReplay, CountInWindow,
       ScanReplies, ScanFails, GetReplies, KafkaFails, GetFails
  <2> QED
    BY <2>1, <2>3
<1>1. /\ UNCHANGED <<ask, came, live, hw>> /\ ask \in Asks /\ answer = NoAnswer /\ got = <<>>
  BY <1>0 DEF given, vars, ReadsInv, FlowInv
<1>2. FlowInv'
  BY FlowReplies DEF ReadsInv
<1>3. LogInv' /\ ListedInv'
  BY <1>0, <1>1, ListedQuiet DEF ReadsInv, LogInv
<1>4. /\ Scanned' => at = "scan" /\ pc = "done"
      /\ Told' => CountInWindow
  <2>1. CASE \/ HandlerRefuses \/ BoundExceeded \/ MatcherRefused \/ ScanFails \/ KafkaFails \/ GetFails
    <3>1. answer'.code \in {"Validation", "BoundExceeded", "InvalidRegex", "InvalidJSONPath", "KafkaError"}
      BY <2>1 DEF HandlerRefuses, BoundExceeded, MatcherRefused, ScanFails, KafkaFails, GetFails,
         Reply, NoAnswer
    <3> QED
      BY <3>1 DEF Scanned, Told
  <2>2. CASE ReadRefused
    <3>1. answer'.code \in Refusals
      BY <1>1, <2>2, GateOpens DEF ReadRefused, Reply, NoAnswer
    <3> QED
      BY <3>1 DEF Scanned, Told, Refusals
  <2>3. CASE PlanReplay
    <3>1. CASE ask.preserve /\ \E p \in Chosen : TargetCount <= p
      BY <2>3, <3>1 DEF PlanReplay, Reply, NoAnswer, Scanned, Told
    <3>2. CASE ~ (ask.preserve /\ \E p \in Chosen : TargetCount <= p)
      BY <2>3, <3>2 DEF PlanReplay, Scanned, Told
    <3> QED
      BY <3>1, <3>2
  <2>4. CASE CountInWindow
    BY <2>4 DEF CountInWindow, Scanned
  <2>5. CASE ScanReplies
    BY <2>5 DEF ScanReplies, Reply, NoAnswer, Told
  <2>6. CASE GetReplies
    <3>1. ask.id = "M2"
      BY <1>1, <2>6, AskType DEF GetReplies, ReadsInv, FlowInv, Way, Reading
    <3>2. answer'.code \in {"ok", "NotFound"}
      BY <2>6 DEF GetReplies, Reply, NoAnswer
    <3> QED
      BY <1>1, <3>1, <3>2 DEF Scanned, Told
  <2> QED
    BY <2>1, <2>2, <2>3, <2>4, <2>5, <2>6
<1>5. UpToInv' /\ SubtractInv'
  <2>1. Listed' => Listed
    BY <1>0, <1>4 DEF Listed
  <2>2. Told' => at = "count"
    BY <1>4 DEF CountInWindow
  <2> QED
    BY <1>0, <1>1, <2>1, <2>2, UpToKept DEF ReadsInv
<1>6. RunInv'
  <2>1. UNCHANGED <<window, pc>>
    BY <1>0 DEF vars
  <2>2. Launched' => Launched
    BY <1>0, <1>4, <2>1 DEF Launched
  <2> QED
    BY <1>0, <1>1, <1>4, <2>1, <2>2, RunKept DEF ReadsInv
<1>7. AnswerInv'
  <2>1. CASE CountInWindow
    <3>1. answer'.plan = [p \in Partitions |-> CountEnd(p) - fromTimes[p]] /\ got' = got
      BY <2>1 DEF CountInWindow
    <3>2. ask.id = "T4" /\ ~ Unparsable /\ ~ Unparsable'
      BY <2>1, AskType, <1>1 DEF CountInWindow, ReadsInv, FlowInv, Way, Reading, Unparsable
    <3>3. UNCHANGED <<ends, fromTimes, toTimes>>
      BY <1>0 DEF offsetVars
    <3> QED
      BY <1>1, <3>1, <3>2, <3>3 DEF AnswerInv, GetIsTheRecord, CountEnd
  <2>2. CASE GetReplies
    BY <2>2, AnswerGet DEF ReadsInv
  <2>3. CASE ~ CountInWindow /\ ~ GetReplies
    <3>1. got' = got
      BY <2>3 DEF HandlerRefuses, ReadRefused, BoundExceeded, MatcherRefused, PlanReplay, ScanReplies,
         ScanFails, KafkaFails, GetFails
    <3> QED
      BY <1>1, <1>4, <2>3, <3>1, AnswerKept DEF ReadsInv
  <2> QED
    BY <2>1, <2>2, <2>3
<1> QED
  BY <1>2, <1>3, <1>5, <1>6, <1>7 DEF ReadsInv

(* Every step of a read keeps the invariant.                               *)
LEMMA ReadsStep == ReadsInv /\ ReadNext => ReadsInv'
<1> SUFFICES ASSUME ReadsInv, ReadNext PROVE ReadsInv'
  OBVIOUS
<1>1. CASE Scanning
  BY <1>1, ReadsQuiet DEF Scanning
<1>2. CASE ReadTopic
  BY <1>2, ReadsQuiet DEF ReadTopic, Next
<1>3. CASE StartScan
  BY <1>3, ReadsScan
<1> QED
  BY <1>1, <1>2, <1>3, ReadsGoOn, ReadsReply DEF ReadNext, ReadStep

(* A request, read or write, finds a topic, and has done nothing yet.      *)
Fresh ==
    /\ \E l \in Logs : /\ live = [p \in Partitions |-> l[p].live]
                       /\ hw = [p \in Partitions |-> l[p].hw]
    /\ ask \in Asks /\ policy \in Policies
    /\ window = <<>> /\ bounds = CHOOSE b \in Bounds : TRUE
    /\ Started(window)
    /\ at = "handler"
    /\ ends = Nowhere /\ begins = Nowhere /\ fromTimes = Nowhere /\ toTimes = Nowhere
    /\ got = <<>> /\ answer = NoAnswer /\ touched = FALSE /\ came = hw

(* No offset is a number.                                                  *)
LEMMA NowhereType == Nowhere \in [Partitions -> 0..MaxOffset] /\ \A p \in Partitions : Nowhere[p] = 0
<1>1. 0 \in 0..MaxOffset
  BY ScanAssumption
<1> QED
  BY <1>1 DEF Nowhere

(* Nothing is in the scope of a scan without windows.                      *)
LEMMA NoScope == window = <<>> => Scope = {}
<1>1. DOMAIN <<>> = {}
  OBVIOUS
<1> QED
  BY <1>1 DEF Scope

(* The invariant holds of it.                                              *)
LEMMA ReadsStart == Fresh => ReadsInv
<1> SUFFICES ASSUME Fresh PROVE ReadsInv
  OBVIOUS
<1>0. MaxOffset \in Nat /\ Offsets = 0..(MaxOffset - 1)
  BY ScanAssumption DEF Offsets
<1>1. LogInv
  <2>1. PICK l \in Logs : live = [p \in Partitions |-> l[p].live] /\ hw = [p \in Partitions |-> l[p].hw]
    BY DEF Fresh
  <2>2. /\ l \in [Partitions -> [live : SUBSET Offsets, hw : 0..MaxOffset]]
        /\ \A p \in Partitions : \A o \in l[p].live : o < l[p].hw
    BY ScanAssumption
  <2> QED
    BY <2>1, <2>2 DEF LogInv
<1>2. FlowInv
  <2>1. "handler" \in Way
    BY DEF Way
  <2>2. LockHolds
    BY DEF Fresh, LockHolds, NoAnswer, Refusals
  <2> QED
    BY <2>1, <2>2 DEF Fresh, FlowInv, Reading
<1>3. ListedInv
  <2>1. Nowhere \in [Partitions -> 0..MaxOffset]
    BY NowhereType
  <2>2. \A p \in Partitions : hw[p] \in 0..MaxOffset /\ live[p] \subseteq Offsets /\ Nowhere[p] = 0
    BY <1>1, NowhereType DEF LogInv
  <2>3. hw \in [Partitions -> 0..MaxOffset]
    BY <1>1 DEF LogInv
  <2> QED
    BY <1>0, <2>1, <2>2, <2>3 DEF Fresh, ListedInv
<1>4. ~ Scanned /\ ~ Told /\ ~ Listed
  BY DEF Fresh, Scanned, Told, Listed, NoAnswer
<1>5. UpToInv /\ SubtractInv
  BY <1>4 DEF Fresh, UpToInv, SubtractInv
<1>6. bounds \in Bound
  <2>1. bounds \in Bounds
    BY ReadsAssumption DEF Fresh
  <2> QED
    BY <2>1, ScanAssumption
<1>7. Scope = {}
  BY NoScope DEF Fresh
<1>8. EmitInv
  <2>1. window \in [Scope -> Window]
    BY <1>7, NoScope DEF Fresh, Scope
  <2>2. Ready
    BY <1>1, <1>6, <1>7, <2>1 DEF Fresh, Ready, LogInv
  <2> QED
    BY <2>2, EmitInit
<1>9. RunInv
  BY <1>4, <1>6, <1>7, <1>8 DEF Fresh, RunInv
<1>10. AnswerInv
  BY <1>4 DEF Fresh, AnswerInv, GetIsTheRecord, Told
<1> QED
  BY <1>1, <1>2, <1>3, <1>5, <1>9, <1>10 DEF ReadsInv

-----------------------------------------------------------------------------
(* What a read promises follows from the invariant.                        *)
LEMMA InvIsWithin == ReadsInv => ReadIsWithin
<1> SUFFICES ASSUME ReadsInv, NEW i \in 1..Len(items)
             PROVE  LET p == items[i][1]
                        o == items[i][2]
                    IN  /\ p \in Chosen /\ o < ends[p]
                        /\ ask.from.kind = "offset" => o >= ask.from.at
                        /\ ask.to.kind = "offset" => o < ask.to.at
                        /\ ask.from.kind = "latest" => o >= ends[p] - Resolved(MessageBound)
  BY DEF ReadIsWithin
<1> DEFINE p == items[i][1]
           o == items[i][2]
<1>1. Scope \subseteq Partitions /\ EmitInv
  <2>1. StrayInv => FALSE
    BY EmptySeq DEF StrayInv
  <2> QED
    BY <2>1 DEF ReadsInv, RunInv
<1>2. <<p, o>> \in seen /\ p \in Scope /\ p \in Partitions /\ o \in Nat
  <2>1. items[i] \in Records /\ items[i] \in Emitted
    BY <1>1, ItemsType DEF EmitInv, ScanInv
  <2>2. items[i] \in seen
    BY <1>1, <2>1 DEF EmitInv, ItemsInv, Matches
  <2>3. items[i] = <<p, o>> /\ p \in Partitions /\ o \in Offsets
    BY <2>1 DEF Records
  <2>4. p \in Scope
    BY <1>1, <2>2 DEF EmitInv, ScanInv, NoOverlap
  <2> QED
    BY <2>2, <2>3, <2>4, OffsetsAreNat
<1>3. window[p].start <= o /\ o < window[p].end
  BY <1>1, <1>2 DEF EmitInv, ScanInv, NoOverlap
<1>4. window # <<>>
  BY <1>2, EmptySeq DEF Scope
<1>5. window = Windows1
  BY <1>4 DEF ReadsInv, RunInv
<1>6. p \in Chosen /\ window[p] = [start |-> FromOffset(p), end |-> EndOffset(p)]
  BY <1>2, <1>5 DEF Windows1, Scope
<1>7. ask \in Asks /\ ListedInv /\ ~ Unparsable /\ ask.id # "M2"
  BY <1>4 DEF ReadsInv, FlowInv, RunInv
<1>8. /\ FromOffset(p) \in Nat
      /\ EndOffset(p) \in Nat /\ EndOffset(p) <= Of(ends, p)
      /\ ask.from.kind = "offset" => FromOffset(p) = ask.from.at
      /\ ask.from.kind = "latest" => FromOffset(p) >= Of(ends, p) - Resolved(MessageBound)
      /\ ask.to.kind = "offset" => EndOffset(p) <= ask.to.at
  BY <1>7, WindowType
<1>9. /\ Of(ends, p) = ends[p] /\ ends[p] \in Nat /\ Resolved(MessageBound) \in Int
      /\ ask.from.at \in Nat /\ ask.to.at \in Nat
  BY <1>2, <1>7, OfType, BoundsAsked, FromType DEF Of
<1>10. FromOffset(p) <= o /\ o < EndOffset(p)
  BY <1>3, <1>6
<1> HIDE DEF o, p
<1>11. o < ends[p]
  BY <1>2, <1>8, <1>9, <1>10
<1>12. ask.from.kind = "offset" => o >= ask.from.at
  BY <1>2, <1>8, <1>9, <1>10
<1>13. ask.to.kind = "offset" => o < ask.to.at
  BY <1>2, <1>8, <1>9, <1>10
<1>14. ask.from.kind = "latest" => o >= ends[p] - Resolved(MessageBound)
  BY <1>2, <1>8, <1>9, <1>10
<1> QED
  BY <1>6, <1>11, <1>12, <1>13, <1>14 DEF o, p

(* A read that ended at its end has evaluated what was asked for.          *)
LEMMA InvScanComplete ==
    ASSUME ReadsInv, Scanned, ReachedEnd, ~ bounds.latest,
           NEW p \in Partitions, NEW o \in live[p], Wanted(p, o)
    PROVE  <<p, o>> \in seen
<1>1. /\ window = Windows1 /\ bounds.latest = (ask.from.kind = "latest") /\ pc = "done"
      /\ ask \in Asks /\ ListedInv /\ ~ Unparsable /\ ask.id # "M2"
  BY DEF ReadsInv, FlowInv, RunInv
<1>2. p \in Chosen /\ Scope = Chosen
  BY <1>1 DEF Wanted, Windows1, Scope
<1>3. Scope \subseteq Partitions /\ EmitInv
  <2>1. StrayInv => FALSE
    BY <1>2 DEF StrayInv
  <2> QED
    BY <2>1 DEF ReadsInv, RunInv
<1>4. window[p] = [start |-> FromOffset(p), end |-> EndOffset(p)]
  BY <1>1, <1>2 DEF Windows1
<1>5. o \in Nat /\ o \in Offsets /\ Of(ends, p) = ends[p] /\ ends[p] \in Nat
  BY <1>1, OffsetsAreNat, OfType DEF ReadsInv, LogInv, Of
<1>6. FromOffset(p) <= o
  <2>1. ask.from.kind \in {"beginning", "offset", "timestamp"}
    BY <1>1, FromType DEF Unparsable
  <2>2. CASE ask.from.kind = "beginning"
    <3>1. FromOffset(p) = begins[p]
      BY <1>1, <2>2, WindowType DEF Of
    <3> QED
      BY <1>1, <3>1 DEF ListedInv
  <2>3. CASE ask.from.kind = "offset"
    <3>1. FromOffset(p) = ask.from.at /\ o >= ask.from.at /\ ask.from.at \in Nat
      BY <1>1, <2>3, WindowType, FromType DEF Wanted
    <3> QED
      BY <1>5, <3>1
  <2>4. CASE ask.from.kind = "timestamp"
    <3>1. FromOffset(p) = fromTimes[p] /\ Time[<<p, o>>] >= ask.from.at
      BY <1>1, <2>4, WindowType DEF Wanted, Of
    <3> QED
      BY <1>1, <3>1 DEF ListedInv
  <2> QED
    BY <2>1, <2>2, <2>3, <2>4
<1>7. o < EndOffset(p)
  <2>1. o < Of(ends, p)
    BY <1>5 DEF Wanted
  <2>2. ask.to.kind = "offset" => o < ask.to.at
    BY DEF Wanted
  <2>3. ask.to.kind = "timestamp" => o < Of(toTimes, p)
    <3> SUFFICES ASSUME ask.to.kind = "timestamp" PROVE o < toTimes[p]
      BY DEF Of
    <3>1. o \in 0..(ends[p] - 1)
      BY <1>5, <2>1
    <3>2. Before(toTimes, ask.to.at, p, o)
      BY <3>1 DEF ReadsInv, UpToInv, Listed
    <3> QED
      BY <3>2 DEF Wanted, Before
  <2> QED
    BY <1>1, <1>5, <2>1, <2>2, <2>3, WindowType
<1>8. stop.reachedEnd /\ WindowsExhausted
  BY <1>1, <1>3 DEF ReachedEnd, EmitInv, ScanInv, StopInv
<1>9. cursor[p] >= EndOffset(p) /\ cursor[p] \in Nat /\ EndOffset(p) \in Nat
  <2>1. cursor[p] >= window[p].end /\ cursor[p] \in Nat
    BY <1>2, <1>3, <1>8 DEF WindowsExhausted, EmitInv, ScanInv, TypeOK
  <2>2. EndOffset(p) \in Nat
    BY <1>1, WindowType
  <2> QED
    BY <1>4, <2>1, <2>2
<1>10. window[p].start <= o /\ o < cursor[p]
  <2>1. o < cursor[p]
    BY <1>5, <1>7, <1>9
  <2> QED
    BY <1>4, <1>6, <2>1
<1> QED
  BY <1>2, <1>3, <1>10 DEF EmitInv, ScanInv, NoGap

(* What is in an interval is no more than the interval.                    *)
LEMMA CountInterval ==
    ASSUME NEW a \in Nat, NEW b \in Nat, a <= b, NEW S, S \subseteq a..(b - 1)
    PROVE  Cardinality(S) \in Nat /\ Cardinality(S) <= b - a
<1>1. a \in Int /\ b - 1 \in Int /\ (IF a > b - 1 THEN 0 ELSE (b - 1) - a + 1) = b - a
  OBVIOUS
<1>2. IsFiniteSet(a..(b - 1)) /\ Cardinality(a..(b - 1)) = b - a
  BY <1>1, FS_Interval
<1> QED
  BY <1>2, FS_Subset, FS_CardinalityType

(* T4 counts what is in its window, and not what is before it.             *)
LEMMA InvCountComplete ==
    ASSUME ReadsInv, Told, NEW p \in Partitions
    PROVE  LET there == {o \in live[p] : o < came[p]}
               counted == {o \in there : Wanted(p, o)}
               before == {o \in there : \A n \in 0..o : Time[<<p, n>>] < ask.from.at}
           IN  answer.plan[p] \in Cardinality(counted)..(ends[p] - Cardinality(before))
<1> DEFINE there == {o \in live[p] : o < came[p]}
           counted == {o \in there : Wanted(p, o)}
           before == {o \in there : \A n \in 0..o : Time[<<p, n>>] < ask.from.at}
           first == fromTimes[p]
           to == toTimes[p]
           end == ends[p]
           last == CountEnd(p)
<1>1. /\ ask \in Asks /\ ask.id = "T4" /\ answer.plan[p] = last - first
      /\ ListedInv /\ LogInv
  BY DEF ReadsInv, FlowInv, AnswerInv, Told
<1>2. ask.from.kind = "timestamp" /\ ask.to.kind = "timestamp"
  BY <1>1, AskType DEF ReadsInv, AnswerInv, Told, Unparsable
<1>3. first \in Nat /\ end \in Nat /\ to \in Nat /\ came[p] \in Nat
  BY <1>1, OffsetsAreNat DEF ListedInv
<1>4. first <= end
  BY <1>1 DEF ReadsInv, SubtractInv
<1>5. \A o \in 0..(came[p] - 1) :
          Before(fromTimes, ask.from.at, p, o) /\ Before(toTimes, ask.to.at, p, o)
  BY <1>1 DEF ReadsInv, SubtractInv
<1>6. live[p] \subseteq Nat
  BY <1>1, OffsetsAreNat DEF LogInv
<1>7. last \in Nat /\ first <= last /\ last <= end /\ \A o \in Nat : o < to /\ o < end => o < last
  BY <1>3, <1>4 DEF CountEnd, Larger
<1>8. counted \subseteq first..(last - 1)
  <2> SUFFICES ASSUME NEW o \in counted PROVE o \in first..(last - 1)
    OBVIOUS
  <2>1. o \in live[p] /\ o \in Nat /\ o < came[p] /\ Wanted(p, o)
    BY <1>6
  <2>2. Time[<<p, o>>] >= ask.from.at /\ o < end /\ \A n \in 0..o : Time[<<p, n>>] < ask.to.at
    BY <1>2, <2>1 DEF Wanted
  <2>3. first <= o
    BY <1>1, <2>1, <2>2 DEF ListedInv
  <2>4. o \in 0..(came[p] - 1)
    BY <1>3, <2>1
  <2>5. o < to
    BY <1>5, <2>2, <2>4 DEF Before
  <2>6. o < last
    BY <1>7, <2>1, <2>2, <2>5
  <2> HIDE DEF first, last
  <2> QED
    BY <1>3, <1>7, <2>1, <2>3, <2>6
<1>9. before \subseteq 0..(first - 1)
  <2> SUFFICES ASSUME NEW o \in before PROVE o \in 0..(first - 1)
    OBVIOUS
  <2>1. o \in Nat /\ o < came[p] /\ \A n \in 0..o : Time[<<p, n>>] < ask.from.at
    BY <1>6
  <2>2. o \in 0..(came[p] - 1)
    BY <1>3, <2>1
  <2>3. o < first
    BY <1>5, <2>1, <2>2 DEF Before
  <2> QED
    BY <1>3, <2>1, <2>3
<1> HIDE DEF there, counted, before, first, to, end, last
<1>10. Cardinality(counted) \in Nat /\ Cardinality(counted) <= last - first
  BY <1>3, <1>7, <1>8, CountInterval
<1>11. Cardinality(before) \in Nat /\ Cardinality(before) <= first
  <2>1. 0 \in Nat /\ 0 <= first /\ first - 0 = first
    BY <1>3
  <2>2. Cardinality(before) \in Nat /\ Cardinality(before) <= first - 0
    BY <1>3, <1>9, <2>1, CountInterval
  <2> QED
    BY <2>1, <2>2
<1>12. answer.plan[p] \in Cardinality(counted)..(end - Cardinality(before))
  BY <1>1, <1>3, <1>7, <1>10, <1>11
<1> QED
  BY <1>12 DEF there, counted, before, end

(* What a read says of its completeness, whichever way it was read.        *)
LEMMA InvIsComplete == ReadsInv => ReadIsComplete
BY InvScanComplete, InvCountComplete DEF ReadIsComplete, Told

-----------------------------------------------------------------------------
(* What a client sends can be told from what it gets back.                 *)
LEMMA EncodeType ==
    ASSUME NEW w, w.text \in Words, Encodable(w)
    PROVE  Encode(w) \in Words
<1>1. CASE w.encoding = "base64"
  <2>1. PICK b \in Raw : Base64[b] = w.text
    BY <1>1 DEF Encodable, Raw, Range
  <2>2. Encode(w) \in Raw
    BY <1>1, <2>1 DEF Encode
  <2> QED
    BY <2>2, MatchingAssumption
<1>2. CASE w.encoding # "base64"
  BY <1>2 DEF Encode
<1> QED
  BY <1>1, <1>2

(* Bytes that are read back and sent again are the same bytes.             *)
LEMMA ThereAndBack ==
    ASSUME NEW b \in Words
    PROVE  Encode(DecodeBytes(b, "")) = b
<1>1. DecodeBytes(b, "") = AutoDecode(b)
  BY DEF DecodeBytes
<1>2. CASE IsJSON(b)
  <2>1. DecodeBytes(b, "") = Wire(b, "json")
    BY <1>1, <1>2 DEF AutoDecode
  <2>2. Encode(Wire(b, "json")) = b
    BY DEF Encode, Wire
  <2> QED
    BY <2>1, <2>2
<1>3. CASE ~ IsJSON(b) /\ b \in UTF8
  <2>1. DecodeBytes(b, "") = Wire(b, "string")
    BY <1>1, <1>3 DEF AutoDecode
  <2>2. Encode(Wire(b, "string")) = b
    BY DEF Encode, Wire
  <2> QED
    BY <2>1, <2>2
<1>4. CASE ~ IsJSON(b) /\ b \notin UTF8
  <2>1. b \in Raw
    BY <1>4, MatchingAssumption
  <2>2. \A c \in Raw : Base64[c] = Base64[b] => c = b
    BY <2>1, MatchingAssumption DEF IsInjective, Raw
  <2>3. Encode(Wire(Base64[b], "base64")) = b
    BY <2>1, <2>2 DEF Encode, Wire
  <2> QED
    BY <1>1, <1>4, <2>3 DEF AutoDecode
<1> QED
  BY <1>2, <1>3, <1>4

-----------------------------------------------------------------------------
(* A record that is sent has a key, and a partition or none.               *)
LEMMA SentType ==
    ASSUME NEW item \in Sent
    PROVE  item.key.text \in Words /\ item.value.text \in Words /\ item.partition \in Int
<1>1. CASE item \in Item
  BY <1>1 DEF Item
<1>2. CASE item = EmptyItem
  <2>1. Empty \in Words
    BY MatchingAssumption
  <2> QED
    <3>1. /\ EmptyItem.key.text = Empty /\ EmptyItem.value.text = Empty
          /\ EmptyItem.partition = NoPartition
      BY DEF EmptyItem, Wire
    <3>2. NoPartition \in Int
      BY DEF NoPartition
    <3> QED
      BY <1>2, <2>1, <3>1, <3>2
<1> QED
  BY <1>1, <1>2 DEF Sent

(* The records written are of the topic, and of its log.                   *)
LEMMA PartitionsOf ==
    ASSUME NEW item \in Sent, WrittenInv, where # "off", Encodable(item.key), NEW p \in PartitionsFor(item)
    PROVE  /\ p \in Partitions
           /\ item.partition # NoPartition => p = item.partition
<1>1. existing \in Nat \ {0} /\ 0..(existing - 1) \subseteq Partitions
  BY WritesAssumption, FS_CardinalityType DEF WrittenInv
<1>2. CASE item.partition # NoPartition
  BY <1>1, <1>2 DEF PartitionsFor
<1>3. CASE item.partition = NoPartition /\ Encode(item.key) = Empty
  BY <1>1, <1>3 DEF PartitionsFor
<1>4. CASE item.partition = NoPartition /\ Encode(item.key) # Empty
  <2>1. item.key.text \in Words
    BY SentType
  <2>2. Hash[Encode(item.key)] \in Nat
    BY <2>1, EncodeType, WritesAssumption
  <2>3. Hash[Encode(item.key)] % existing \in 0..(existing - 1)
    BY <1>1, <2>2
  <2> QED
    BY <1>1, <1>4, <2>3 DEF PartitionsFor
<1> QED
  BY <1>2, <1>3, <1>4

(* A write leaves the read alone, and appends to the log.                  *)
LEMMA WriteIsTopic ==
    ASSUME NEW item, NEW p \in Partitions, Write(item, p), pc = "assign",
           UNCHANGED <<askVars, runVars, expired>>
    PROVE  Topic
<1>1. Append1(p)
  BY DEF Write, Append1
<1> QED
  BY <1>1 DEF Topic

(* What is written is a new record, and what was written stays as it was.  *)
LEMMA WriteIs ==
    ASSUME LogInv, WrittenInv, UNCHANGED <<where, existing>>, NEW item, NEW p \in Partitions, Write(item, p)
    PROVE  /\ WrittenInv'
           /\ <<p, hw[p]>> \notin written /\ <<p, hw[p]>> \in written'
           /\ hw[p] \in Nat /\ hw'[p] = hw[p] + 1
           /\ content'[<<p, hw[p]>>] = Bytes(item)
           /\ written \subseteq written'
           /\ \A r \in written : content'[r] = content[r]
           /\ \A q \in Partitions : hw[q] \in Nat /\ hw'[q] \in Nat /\ hw[q] <= hw'[q]
<1> DEFINE new == <<p, hw[p]>>
<1>0. MaxOffset \in Nat /\ Offsets = 0..(MaxOffset - 1)
  BY ScanAssumption DEF Offsets
<1>1. hw[p] \in Offsets /\ hw' = [hw EXCEPT ![p] = hw[p] + 1] /\ written' = written \cup {new}
  BY <1>0 DEF LogInv, Write
<1>2. new \in Records /\ new[1] = p /\ new[2] = hw[p]
  BY <1>1 DEF Records
<1>3. \A q \in Partitions : hw[q] \in Nat /\ hw'[q] \in Nat /\ hw[q] <= hw'[q]
  BY <1>0, <1>1 DEF LogInv
<1>4. hw[p] \in Nat /\ hw'[p] = hw[p] + 1
  BY <1>0, <1>1 DEF LogInv
<1>5. new \notin written
  <2> SUFFICES ASSUME new \in written PROVE FALSE
    OBVIOUS
  <2>1. new[2] < hw[new[1]]
    BY DEF WrittenInv
  <2> QED
    BY <1>2, <1>4, <2>1
<1> HIDE DEF new
<1>6. content' = [r \in written \cup {new} |-> IF r \in written THEN content[r] ELSE Bytes(item)]
  BY DEF Write, WrittenInv, new
<1>7. content'[new] = Bytes(item) /\ DOMAIN content' = written'
  BY <1>1, <1>5, <1>6
<1>8. \A r \in written : content'[r] = content[r]
  BY <1>6
<1>9. WrittenInv'
  <2>1. IsFiniteSet(written')
    BY <1>1, FS_AddElement DEF WrittenInv
  <2>2. ASSUME NEW r \in written' PROVE r \in Records /\ r[2] < hw'[r[1]]
    <3>1. CASE r = new
      BY <1>2, <1>4, <3>1
    <3>2. CASE r \in written
      <4>1. r \in Records /\ r[2] < hw[r[1]]
        BY <3>2 DEF WrittenInv
      <4>2. r[1] \in Partitions /\ r[2] \in Nat
        BY <1>0, <4>1 DEF Records
      <4> QED
        BY <1>3, <4>1, <4>2
    <3> QED
      BY <1>1, <3>1, <3>2
  <2>3. where' # "off" => existing' \in 1..Cardinality(Partitions)
    BY DEF WrittenInv
  <2> QED
    BY <1>7, <2>1, <2>2, <2>3 DEF WrittenInv
<1> QED
  BY <1>1, <1>3, <1>4, <1>5, <1>7, <1>8, <1>9 DEF new

(* A longer log leaves what was reported written there.                    *)
LEMMA StillThere ==
    ASSUME LogInv, NEW i \in DOMAIN results, Acknowledged(i), UNCHANGED batch1,
           results'[i] = results[i],
           written \subseteq written', \A r \in written : content'[r] = content[r],
           \A q \in Partitions : hw[q] \in Nat /\ hw'[q] \in Nat /\ hw[q] <= hw'[q]
    PROVE  Acknowledged(i)'
<1> DEFINE p == results[i].partition
           o == results[i].offset
<1>1. /\ p \in Partitions /\ o \in 0..(hw[p] - 1) /\ <<p, o>> \in written
      /\ batch1[i].partition # NoPartition => p = batch1[i].partition
      /\ content[<<p, o>>] = Bytes(batch1[i])
  BY DEF Acknowledged
<1>2. results'[i].partition = p /\ results'[i].offset = o
  OBVIOUS
<1> HIDE DEF p, o
<1>3. o \in 0..(hw'[p] - 1)
  BY <1>1
<1>4. <<p, o>> \in written' /\ content'[<<p, o>>] = Bytes(batch1[i])
  BY <1>1
<1>5. Bytes(batch1[i])' = Bytes(batch1[i])
  BY DEF Bytes
<1> QED
  BY <1>1, <1>2, <1>3, <1>4, <1>5 DEF Acknowledged

(* What a trail of no event or of one is with one more.                    *)
LEMMA AppendIs ==
    ASSUME NEW a, NEW b
    PROVE  Append(<<>>, a) = <<a>> /\ Append(<<a>>, b) = <<a, b>>
<1> DEFINE s == Append(<<a>>, b)
<1>1. <<>> \in Seq({a, b}) /\ <<a>> \in Seq({a, b}) /\ Len(<<a>>) = 1
  OBVIOUS
<1>2. Append(<<>>, a) = <<a>>
  BY <1>1
<1>3. s \in Seq({a, b}) /\ Len(s) = 2 /\ s[1] = a /\ s[2] = b
  BY <1>1, AppendProperties
<1> HIDE DEF s
<1>4. DOMAIN s = 1..2 /\ s = [i \in 1..2 |-> s[i]]
  BY <1>3, LenProperties
<1>5. <<a, b>> = [i \in 1..2 |-> s[i]]
  BY <1>3
<1> QED
  BY <1>2, <1>4, <1>5 DEF s

(* While a write is on its way, the read does not exist.                   *)
LEMMA ReadsIdle ==
    ASSUME ReadsInv, Idle, where # "off", UNCHANGED readVars, UNCHANGED vars \/ Topic
    PROVE  ReadsInv'
<1>1. at = "handler"
  BY DEF Idle
<1> QED
  BY <1>1, ReadsQuiet DEF Next

(* A step of the request's own, before its records are executed, after     *)
(* them, or while somebody adds a partition.                               *)
LEMMA RequestStep ==
    ASSUME MessagesInv, where # "off", Request, UNCHANGED <<vars, readVars>>
    PROVE  MessagesInv'
<1>1. ReadsInv'
  BY ReadsIdle DEF MessagesInv
<1>2. /\ where \in {"http", "gate", "bulk", "count", "validate", "execute", "answered"}
      /\ where \in {"http", "gate", "bulk", "count", "validate"} =>
             results = <<>> /\ written = {} /\ trail = <<>> /\ response = NoResponse
      /\ where = "execute" => AllValid /\ trail = <<Attempted>> /\ response = NoResponse
      /\ batch1 \in Seq(Sent) /\ sub \in Submissions /\ WrittenInv /\ ResultsInv
  BY DEF MessagesInv, StageInv, Idle
<1>3. UNCHANGED <<sub, results, content, written, live, hw>>
  BY DEF Request, BodyRefused, BodyTaken, WriteRefused, WriteAdmitted, BulkRefused, BulkParsed,
     CountPartitions, CountFails, Invalid, Attempt, AttemptFails, Executed, AddPartition, Proceed,
     Respond, subVars, keptVars, vars
<1>4. Idle' /\ where' \in {"http", "gate", "bulk", "count", "validate", "execute", "answered"}
  <2>1. UNCHANGED <<at, touched, got, answer>>
    BY DEF readVars, outcomeVars
  <2>2. where' \in {"http", "gate", "bulk", "count", "validate", "execute", "answered"}
    BY <1>2 DEF Request, BodyRefused, BodyTaken, WriteRefused, WriteAdmitted, BulkRefused, BulkParsed,
       CountPartitions, CountFails, Invalid, Attempt, AttemptFails, Executed, AddPartition, Proceed,
       Respond
  <2> QED
    BY <1>2, <1>3, <2>1, <2>2 DEF MessagesInv, Idle
<1>5. WrittenInv'
  <2>1. existing' \in 1..Cardinality(Partitions)
    <3>1. CASE AddPartition
      BY <1>2, <3>1, WritesAssumption, FS_CardinalityType DEF AddPartition, WrittenInv
    <3>2. CASE ~ AddPartition
      BY <1>2, <3>2 DEF Request, BodyRefused, BodyTaken, WriteRefused, WriteAdmitted, BulkRefused,
         BulkParsed, CountPartitions, CountFails, Invalid, Attempt, AttemptFails, Executed,
         keptVars, WrittenInv
    <3> QED
      BY <3>1, <3>2
  <2> QED
    BY <1>2, <1>3, <2>1 DEF WrittenInv
<1>6. batch1' \in Seq(Sent) /\ (results # <<>> => UNCHANGED batch1)
  <2>1. CASE BodyTaken \/ BulkParsed
    <3>1. sub.items \in Seq(Sent)
      <4>1. sub.items \in Seq(Item)
        BY <1>2, WritesAssumption DEF Submission
      <4> QED
        BY <4>1, SeqDef DEF Sent
    <3>2. <<EmptyItem>> \in Seq(Sent)
      <4>1. EmptyItem \in Sent
        BY DEF Sent
      <4> QED
        BY <4>1
    <3>3. results = <<>> /\ batch1' \in {batch1, sub.items, <<EmptyItem>>}
      BY <1>2, <2>1 DEF BodyTaken, BulkParsed, Proceed, ProduceBody
    <3> QED
      BY <1>2, <3>1, <3>2, <3>3
  <2>2. CASE ~ (BodyTaken \/ BulkParsed)
    BY <1>2, <2>2 DEF Request, BodyRefused, WriteRefused, WriteAdmitted, BulkRefused, CountPartitions,
       CountFails, Invalid, Attempt, AttemptFails, Executed, AddPartition, subVars
  <2> QED
    BY <2>1, <2>2
<1>7. ResultsInv'
  <2>1. CASE results = <<>>
    BY <1>3, <1>6, <2>1, EmptySeq, LenProperties DEF ResultsInv
  <2>2. CASE results # <<>>
    BY <1>2, <1>3, <1>6, <2>2 DEF ResultsInv, Acknowledged
  <2> QED
    BY <2>1, <2>2
<1>8. StageInv'
  <2>1. CASE \/ BodyTaken \/ WriteAdmitted \/ BulkParsed \/ CountPartitions
    BY <1>2, <1>3, <1>6, <2>1 DEF BodyTaken, WriteAdmitted, BulkParsed, CountPartitions, Proceed,
       StageInv, subVars, keptVars
  <2>2. CASE BodyRefused \/ WriteRefused \/ BulkRefused \/ CountFails \/ Invalid \/ AttemptFails
    <3>1. where' = "answered" /\ results = <<>> /\ written = {}
      BY <1>2, <2>2 DEF BodyRefused, WriteRefused, BulkRefused, CountFails, Invalid, AttemptFails, Respond
    <3>2. response'.code \notin {"", "ok", "multi"}
      BY <2>2 DEF BodyRefused, WriteRefused, BulkRefused, CountFails, Invalid, AttemptFails, Respond,
         NoResponse, WriteVerdict, Check, WriteRefusal, LockRefusal
    <3> QED
      BY <1>3, <1>6, <3>1, <3>2 DEF StageInv
  <2>3. CASE Attempt
    <3>1. where' = "execute" /\ UNCHANGED <<batch1, count, response>> /\ AllValid /\ response = NoResponse
      BY <1>2, <2>3 DEF Attempt, Proceed, subVars
    <3>2. trail' = <<Attempted>>
      <4>1. trail = <<>> /\ trail' = Append(trail, Attempted)
        BY <1>2, <2>3 DEF Attempt, Proceed, Attempted
      <4> QED
        BY <4>1, AppendIs
    <3> QED
      BY <1>6, <3>1, <3>2 DEF StageInv, AllValid, Valid
  <2>4. CASE Executed
    <3>1. /\ where = "execute" /\ where' = "answered" /\ Len(results) = Len(batch1) /\ AllValid
          /\ UNCHANGED <<sub, batch1, count, results>>
          /\ trail' = Append(<<Attempted>>, <<"RESULT", ResultOutcome>>)
          /\ response' = [code |-> Status, ok |-> Tally("SUCCEEDED"), failed |-> Tally("FAILED")]
      BY <1>2, <2>4 DEF Executed, Proceed
    <3>2. trail' = <<Attempted, <<"RESULT", ResultOutcome>>>>
      BY <3>1, AppendIs
    <3>3. UNCHANGED <<AllValid, Status, ResultOutcome, Tally("SUCCEEDED"), Tally("FAILED")>>
      BY <3>1 DEF AllValid, Valid, Status, ResultOutcome, Tally
    <3> QED
      BY <1>6, <3>1, <3>2, <3>3 DEF StageInv
  <2>5. CASE AddPartition
    BY <1>2, <1>3, <1>6, <2>5 DEF AddPartition, StageInv, subVars, AllValid, Valid
  <2> QED
    BY <2>1, <2>2, <2>3, <2>4, <2>5 DEF Request
<1> QED
  BY <1>1, <1>4, <1>5, <1>7, <1>8 DEF MessagesInv

(* A record executed: written or not, and reported or not.                 *)
LEMMA ItemStep ==
    ASSUME MessagesInv, NEW i \in DOMAIN batch1, ProduceItem(batch1[i]) \/ ProduceItemFails(batch1[i])
    PROVE  MessagesInv'
<1> DEFINE item == batch1[i]
<1>0. PICK n : n = Len(results)
  OBVIOUS
<1>1. /\ where = "execute" /\ n < Len(batch1) /\ item = batch1[n + 1]
      /\ UNCHANGED <<sub, where, batch1, count, response, existing, trail>>
      /\ UNCHANGED <<askVars, runVars, expired, readVars>>
  BY <1>0 DEF ProduceItem, ProduceItemFails, Executing
<1>2. /\ ReadsInv /\ LogInv /\ Idle /\ WrittenInv /\ ResultsInv /\ batch1 \in Seq(Sent)
      /\ AllValid /\ trail = <<Attempted>> /\ response = NoResponse
      /\ results \in Seq(Result) /\ n \in Nat
  BY <1>0, <1>1, LenProperties DEF MessagesInv, ReadsInv, StageInv, ResultsInv
<1>3. n + 1 \in DOMAIN batch1 /\ item \in Sent /\ Valid(item)
  <2>1. DOMAIN batch1 = 1..Len(batch1) /\ Len(batch1) \in Nat
    BY <1>2, LenProperties
  <2>2. n + 1 \in DOMAIN batch1
    BY <1>1, <1>2, <2>1
  <2>3. item \in Sent
    BY <1>2, ElementOfSeq, <2>1
  <2> QED
    BY <1>2, <2>2, <2>3 DEF AllValid
<1>4. \A p \in PartitionsFor(item) :
          p \in Partitions /\ (item.partition # NoPartition => p = item.partition)
  BY <1>1, <1>2, <1>3, PartitionsOf DEF Valid
<1> HIDE DEF item
<1>5. ASSUME NEW p \in Partitions, Write(item, p)
      PROVE  Topic
  <2>1. pc = "assign"
    BY <1>1, <1>2 DEF ReadsInv, RunInv, Idle, Started
  <2> QED
    BY <1>1, <1>5, <2>1, WriteIsTopic
<1>6. UNCHANGED vars \/ Topic
  <2>1. CASE UNCHANGED <<live, hw>>
    BY <1>1, <2>1 DEF vars, askVars, runVars
  <2>2. CASE \E p \in PartitionsFor(item) : Write(item, p)
    BY <1>4, <1>5, <2>2
  <2> QED
    BY <2>1, <2>2 DEF ProduceItem, ProduceItemFails, item
<1>7. ReadsInv' /\ LogInv'
  BY <1>1, <1>2, <1>6, ReadsIdle DEF ReadsInv
<1>8. Idle'
  BY <1>1, <1>2 DEF Idle, readVars, outcomeVars
<1>9. /\ WrittenInv'
      /\ written \subseteq written' /\ \A r \in written : content'[r] = content[r]
      /\ \A q \in Partitions : hw[q] \in Nat /\ hw'[q] \in Nat /\ hw[q] <= hw'[q]
  <2>1. CASE UNCHANGED <<live, hw, content, written>>
    <3>1. WrittenInv'
      BY <1>1, <1>2, <2>1 DEF WrittenInv
    <3>2. \A q \in Partitions : hw[q] \in Nat
      BY <1>2, OffsetsAreNat DEF LogInv
    <3> QED
      BY <2>1, <3>1, <3>2
  <2>2. CASE \E p \in PartitionsFor(item) : Write(item, p)
    BY <1>1, <1>2, <1>4, <2>2, WriteIs
  <2> QED
    BY <2>1, <2>2 DEF ProduceItem, ProduceItemFails, item
<1>10. StageInv'
  <2>1. UNCHANGED AllValid
    BY <1>1 DEF AllValid, Valid
  <2> QED
    BY <1>1, <1>2, <2>1 DEF StageInv
<1>11. PICK result \in Result :
          /\ results' = Append(results, result)
          /\ result.outcome = "SUCCEEDED" =>
                /\ result.partition \in PartitionsFor(item) /\ Write(item, result.partition)
                /\ result.offset = hw[result.partition]
  <2>1. CASE ProduceItemFails(item)
    <3>1. Failed \in Result /\ Failed.outcome # "SUCCEEDED"
      BY DEF Failed, Result
    <3> QED
      BY <2>1, <3>1 DEF ProduceItemFails
  <2>2. CASE ProduceItem(item)
    <3>1. PICK p \in PartitionsFor(item) :
              /\ Write(item, p)
              /\ results' = Append(results, [outcome |-> "SUCCEEDED", partition |-> p, offset |-> hw[p]])
      BY <2>2 DEF ProduceItem
    <3>2. p \in Nat /\ hw[p] \in Nat
      BY <1>2, <1>4, <1>9, WritesAssumption, FS_CardinalityType
    <3> QED
      BY <3>1, <3>2 DEF Result
  <2> QED
    BY <2>1, <2>2 DEF item
<1>12. /\ results' \in Seq(Result) /\ Len(results') = n + 1
       /\ \A j \in 1..n : results'[j] = results[j]
       /\ results'[n + 1] = result
       /\ DOMAIN results = 1..n /\ DOMAIN results' = 1..(n + 1)
  BY <1>0, <1>2, <1>11, AppendProperties, LenProperties
<1>13. \A j \in 1..n : results[j].outcome = "SUCCEEDED" => Acknowledged(j) /\ Acknowledged(j)'
  BY <1>1, <1>2, <1>9, <1>12, StillThere DEF ResultsInv
<1>14. ASSUME result.outcome = "SUCCEEDED"
       PROVE  /\ Acknowledged(n + 1)'
              /\ <<result.partition, result.offset>> \notin written
  <2> DEFINE p == result.partition
             o == result.offset
  <2>1. /\ p \in Partitions /\ (item.partition # NoPartition => p = item.partition)
        /\ Write(item, p) /\ o = hw[p]
    BY <1>4, <1>11, <1>14
  <2> HIDE DEF p, o
  <2>2. /\ <<p, o>> \notin written /\ <<p, o>> \in written' /\ o \in Nat /\ hw'[p] = o + 1
        /\ content'[<<p, o>>] = Bytes(item)
    BY <1>1, <1>2, <2>1, WriteIs
  <2>3. results'[n + 1].partition = p /\ results'[n + 1].offset = o
    BY <1>12 DEF p, o
  <2>4. batch1'[n + 1] = item
    BY <1>1
  <2>5. Bytes(batch1[n + 1])' = Bytes(item)
    BY <2>4 DEF Bytes
  <2>6. o \in 0..(hw'[p] - 1)
    BY <2>2
  <2>7. Acknowledged(n + 1)'
    BY <2>1, <2>2, <2>3, <2>4, <2>5, <2>6 DEF Acknowledged
  <2> QED
    BY <2>2, <2>7 DEF p, o
<1>15. ResultsInv'
  <2>1. Len(results') <= Len(batch1')
    <3>1. Len(batch1) \in Nat
      BY <1>2, LenProperties
    <3> QED
      BY <1>1, <1>2, <1>12, <3>1
  <2>2. ASSUME NEW j \in DOMAIN results', results'[j].outcome = "SUCCEEDED"
        PROVE  Acknowledged(j)'
    <3>1. CASE j = n + 1
      BY <1>12, <1>14, <2>2, <3>1
    <3>2. CASE j \in 1..n
      BY <1>12, <1>13, <2>2, <3>2
    <3> QED
      BY <1>2, <1>12, <3>1, <3>2
  <2>3. ASSUME NEW j \in DOMAIN results', NEW k \in DOMAIN results', j # k,
               results'[j].outcome = "SUCCEEDED", results'[k].outcome = "SUCCEEDED"
        PROVE  <<results'[j].partition, results'[j].offset>> # <<results'[k].partition, results'[k].offset>>
    <3>1. \A m \in 1..n : results'[m].outcome = "SUCCEEDED" =>
              <<results'[m].partition, results'[m].offset>> \in written
      BY <1>12, <1>13 DEF Acknowledged
    <3>2. j \in 1..n \/ j = n + 1
      BY <1>2, <1>12
    <3>3. k \in 1..n \/ k = n + 1
      BY <1>2, <1>12
    <3>4. CASE j \in 1..n /\ k \in 1..n
      BY <1>2, <1>12, <2>3, <3>4 DEF ResultsInv
    <3>5. CASE j = n + 1 \/ k = n + 1
      BY <1>12, <1>14, <2>3, <3>1, <3>2, <3>3, <3>5
    <3> QED
      BY <3>2, <3>3, <3>4, <3>5
  <2> QED
    BY <1>12, <2>1, <2>2, <2>3 DEF ResultsInv
<1> QED
  BY <1>1, <1>7, <1>8, <1>9, <1>10, <1>15 DEF MessagesInv

(* Another client's record, in between.                                    *)
LEMMA OthersStep ==
    ASSUME MessagesInv, OtherWrites
    PROVE  MessagesInv'
<1>1. where = "execute" /\ UNCHANGED <<readVars, writeVars>> /\ Idle /\ LogInv
  BY DEF OtherWrites, MessagesInv, ReadsInv
<1>2. UNCHANGED <<sub, where, batch1, count, results, response, existing, content, written, trail>>
  BY <1>1 DEF writeVars, subVars, keptVars
<1>3. Topic
  <2>1. pc = "assign"
    BY <1>1 DEF MessagesInv, ReadsInv, RunInv, Idle, Started
  <2> QED
    BY <2>1 DEF OtherWrites, Topic
<1>4. ReadsInv'
  BY <1>1, <1>3, ReadsIdle DEF MessagesInv
<1>5. \A q \in Partitions : hw[q] \in Nat /\ hw'[q] \in Nat /\ hw[q] <= hw'[q]
  BY <1>1, <1>3, LogStep DEF Next
<1>6. Idle'
  BY <1>1, <1>2 DEF Idle, readVars, outcomeVars
<1>7. WrittenInv'
  <2>1. \A r \in written : r[1] \in Partitions /\ r[2] \in Nat /\ r[2] < hw[r[1]]
    BY OffsetsAreNat DEF MessagesInv, WrittenInv, Records
  <2>2. \A r \in written : r[2] < hw'[r[1]]
    BY <1>5, <2>1
  <2> QED
    BY <1>2, <2>2 DEF MessagesInv, WrittenInv
<1>8. StageInv'
  <2>1. UNCHANGED AllValid
    BY <1>2 DEF AllValid, Valid
  <2> QED
    BY <1>1, <1>2, <2>1 DEF MessagesInv, StageInv
<1>9. ResultsInv'
  <2>1. \A i \in DOMAIN results : results[i].outcome = "SUCCEEDED" => Acknowledged(i)'
    BY <1>1, <1>2, <1>5, StillThere DEF MessagesInv, ResultsInv
  <2> QED
    BY <1>2, <2>1 DEF MessagesInv, ResultsInv
<1> QED
  BY <1>2, <1>4, <1>6, <1>7, <1>8, <1>9 DEF MessagesInv

(* Nothing is written while a message is read.                             *)
LEMMA ReadingStep ==
    ASSUME MessagesInv, where = "off", ReadNext \/ UNCHANGED <<vars, readVars>>, UNCHANGED writeVars
    PROVE  MessagesInv'
<1>1. ReadsInv'
  BY ReadsStep, ReadsQuiet DEF MessagesInv
<1>2. UNCHANGED <<sub, where, batch1, count, results, response, existing, content, written, trail>>
  BY DEF writeVars, subVars, keptVars
<1>3. results = <<>> /\ written = {}
  BY DEF MessagesInv, StageInv
<1>4. Idle'
  BY <1>2 DEF MessagesInv, Idle
<1>5. WrittenInv'
  BY <1>2, <1>3 DEF MessagesInv, WrittenInv
<1>6. StageInv'
  BY <1>2 DEF MessagesInv, StageInv
<1>7. ResultsInv'
  BY <1>2, <1>3, EmptySeq, LenProperties DEF MessagesInv, ResultsInv
<1> QED
  BY <1>1, <1>2, <1>4, <1>5, <1>6, <1>7 DEF MessagesInv

(* A step that changes nothing.                                            *)
LEMMA StutterStep ==
    ASSUME MessagesInv, UNCHANGED <<vars, readVars, writeVars>>
    PROVE  MessagesInv'
<1>1. ReadsInv'
  BY ReadsQuiet DEF MessagesInv
<1>2. UNCHANGED <<sub, where, batch1, count, results, response, existing, content, written, trail>>
  BY DEF writeVars, subVars, keptVars
<1>3. UNCHANGED <<at, touched, got, answer, hw>>
  BY DEF readVars, outcomeVars, vars
<1>4. UNCHANGED <<Idle, WrittenInv, AllValid, ResultOutcome, Status, Tally("SUCCEEDED"), Tally("FAILED")>>
  BY <1>2, <1>3 DEF Idle, WrittenInv, AllValid, Valid, ResultOutcome, Status, Tally
<1>5. StageInv'
  BY <1>2, <1>4 DEF MessagesInv, StageInv
<1>6. ResultsInv'
  BY <1>2, <1>3 DEF MessagesInv, ResultsInv, Acknowledged, Bytes
<1> QED
  BY <1>1, <1>2, <1>4, <1>5, <1>6 DEF MessagesInv

(* Every request starts with the invariant, and every step keeps it.       *)
LEMMA MessagesStart == MessagesInit => MessagesInv
<1> SUFFICES ASSUME MessagesInit PROVE MessagesInv
  OBVIOUS
<1>1. Fresh
  BY DEF MessagesInit, ReadInit, Fresh
<1>2. /\ where = "off" \/ (where = "http" /\ sub \in Submissions /\ existing \in 1..Cardinality(Partitions))
      /\ batch1 = <<>> /\ results = <<>> /\ response = NoResponse
      /\ content = <<>> /\ written = {} /\ trail = <<>>
  BY DEF MessagesInit, WriteInit
<1>3. ReadsInv
  BY <1>1, ReadsStart
<1>4. Idle
  BY <1>1, <1>2 DEF Idle, Fresh
<1>5. WrittenInv
  <2>1. DOMAIN content = {}
    BY <1>2, EmptySeq
  <2>2. IsFiniteSet(written)
    BY <1>2, FS_EmptySet
  <2> QED
    BY <1>2, <2>1, <2>2 DEF WrittenInv
<1>6. StageInv
  BY <1>2, EmptySeq DEF StageInv
<1>7. ResultsInv
  BY <1>2, EmptySeq, LenProperties DEF ResultsInv
<1> QED
  BY <1>2, <1>3, <1>4, <1>5, <1>6, <1>7 DEF MessagesInv

(* Every step of a request keeps it.                                       *)
LEMMA MessagesStep == MessagesInv /\ [MessagesNext]_<<vars, readVars, writeVars>> => MessagesInv'
<1> SUFFICES ASSUME MessagesInv, [MessagesNext]_<<vars, readVars, writeVars>> PROVE MessagesInv'
  OBVIOUS
<1>1. CASE where = "off" /\ ReadNext /\ UNCHANGED writeVars
  BY <1>1, ReadingStep
<1>2. CASE where # "off" /\ WriteNext
  BY <1>2, RequestStep, ItemStep, OthersStep DEF WriteNext
<1>3. CASE UNCHANGED <<vars, readVars, writeVars>>
  BY <1>3, StutterStep
<1> QED
  BY <1>1, <1>2, <1>3 DEF MessagesNext

(* The inductive invariant of the message requests.                        *)
THEOREM MessagesInvariance == MessagesSpec => []MessagesInv
BY MessagesStart, MessagesStep, PTL DEF MessagesSpec

-----------------------------------------------------------------------------
(* What a write promises follows from the invariant.                       *)
LEMMA InvIsThere == MessagesInv => AcknowledgedIsThere
<1> SUFFICES ASSUME MessagesInv, NEW i \in DOMAIN results, results[i].outcome = "SUCCEEDED"
             PROVE  LET r == <<results[i].partition, results[i].offset>>
                        item == batch1[i]
                    IN  /\ r \in written
                        /\ item.partition # NoPartition => r[1] = item.partition
                        /\ \A j \in DOMAIN results : results[j].outcome = "SUCCEEDED" /\ i # j =>
                               r # <<results[j].partition, results[j].offset>>
                        /\ LET back == Decode(content[r], "")
                           IN  /\ Encode(back.key) = Encode(item.key)
                               /\ Encode(back.value) = Encode(item.value)
  BY DEF AcknowledgedIsThere
<1> DEFINE r == <<results[i].partition, results[i].offset>>
           item == batch1[i]
           back == Decode(content[r], "")
<1>1. /\ r \in written /\ content[r] = Bytes(item)
      /\ item.partition # NoPartition => r[1] = item.partition
  BY DEF MessagesInv, ResultsInv, Acknowledged
<1>2. \A j \in DOMAIN results : results[j].outcome = "SUCCEEDED" /\ i # j =>
          r # <<results[j].partition, results[j].offset>>
  BY DEF MessagesInv, ResultsInv
<1>3. item \in Sent /\ Valid(item)
  <2>1. batch1 \in Seq(Sent) /\ results \in Seq(Result) /\ Len(results) <= Len(batch1)
    BY DEF MessagesInv, StageInv, ResultsInv
  <2>2. i \in 1..Len(batch1) /\ i \in DOMAIN batch1
    BY <2>1, LenProperties
  <2>3. results # <<>>
    BY EmptySeq
  <2>4. AllValid
    BY <2>3 DEF MessagesInv, StageInv
  <2> QED
    BY <2>1, <2>2, <2>4, ElementOfSeq DEF AllValid
<1> HIDE DEF item, r
<1>4. Encode(item.key) \in Words /\ Encode(item.value) \in Words
  BY <1>3, SentType, EncodeType DEF Valid
<1>5. back.key = DecodeBytes(Encode(item.key), "") /\ back.value = DecodeBytes(Encode(item.value), "")
  BY <1>1 DEF Decode, Bytes
<1>6. Encode(back.key) = Encode(item.key) /\ Encode(back.value) = Encode(item.value)
  BY <1>4, <1>5, ThereAndBack
<1> QED
  BY <1>1, <1>2, <1>6 DEF item, r

(* Every result is a success or a failure, and a success has its record.   *)
LEMMA Tallies ==
    ASSUME WrittenInv, ResultsInv
    PROVE  /\ Tally("SUCCEEDED") \in Nat /\ Tally("FAILED") \in Nat
           /\ Tally("SUCCEEDED") + Tally("FAILED") = Len(results)
           /\ Cardinality(written) \in Nat
           /\ Tally("FAILED") = 0 => Cardinality(written) >= Len(results)
<1> DEFINE good == {i \in DOMAIN results : results[i].outcome = "SUCCEEDED"}
           bad == {i \in DOMAIN results : results[i].outcome = "FAILED"}
           n == Len(results)
<1>1. results \in Seq(Result) /\ n \in Nat /\ DOMAIN results = 1..n
  BY LenProperties DEF ResultsInv
<1>2. \A i \in 1..n : results[i] \in Result
  BY <1>1, ElementOfSeq
<1>3. Tally("SUCCEEDED") = Cardinality(good) /\ Tally("FAILED") = Cardinality(bad)
  BY DEF Tally
<1>4. good \cup bad = 1..n /\ good \cap bad = {}
  BY <1>1, <1>2 DEF Result
<1>5. IsFiniteSet(1..n) /\ Cardinality(1..n) = n
  BY <1>1, FS_Interval
<1>6. \A i \in good : <<results[i].partition, results[i].offset>> \in written
  BY DEF ResultsInv, Acknowledged
<1>7. \A i, j \in good :
          i # j => <<results[i].partition, results[i].offset>> # <<results[j].partition, results[j].offset>>
  BY DEF ResultsInv
<1>8. IsFiniteSet(written) /\ Cardinality(written) \in Nat
  BY FS_CardinalityType DEF WrittenInv
<1> HIDE DEF good, bad, n
<1>9. IsFiniteSet(good) /\ IsFiniteSet(bad)
  <2>1. good \subseteq 1..n /\ bad \subseteq 1..n
    BY <1>4
  <2> QED
    BY <1>5, <2>1, FS_Subset
<1>10. Cardinality(good) \in Nat /\ Cardinality(bad) \in Nat
  BY <1>9, FS_CardinalityType
<1>11. Cardinality(good) + Cardinality(bad) = n
  <2>1. Cardinality(good \cup bad) = Cardinality(good) + Cardinality(bad) - Cardinality(good \cap bad)
    BY <1>9, FS_Union
  <2>2. Cardinality(good \cap bad) = 0
    BY <1>4, FS_EmptySet
  <2>3. Cardinality(good \cup bad) = n
    BY <1>4, <1>5
  <2> QED
    BY <1>10, <2>1, <2>2, <2>3
<1>12. ASSUME Cardinality(bad) = 0 PROVE Cardinality(written) >= n
  <2> DEFINE f == [i \in 1..n |-> <<results[i].partition, results[i].offset>>]
  <2>1. bad = {}
    BY <1>9, <1>12, FS_EmptySet
  <2>2. good = 1..n
    BY <1>4, <2>1
  <2>3. f \in [1..n -> written] /\ \A i, j \in 1..n : f[i] = f[j] => i = j
    BY <1>6, <1>7, <2>2
  <2> HIDE DEF f
  <2>4. f \in Injection(1..n, written)
    BY <2>3 DEF Injection, IsInjective
  <2>5. Cardinality(1..n) <= Cardinality(written)
    BY <1>8, <2>4, FS_Injection
  <2> QED
    BY <1>1, <1>5, <1>8, <2>5
<1> QED
  BY <1>3, <1>8, <1>10, <1>11, <1>12 DEF n

(* Nothing is written before everything has been validated and recorded.   *)
LEMMA InvAllOrNothing == MessagesInv => AllOrNothingBegins
<1> SUFFICES ASSUME MessagesInv PROVE AllOrNothingBegins
  OBVIOUS
<1>1. /\ where \in {"off", "http", "gate", "bulk", "count", "validate", "execute", "answered"}
      /\ WrittenInv /\ ResultsInv /\ StageInv
  BY DEF MessagesInv
<1>2. CASE \/ written = {} /\ response = NoResponse
           \/ written = {} /\ response.code \notin {"", "ok", "multi"}
  <2>1. written = {} /\ response.code \notin {"ok", "multi"}
    <3>1. NoResponse.code \notin {"ok", "multi"}
      BY DEF NoResponse
    <3> QED
      BY <1>2, <3>1
  <2> QED
    BY <2>1 DEF AllOrNothingBegins
<1>3. CASE where = "execute"
  <2>1. AllValid /\ trail = <<Attempted>> /\ response = NoResponse
    BY <1>1, <1>3 DEF StageInv
  <2>2. response.code = ""
    BY <2>1 DEF NoResponse
  <2>3. \E i \in DOMAIN trail : trail[i] = <<"ATTEMPT", "">>
    <3>1. 1 \in DOMAIN <<Attempted>> /\ <<Attempted>>[1] = Attempted
      OBVIOUS
    <3> QED
      BY <2>1, <3>1 DEF Attempted
  <2> QED
    BY <2>1, <2>2, <2>3 DEF AllOrNothingBegins, AllValid
<1>4. CASE /\ AllValid /\ Len(results) = Len(batch1)
           /\ trail = <<Attempted, <<"RESULT", ResultOutcome>>>>
           /\ response = [code |-> Status, ok |-> Tally("SUCCEEDED"), failed |-> Tally("FAILED")]
  <2>1. /\ response.code = Status /\ response.ok = Tally("SUCCEEDED")
        /\ response.failed = Tally("FAILED")
    BY <1>4
  <2>2. Status \in {"ok", "KafkaError", "multi"}
    BY DEF Status
  <2>3. /\ Tally("SUCCEEDED") \in Nat /\ Tally("FAILED") \in Nat
        /\ Tally("SUCCEEDED") + Tally("FAILED") = Len(batch1)
        /\ Tally("FAILED") = 0 => Cardinality(written) >= Len(batch1)
    BY <1>1, <1>4, Tallies
  <2>4. \E i \in DOMAIN trail : trail[i] = <<"ATTEMPT", "">>
    <3>1. /\ 1 \in DOMAIN <<Attempted, <<"RESULT", ResultOutcome>>>>
          /\ <<Attempted, <<"RESULT", ResultOutcome>>>>[1] = Attempted
      OBVIOUS
    <3> QED
      BY <1>4, <3>1 DEF Attempted
  <2>5. ASSUME response.code = "ok"
        PROVE  /\ response.ok = Len(batch1) /\ Cardinality(written) >= Len(batch1)
               /\ trail = << <<"ATTEMPT", "">>, <<"RESULT", "SUCCEEDED">> >>
    <3>1. Tally("FAILED") = 0
      BY <2>1, <2>5 DEF Status
    <3>2. ResultOutcome = "SUCCEEDED"
      BY <3>1 DEF ResultOutcome
    <3>3. response.ok = Len(batch1) /\ Cardinality(written) >= Len(batch1)
      BY <2>1, <2>3, <3>1
    <3> QED
      BY <1>4, <3>2, <3>3 DEF Attempted
  <2>6. ASSUME response.code = "multi"
        PROVE  /\ response.failed > 0 /\ response.ok + response.failed = Len(batch1)
               /\ trail = << <<"ATTEMPT", "">>, <<"RESULT", "FAILED">> >>
    <3>1. Tally("FAILED") > 0
      BY <2>1, <2>3, <2>6 DEF Status
    <3>2. ResultOutcome = "FAILED"
      BY <3>1 DEF ResultOutcome
    <3>3. response.failed > 0 /\ response.ok + response.failed = Len(batch1)
      BY <2>1, <2>3, <3>1
    <3> QED
      BY <1>4, <3>2, <3>3 DEF Attempted
  <2> QED
    BY <1>4, <2>1, <2>2, <2>4, <2>5, <2>6 DEF AllOrNothingBegins, AllValid
<1> QED
  BY <1>1, <1>2, <1>3, <1>4 DEF StageInv

-----------------------------------------------------------------------------
(* Behind the data-plane lock Kafka is not asked for data, unless an       *)
(* operator breaks the glass; what is handed over then is audited.         *)
THEOREM LockIsHeld == MessagesSpec => []LockHolds
<1>1. MessagesInv => LockHolds
  BY DEF MessagesInv, ReadsInv, FlowInv
<1> QED
  BY <1>1, MessagesInvariance, PTL

(* M2 answers with the record asked for, or not at all.                    *)
THEOREM GetsTheRecord == MessagesSpec => []GetIsTheRecord
<1>1. MessagesInv => GetIsTheRecord
  BY DEF MessagesInv, ReadsInv, AnswerInv
<1> QED
  BY <1>1, MessagesInvariance, PTL

(* A read returns nothing but what it was asked for.                       *)
THEOREM ReadsWithin == MessagesSpec => []ReadIsWithin
<1>1. MessagesInv => ReadIsWithin
  BY InvIsWithin DEF MessagesInv
<1> QED
  BY <1>1, MessagesInvariance, PTL

(* A read that says it reached the end misses nothing it was asked for,    *)
(* and T4 counts what is in its window.                                    *)
THEOREM ReadsComplete == MessagesSpec => []ReadIsComplete
<1>1. MessagesInv => ReadIsComplete
  BY InvIsComplete DEF MessagesInv
<1> QED
  BY <1>1, MessagesInvariance, PTL

(* A record that is reported written is where it is said to be, as sent.   *)
THEOREM AcknowledgedAreThere == MessagesSpec => []AcknowledgedIsThere
BY InvIsThere, MessagesInvariance, PTL

(* A request that is refused or invalid writes nothing, and one that is    *)
(* executed is audited and answered as it went.                            *)
THEOREM AllOrNothing == MessagesSpec => []AllOrNothingBegins
BY InvAllOrNothing, MessagesInvariance, PTL
=============================================================================
