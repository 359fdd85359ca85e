------------------------------- MODULE Reads -------------------------------
(***************************************************************************)
(* The message reads: M1 (read), M2 (get one), M3 (regex search), M4       *)
(* (JSONPath filter), what the preview of M8 (replay) says, and T4 (the    *)
(* count in a window of time), each from its HTTP handler to its reply,    *)
(* the topic moving all along.  M1, M3 and M4 check the request, the gate  *)
(* and the bounds, list offsets of the topic one kind after the other,     *)
(* build a window per partition, and run the scan of module Scan.  T4      *)
(* lists offsets in an order of its own, and subtracts.                    *)
(***************************************************************************)
EXTENDS Scan, Gates, Matching

CONSTANTS
    Asks,            \* the requests
    Policies,        \* the configured gates
    Default,         \* Bounds: the default of each bound ...
    Ceiling,         \* ... and its ceiling
    TargetCount,     \* the partitions of M8's target topic
    Payload          \* the bytes of each record

BoundNames == {"limit", "maxScan", "maxMatches", "maxBytes", "maxTimeMs", "replay"}

(* message.From, and what its parser refuses. *)
From == [kind : {"beginning", "latest", "offset", "timestamp", "unreadable"}, at : Nat]

Absent == [kind |-> "absent", at |-> 0]

(* A request, as parsed by the HTTP layer: "form" is what else may be      *)
(* wrong with it (a limit for M3 or M4, an unknown field or operator);     *)
(* partition -1 asks for all of them; "at" is M2's offset.                 *)
Ask ==
    [id : {"M1", "M2", "M3", "M4", "M8", "T4"}, caller : Caller, form : {"ok", "limit", "vocabulary"},
     partition : Int, from : From, to : From \cup {Absent}, at : Nat,
     asked : [BoundNames -> Int], matcher : Matchers, preserve : BOOLEAN]

ASSUME ReadsAssumption ==
    /\ Asks \subseteq Ask /\ Bounds # {}
    /\ \A a \in Asks : a.id = "T4" => {a.from.kind, a.to.kind} \subseteq {"timestamp", "unreadable"}
    /\ Policies \subseteq Policy
    /\ Default \in [BoundNames -> Nat] /\ Ceiling \in [BoundNames -> Nat]
    /\ TargetCount \in Nat
    /\ Payload \in [Records -> Record]
    /\ \A m \in Matchers : Compiles(m) => \A r \in Records : Kind[m][r] = Verdict(m, Payload[r])

VARIABLES
    ask,      \* the request
    policy,   \* the gates
    at,       \* where the request is
    ends, begins, fromTimes, toTimes,    \* the offsets listed so far
    got,      \* M2's record, if it found one
    answer,   \* what the caller was told
    audited,  \* the outcome of the RESULT event, if there was one
    touched,  \* history: Kafka has been asked for data
    came      \* history: where each partition ended when the request came

offsetVars == <<ends, begins, fromTimes, toTimes>>
outcomeVars == <<got, answer, audited>>
given == <<ask, policy, came>>

readVars == <<given, at, offsetVars, outcomeVars, touched>>

Nowhere == [p \in Partitions |-> 0]

NoAnswer == [code |-> "", plan |-> <<>>]

Breaks == ask.caller.breakGlass

ReadInit ==
    /\ \E l \in Logs :
          /\ live = [p \in Partitions |-> l[p].live]
          /\ hw = [p \in Partitions |-> l[p].hw]
    /\ ask \in Asks /\ policy \in Policies
    /\ window = <<>> /\ bounds = CHOOSE b \in Bounds : TRUE
    /\ Started(window)
    /\ at = "handler"
    /\ ends = Nowhere /\ begins = Nowhere /\ fromTimes = Nowhere /\ toTimes = Nowhere
    /\ got = <<>> /\ answer = NoAnswer /\ audited = "" /\ touched = FALSE /\ came = hw

Go(from, to) ==
    /\ at = from
    /\ at' = to

Reply(code) ==
    /\ answer' = [NoAnswer EXCEPT !.code = code]
    /\ at' = "replied"

-----------------------------------------------------------------------------
(* The handler: a limit, from, to, then the fields or the operator. *)
Unparsable ==
    \/ ask.form # "ok"
    \/ ask.id # "M2" /\ "unreadable" \in {ask.from.kind, ask.to.kind}

HandlerRefuses ==
    /\ at = "handler"
    /\ Unparsable
    /\ Reply("Validation")
    /\ UNCHANGED <<vars, given, offsetVars, got, audited, touched>>

HandlerCalls ==
    /\ Go("handler", IF ask.id = "T4" THEN "fromTimes" ELSE "gate")
    /\ ~ Unparsable
    /\ UNCHANGED <<vars, given, offsetVars, outcomeVars, touched>>

Verdict1 == Check(ask.caller, ask.id, policy)

(* checkGate: a refusal is the only audited failure of a read. *)
ReadRefused ==
    /\ at = "gate"
    /\ Verdict1 # "pass"
    /\ Reply(Verdict1)
    /\ audited' = "REJECTED"
    /\ UNCHANGED <<vars, given, offsetVars, got, touched>>

ReadAdmitted ==
    /\ Go("gate", IF ask.id = "M2" THEN "poll" ELSE "bounds")
    /\ Verdict1 = "pass"
    /\ UNCHANGED <<vars, given, offsetVars, outcomeVars, touched>>

-----------------------------------------------------------------------------
(* resolveIntBound and its likes: zero asks for the default, and anything  *)
(* up to the ceiling is taken, negative numbers included.                  *)
Resolved(name) == IF ask.asked[name] = 0 THEN Default[name] ELSE ask.asked[name]

BoundsOf(id) ==
    CASE id = "M1" -> {"limit", "maxBytes", "maxTimeMs"}
      [] id = "M8" -> {"replay"}
      [] OTHER -> {"maxScan", "maxMatches", "maxBytes", "maxTimeMs"}

(* The bound on the messages, which "latest" also sizes its windows by. *)
MessageBound == CASE ask.id = "M1" -> "limit" [] ask.id = "M8" -> "replay" [] OTHER -> "maxMatches"

Overrun == \E name \in BoundsOf(ask.id) : Resolved(name) > Ceiling[name]

BoundExceeded ==
    /\ at = "bounds"
    /\ Overrun
    /\ Reply("BoundExceeded")
    /\ UNCHANGED <<vars, given, offsetVars, got, audited, touched>>

MatcherRefused ==
    /\ at = "bounds"
    /\ ~ Overrun
    /\ ~ Compiles(ask.matcher)
    /\ Reply(IF ask.id = "M3" THEN "InvalidRegex" ELSE "InvalidJSONPath")
    /\ UNCHANGED <<vars, given, offsetVars, got, audited, touched>>

Bounded ==
    /\ Go("bounds", "ends")
    /\ ~ Overrun
    /\ Compiles(ask.matcher)
    /\ UNCHANGED <<vars, given, offsetVars, outcomeVars, touched>>

-----------------------------------------------------------------------------
(* resolveWindows, one listing after the other. *)
ListEnds ==
    /\ Go("ends", IF ask.id = "T4" THEN "count"
                  ELSE IF ask.from.kind \in {"beginning", "latest"} THEN "begins"
                  ELSE IF ask.from.kind = "timestamp" THEN "fromTimes"
                  ELSE IF ask.to.kind = "timestamp" THEN "toTimes" ELSE "windows")
    /\ ends' = hw
    /\ touched' = (ask.id # "T4")
    /\ UNCHANGED <<vars, given, begins, fromTimes, toTimes, outcomeVars>>

(* A log begins at some offset up to its first record's. *)
ListStarts ==
    /\ Go("begins", IF ask.to.kind = "timestamp" THEN "toTimes" ELSE "windows")
    /\ begins' \in [Partitions -> 0..MaxOffset]
    /\ \A p \in Partitions : begins'[p] <= hw[p] /\ \A o \in live[p] : begins'[p] <= o
    /\ UNCHANGED <<vars, given, ends, fromTimes, toTimes, outcomeVars, touched>>

(* The first record at or after a time, or the end of the log. *)
AfterMilli(time) ==
    [p \in Partitions |->
        LET after == {o \in live[p] : Time[<<p, o>>] >= time}
        IN  IF after = {} THEN hw[p] ELSE CHOOSE o \in after : \A n \in after : o <= n]

ListFromTimes ==
    /\ Go("fromTimes", IF ask.to.kind = "timestamp" THEN "toTimes" ELSE "windows")
    /\ fromTimes' = AfterMilli(ask.from.at)
    /\ UNCHANGED <<vars, given, ends, begins, toTimes, outcomeVars, touched>>

ListToTimes ==
    /\ Go("toTimes", IF ask.id = "T4" THEN "ends" ELSE "windows")
    /\ toTimes' = AfterMilli(ask.to.at)
    /\ UNCHANGED <<vars, given, ends, begins, fromTimes, outcomeVars, touched>>

KafkaFails ==
    /\ at \in {"ends", "begins", "fromTimes", "toTimes"}
    /\ Reply("KafkaError")
    /\ UNCHANGED <<vars, given, offsetVars, got, audited, touched>>

Chosen == IF ask.partition < 0 THEN Partitions ELSE {ask.partition}

(* What a Go map says of a partition it does not hold. *)
Of(offsets, p) == IF p \in Partitions THEN offsets[p] ELSE 0

Larger(a, b) == IF a < b THEN b ELSE a

Mutant_FromAfter(p) ==
    CASE ask.from.kind = "beginning" -> Of(begins, p)
      [] ask.from.kind = "latest" -> Larger(Of(begins, p), Of(ends, p) - Resolved(MessageBound))
      [] ask.from.kind = "offset" -> ask.from.at
      [] ask.from.kind = "timestamp" -> Of(fromTimes, p) + 1

FromOffset(p) ==
    CASE ask.from.kind = "beginning" -> Of(begins, p)
      [] ask.from.kind = "latest" -> Larger(Of(begins, p), Of(ends, p) - Resolved(MessageBound))
      [] ask.from.kind = "offset" -> ask.from.at
      [] ask.from.kind = "timestamp" -> Of(fromTimes, p)

(* beginning and latest are no upper bounds. *)
ToOffset(p) ==
    CASE ask.to.kind = "offset" -> ask.to.at
      [] ask.to.kind = "timestamp" -> Of(toTimes, p)
      [] OTHER -> Of(ends, p)

Mutant_LatestEnd(p) == IF ToOffset(p) < Of(hw, p) THEN ToOffset(p) ELSE Of(hw, p)

EndOffset(p) == IF ToOffset(p) < Of(ends, p) THEN ToOffset(p) ELSE Of(ends, p)

Windows1 == [p \in Chosen |-> [start |-> FromOffset(p), end |-> EndOffset(p)]]

(* A bound of zero or less bounds nothing in scan.Run. *)
Effective(name) == IF name \in BoundsOf(ask.id) /\ Resolved(name) > 0 THEN Resolved(name) ELSE 0

StartScan ==
    /\ ask.id # "M8"
    /\ Go("windows", "scan")
    /\ window' = Windows1
    /\ bounds' = [latest |-> ask.from.kind = "latest", maxMessages |-> Effective(MessageBound),
                  maxScanned |-> Effective("maxScan"), maxBytes |-> Effective("maxBytes"),
                  timed |-> Effective("maxTimeMs") > 0, matcher |-> ask.matcher]
    /\ cursor' = [p \in Chosen |-> FromOffset(p)]
    /\ UNCHANGED <<logVars, pc, position, batch, acc, items, expired, stop, closed, seen>>
    /\ UNCHANGED <<given, offsetVars, outcomeVars, touched>>

(* The preview of M8: the estimate sums what may be negative. *)
Widths(w) ==
    LET sum[S \in SUBSET DOMAIN w] ==
            IF S = {} THEN 0
            ELSE LET p == CHOOSE q \in S : TRUE IN w[p].end - w[p].start + sum[S \ {p}]
    IN  sum[DOMAIN w]

PlanReplay ==
    /\ ask.id = "M8"
    /\ at = "windows"
    /\ IF ask.preserve /\ \E p \in Chosen : TargetCount <= p
       THEN Reply("PartitionMismatch")
       ELSE /\ answer' = [code |-> "plan", plan |-> <<Widths(Windows1), Cardinality(Chosen), TargetCount>>]
            /\ at' = "replied"
    /\ UNCHANGED <<vars, given, offsetVars, got, audited, touched>>

(* CountInWindow: up to the end, and from the start on, whatever the       *)
(* listings say.  T4 reads no data: it has no gate and no bounds.          *)
CountEnd(p) == Larger(fromTimes[p], IF toTimes[p] > ends[p] THEN ends[p] ELSE toTimes[p])

CountInWindow ==
    /\ at = "count"
    /\ answer' = [code |-> "count", plan |-> [p \in Partitions |-> CountEnd(p) - fromTimes[p]]]
    /\ at' = "replied"
    /\ UNCHANGED <<vars, given, offsetVars, got, audited, touched>>

-----------------------------------------------------------------------------
(* runScan, until Run returns. *)
Scanning ==
    /\ at = "scan"
    /\ Next
    /\ UNCHANGED readVars

(* auditBreakGlassRead: once the read has succeeded. *)
Audited == IF Breaks THEN "SUCCEEDED" ELSE audited

Mutant_UnauditedRead ==
    /\ at = "scan"
    /\ pc = "done"
    /\ Reply("ok")
    /\ UNCHANGED <<vars, given, offsetVars, got, audited, touched>>

ScanReplies ==
    /\ at = "scan"
    /\ pc = "done"
    /\ Reply("ok")
    /\ audited' = Audited
    /\ UNCHANGED <<vars, given, offsetVars, got, touched>>

ScanFails ==
    /\ at = "scan"
    /\ pc = "failed"
    /\ Reply("KafkaError")
    /\ UNCHANGED <<vars, given, offsetVars, got, audited, touched>>

(* Get: one poll from the offset, or from the beginning if that is beyond  *)
(* the end.  The poll waits for a record as long as the client does.       *)
FirstFrom(p, o) ==
    LET from == IF o > hw[p] THEN 0 ELSE o
        there == {n \in Offsets : p \in Partitions /\ n \in live[p] /\ n >= from}
    IN  IF there = {} THEN -1 ELSE CHOOSE n \in there : \A m \in there : n <= m

Mutant_GetReplies ==
    /\ at = "poll"
    /\ FirstFrom(ask.partition, ask.at) >= 0
    /\ touched' = TRUE
    /\ Reply("ok")
    /\ got' = <<ask.partition, FirstFrom(ask.partition, ask.at)>>
    /\ audited' = Audited
    /\ UNCHANGED <<vars, given, offsetVars>>

GetReplies ==
    /\ at = "poll"
    /\ FirstFrom(ask.partition, ask.at) >= 0
    /\ touched' = TRUE
    /\ IF FirstFrom(ask.partition, ask.at) > ask.at
       THEN Reply("NotFound") /\ UNCHANGED <<got, audited>>
       ELSE /\ Reply("ok")
            /\ got' = <<ask.partition, FirstFrom(ask.partition, ask.at)>>
            /\ audited' = Audited
    /\ UNCHANGED <<vars, given, offsetVars>>

GetFails ==
    /\ at = "poll"
    /\ touched' = TRUE
    /\ Reply("KafkaError")
    /\ UNCHANGED <<vars, given, offsetVars, got, audited>>

(* The topic moves on while a request is being prepared, too. *)
ReadTopic ==
    /\ at \in {"ends", "begins", "fromTimes", "toTimes", "count", "windows", "poll"}
    /\ Topic
    /\ UNCHANGED readVars

-----------------------------------------------------------------------------
ReadStep ==
    \/ HandlerRefuses \/ HandlerCalls \/ ReadRefused \/ ReadAdmitted
    \/ BoundExceeded \/ MatcherRefused \/ Bounded
    \/ ListEnds \/ ListStarts \/ ListFromTimes \/ ListToTimes \/ StartScan \/ PlanReplay
    \/ CountInWindow \/ ScanReplies \/ ScanFails \/ GetReplies

ReadNext == ReadStep \/ KafkaFails \/ GetFails \/ Scanning \/ ReadTopic

ReadSpec == ReadInit /\ [][ReadNext]_<<vars, readVars>>
-----------------------------------------------------------------------------
Scanned == at = "replied" /\ answer.code = "ok" /\ ask.id # "M2"

(* A record the request asks for, of those the topic held when its end was *)
(* listed: of its partitions, from its offset or time on, and before its   *)
(* upper bound.                                                            *)
Wanted(p, o) ==
    /\ p \in Chosen \cap Partitions
    /\ o < ends[p]
    /\ ask.from.kind = "offset" => o >= ask.from.at
    /\ ask.from.kind = "timestamp" => Time[<<p, o>>] >= ask.from.at
    /\ ask.to.kind = "offset" => o < ask.to.at
    /\ ask.to.kind = "timestamp" => \A n \in 0..o : Time[<<p, n>>] < ask.to.at

(* A read that says it reached the end has evaluated every record that was *)
(* asked for and is still there, although the offsets were listed one      *)
(* after the other from a topic that grew and lost records meanwhile.  T4  *)
(* has counted those that were there when the request came and are still   *)
(* there, and no offset that is certainly before its window.               *)
ReadIsComplete ==
    /\ Scanned /\ ReachedEnd /\ ~ bounds.latest =>
           \A p \in Partitions : \A o \in live[p] : Wanted(p, o) => <<p, o>> \in seen
    /\ answer.code = "count" =>
           \A p \in Partitions :
               LET there == {o \in live[p] : o < came[p]}
                   counted == {o \in there : Wanted(p, o)}
                   before == {o \in there : \A n \in 0..o : Time[<<p, n>>] < ask.from.at}
               IN  answer.plan[p] \in Cardinality(counted)..(ends[p] - Cardinality(before))

(* And it returns no others: nothing of another partition, nothing that    *)
(* came after the end was listed, nothing before or beyond an offset that  *)
(* was asked for, and of "latest" only the last offsets of each partition. *)
ReadIsWithin ==
    \A i \in 1..Len(items) :
        LET p == items[i][1]
            o == items[i][2]
        IN  /\ p \in Chosen /\ o < ends[p]
            /\ ask.from.kind = "offset" => o >= ask.from.at
            /\ ask.to.kind = "offset" => o < ask.to.at
            /\ ask.from.kind = "latest" => o >= ends[p] - Resolved(MessageBound)

(* The data-plane lock (FUNC-SPEC 9.5): behind it Kafka is not even asked  *)
(* unless an operator breaks the glass; records handed over that way have  *)
(* been audited, and so has every refusal.                                 *)
LockHolds ==
    /\ touched /\ policy.dataPlaneLock => Breaks /\ ask.caller.tier = "operator"
    /\ answer.code = "ok" /\ Breaks => audited = "SUCCEEDED"
    /\ answer.code \in Refusals => audited = "REJECTED" /\ ~ touched

(* M2 answers with the record of the offset asked for, or not at all, as   *)
(* long as the offset is not beyond what the log has grown to since.       *)
GetIsTheRecord ==
    got # <<>> => got[1] = ask.partition /\ (ask.at <= hw[got[1]] => got[2] = ask.at)
=============================================================================
