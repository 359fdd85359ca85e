------------------------------- MODULE Writes -------------------------------
(***************************************************************************)
(* The message writes: M5 (produce), M6 (bulk produce) and M7 (tombstone), *)
(* on the topic the reads of module Reads see.  A request is parsed,       *)
(* gated, validated as a whole, audited, and then executed record by       *)
(* record (core.BulkRun), while others write to the topic and add          *)
(* partitions to it.                                                       *)
(***************************************************************************)
EXTENDS Reads

CONSTANTS
    Submissions,   \* the write requests
    BodyLimit,     \* MaxBulkBodyBytes
    Hash           \* the key hash of the client's partitioner

NoPartition == -1

(* produce.go's ProduceItem; M7's has no value. *)
Item == [key : [text : Words, encoding : STRING], value : [text : Words, encoding : STRING],
         headers : Seq([text : Words, encoding : STRING]), partition : Int]

EmptyItem ==
    [key |-> Wire(Empty, ""), value |-> Wire(Empty, ""), headers |-> <<>>, partition |-> NoPartition]

(* A body: M5's record object or list of records, M6's NDJSON or array;    *)
(* "typed" tells whether each of its records has the fields' types.        *)
Submission ==
    [id : {"M5", "M6", "M7"}, caller : Caller, shape : {"object", "list", "garbage"},
     typed : BOOLEAN, media : {"json", "ndjson", "other"}, size : Nat, items : Seq(Item)]

ASSUME WritesAssumption ==
    /\ IsFiniteSet(Partitions) /\ Partitions = 0..(Cardinality(Partitions) - 1)
    /\ Submissions \subseteq Submission
    /\ \A s \in Submissions :
          /\ s.id = "M7" => Len(s.items) = 1
          /\ s.shape = "object" => Len(s.items) = 1
    /\ BodyLimit \in Nat
    /\ Hash \in [Words -> Nat]

VARIABLES
    sub,       \* the write request
    where,     \* where it is: "off" if there is none
    batch1,    \* the records it was parsed into
    count,     \* the partition count read before the ATTEMPT
    existing,  \* the partitions of the topic now: 0..existing - 1
    results,   \* the results of the records executed so far
    content,   \* what the offsets written by the gateway hold
    written,   \* history: the offsets this request has written to
    trail,     \* the audit events that were recorded, in order
    response   \* what the caller was told

subVars == <<sub, batch1, count, results, response>>
keptVars == <<existing, content, written, trail>>
writeVars == <<subVars, where, keptVars>>

(* Without a value, M7's record has none: the reader sees it as empty. *)
Bytes(item) ==
    [key |-> Encode(item.key), value |-> Encode(item.value),
     headers |-> [i \in DOMAIN item.headers |-> Encode(item.headers[i])]]

NoResponse == [code |-> "", ok |-> 0, failed |-> 0]

WriteInit ==
    /\ sub \in Submissions
    /\ where = "http"
    /\ batch1 = <<>> /\ count = 0 /\ results = <<>> /\ response = NoResponse
    /\ existing \in 1..Cardinality(Partitions)
    /\ content = <<>> /\ written = {} /\ trail = <<>>

Proceed(from, to) ==
    /\ where = from
    /\ where' = to

Respond(code) ==
    /\ response' = [NoResponse EXCEPT !.code = code]
    /\ where' = "answered"

-----------------------------------------------------------------------------
(* ProduceBody.UnmarshalJSON: whatever is no list of records is one        *)
(* record, whose unknown fields are ignored: a list with a record that     *)
(* has a wrong type in it is an object without any field of a record.      *)
ProduceBody(s) == IF s.shape = "list" /\ ~ s.typed THEN <<EmptyItem>> ELSE s.items

Readable(s) ==
    IF s.id = "M5" THEN s.shape = "list" \/ (s.shape = "object" /\ s.typed)
    ELSE IF s.id = "M6" THEN s.shape = "list" /\ s.typed
    ELSE s.shape = "object" /\ s.typed

(* M5 and M7 are decoded, M6's content type is looked at, before the gate. *)
BodyRefused ==
    /\ where = "http"
    /\ IF sub.id = "M6" THEN sub.media = "other" ELSE ~ Readable(sub)
    /\ Respond(IF sub.id = "M6" THEN "UnsupportedMediaType" ELSE "Validation")
    /\ UNCHANGED <<sub, batch1, count, results, keptVars>>

BodyTaken ==
    /\ Proceed("http", "gate")
    /\ IF sub.id = "M6"
       THEN sub.media # "other" /\ UNCHANGED batch1
       ELSE Readable(sub) /\ batch1' = IF sub.id = "M5" THEN ProduceBody(sub) ELSE sub.items
    /\ UNCHANGED <<sub, count, results, response, keptVars>>

WriteVerdict == Check(sub.caller, sub.id, policy)

WriteRefused ==
    /\ where = "gate"
    /\ WriteVerdict # "pass"
    /\ Respond(WriteVerdict)
    /\ trail' = Append(trail, <<"RESULT", "REJECTED">>)
    /\ UNCHANGED <<sub, batch1, count, results, existing, content, written>>

WriteAdmitted ==
    /\ Proceed("gate", IF sub.id = "M6" THEN "bulk" ELSE "count")
    /\ WriteVerdict = "pass"
    /\ UNCHANGED <<subVars, keptVars>>

(* parseBulkBody: the size, then the records. *)
BulkRefused ==
    /\ where = "bulk"
    /\ sub.size > BodyLimit \/ ~ Readable(sub)
    /\ Respond(IF sub.size > BodyLimit THEN "PayloadTooLarge" ELSE "Validation")
    /\ UNCHANGED <<sub, batch1, count, results, keptVars>>

BulkParsed ==
    /\ Proceed("bulk", "count")
    /\ sub.size <= BodyLimit /\ Readable(sub)
    /\ batch1' = sub.items
    /\ UNCHANGED <<sub, count, results, response, keptVars>>

-----------------------------------------------------------------------------
CountPartitions ==
    /\ Proceed("count", "validate")
    /\ count' = existing
    /\ UNCHANGED <<sub, batch1, results, response, keptVars>>

CountFails ==
    /\ where = "count"
    /\ Respond("KafkaError")
    /\ UNCHANGED <<sub, batch1, count, results, keptVars>>

(* validateProduceItem and validateTombstoneItem. *)
Valid(item) ==
    /\ Encodable(item.key) /\ Encodable(item.value)
    /\ \A i \in DOMAIN item.headers : Encodable(item.headers[i])
    /\ item.partition = NoPartition \/ item.partition \in 0..(count - 1)

AllValid == \A i \in DOMAIN batch1 : Valid(batch1[i])

Invalid ==
    /\ where = "validate"
    /\ ~ AllValid
    /\ Respond(IF sub.id = "M7" THEN "Validation" ELSE "BulkValidationFailed")
    /\ UNCHANGED <<sub, batch1, count, results, keptVars>>

Attempt ==
    /\ Proceed("validate", "execute")
    /\ AllValid
    /\ trail' = Append(trail, <<"ATTEMPT", "">>)
    /\ UNCHANGED <<subVars, existing, content, written>>

AttemptFails ==
    /\ where = "validate"
    /\ AllValid
    /\ Respond("AuditUnavailable")
    /\ UNCHANGED <<sub, batch1, count, results, keptVars>>

-----------------------------------------------------------------------------
(* The partitioner: the one asked for, the key's, or any in its turn. *)
PartitionsFor(item) ==
    IF item.partition # NoPartition THEN {item.partition} \cap (0..(existing - 1))
    ELSE IF Encode(item.key) = Empty THEN 0..(existing - 1)
    ELSE {Hash[Encode(item.key)] % existing}

Executing(item) ==
    /\ where = "execute"
    /\ Len(results) < Len(batch1)
    /\ item = batch1[Len(results) + 1]

Write(item, p) ==
    /\ hw[p] < MaxOffset
    /\ live' = [live EXCEPT ![p] = @ \cup {hw[p]}]
    /\ hw' = [hw EXCEPT ![p] = @ + 1]
    /\ content' = [r \in DOMAIN content \cup {<<p, hw[p]>>} |->
                      IF r \in DOMAIN content THEN content[r] ELSE Bytes(item)]
    /\ written' = written \cup {<<p, hw[p]>>}

Failed == [outcome |-> "FAILED", partition |-> 0, offset |-> 0]

Mutant_ProduceAnswersEnd(item) ==
    /\ Executing(item)
    /\ \E p \in PartitionsFor(item) :
          /\ Write(item, p)
          /\ results' = Append(results, [outcome |-> "SUCCEEDED", partition |-> p, offset |-> hw'[p]])
    /\ UNCHANGED <<sub, where, batch1, count, response, existing, trail>>
    /\ UNCHANGED <<askVars, runVars, expired, readVars>>

ProduceItem(item) ==
    /\ Executing(item)
    /\ \E p \in PartitionsFor(item) :
          /\ Write(item, p)
          /\ results' = Append(results, [outcome |-> "SUCCEEDED", partition |-> p, offset |-> hw[p]])
    /\ UNCHANGED <<sub, where, batch1, count, response, existing, trail>>
    /\ UNCHANGED <<askVars, runVars, expired, readVars>>

(* One that failed may have been written: its acknowledgement was lost. *)
ProduceItemFails(item) ==
    /\ Executing(item)
    /\ \/ \E p \in PartitionsFor(item) : Write(item, p)
       \/ UNCHANGED <<live, hw, content, written>>
    /\ results' = Append(results, Failed)
    /\ UNCHANGED <<sub, where, batch1, count, response, existing, trail>>
    /\ UNCHANGED <<askVars, runVars, expired, readVars>>

Tally(outcome) == Cardinality({i \in DOMAIN results : results[i].outcome = outcome})

Mutant_AlwaysSucceeded == "SUCCEEDED"

ResultOutcome == IF Tally("FAILED") > 0 THEN "FAILED" ELSE "SUCCEEDED"

(* M7 answers its one record's error; M5 and M6 answer 200 or 207. *)
Status ==
    IF Tally("FAILED") = 0 THEN "ok"
    ELSE IF sub.id = "M7" THEN "KafkaError" ELSE "multi"

Executed ==
    /\ Proceed("execute", "answered")
    /\ Len(results) = Len(batch1)
    /\ trail' = Append(trail, <<"RESULT", ResultOutcome>>)
    /\ response' = [code |-> Status, ok |-> Tally("SUCCEEDED"), failed |-> Tally("FAILED")]
    /\ UNCHANGED <<sub, batch1, count, results, existing, content, written>>

(* T10, by whomever: partitions are only ever added. *)
AddPartition ==
    /\ where \in {"validate", "execute"}
    /\ existing < Cardinality(Partitions)
    /\ existing' = existing + 1
    /\ UNCHANGED <<subVars, where, content, written, trail>>

(* Another client's record, in between. *)
OtherWrites ==
    /\ where = "execute"
    /\ \E p \in Partitions : Append1(p)
    /\ UNCHANGED <<readVars, writeVars>>

-----------------------------------------------------------------------------
Request ==
    \/ BodyRefused \/ BodyTaken \/ WriteRefused \/ WriteAdmitted
    \/ BulkRefused \/ BulkParsed \/ CountPartitions \/ CountFails
    \/ Invalid \/ Attempt \/ AttemptFails \/ Executed \/ AddPartition

WriteNext ==
    \/ Request /\ UNCHANGED <<vars, readVars>>
    \/ \E i \in DOMAIN batch1 : ProduceItem(batch1[i]) \/ ProduceItemFails(batch1[i])
    \/ OtherWrites

(* One message request, a read or a write. *)
MessagesInit ==
    /\ ReadInit
    /\ \/ /\ sub = CHOOSE s \in Submissions : TRUE
          /\ where = "off"
          /\ batch1 = <<>> /\ count = 0 /\ results = <<>> /\ response = NoResponse
          /\ existing = 1 /\ content = <<>> /\ written = {} /\ trail = <<>>
       \/ /\ WriteInit
          /\ ask = CHOOSE a \in Asks : TRUE

MessagesNext ==
    \/ where = "off" /\ ReadNext /\ UNCHANGED writeVars
    \/ where # "off" /\ WriteNext

MessagesSpec == MessagesInit /\ [][MessagesNext]_<<vars, readVars, writeVars>>

(* A request's goroutine keeps running, and time runs out where it is      *)
(* bounded.  Nothing obliges a client to give up, a poll to fail, or       *)
(* anybody to write.                                                       *)
MessagesFairSpec ==
    /\ MessagesSpec
    /\ WF_<<vars, readVars, writeVars>>(where = "off" /\ ReadStep /\ UNCHANGED writeVars)
    /\ WF_<<vars, readVars, writeVars>>(
           where = "off" /\ at = "scan" /\ Step /\ UNCHANGED <<readVars, writeVars>>)
    /\ WF_<<vars, readVars, writeVars>>(
           where = "off" /\ at = "scan" /\ bounds.timed /\ Expire /\ UNCHANGED <<readVars, writeVars>>)
    /\ SF_<<vars, readVars, writeVars>>(
           where = "off" /\ at = "scan" /\ Poll /\ UNCHANGED <<readVars, writeVars>>)
-----------------------------------------------------------------------------
(* The results of a bulk are about its records, one each and in order: a   *)
(* record that is reported written is in the log at the partition and      *)
(* offset reported, which is the partition asked for if there was one, no  *)
(* two at the same, and its bytes, read back and sent again, are the ones  *)
(* that were sent.                                                         *)
AcknowledgedIsThere ==
    \A i \in DOMAIN results : results[i].outcome = "SUCCEEDED" =>
        LET r == <<results[i].partition, results[i].offset>>
            item == batch1[i]
        IN  /\ r \in written
            /\ item.partition # NoPartition => r[1] = item.partition
            /\ \A j \in DOMAIN results : results[j].outcome = "SUCCEEDED" /\ i # j =>
                   r # <<results[j].partition, results[j].offset>>
            /\ LET back == Decode(content[r], "")
               IN  /\ Encode(back.key) = Encode(item.key)
                   /\ Encode(back.value) = Encode(item.value)

(* Validate all, then execute (FUNC-SPEC 9.4): nothing is written by a     *)
(* request that is refused, that has a record that cannot be written, or   *)
(* that could not be audited; and the answer, its counts and the one       *)
(* RESULT behind the ATTEMPT say the same of what was.                     *)
AllOrNothingBegins ==
    /\ written # {} => \E i \in DOMAIN trail : trail[i] = <<"ATTEMPT", "">>
    /\ written # {} => \A i \in DOMAIN batch1 : Valid(batch1[i])
    /\ response.code \notin {"", "ok", "multi", "KafkaError"} => written = {}
    /\ response.code = "ok" =>
           /\ response.ok = Len(batch1) /\ Cardinality(written) >= Len(batch1)
           /\ trail = << <<"ATTEMPT", "">>, <<"RESULT", "SUCCEEDED">> >>
    /\ response.code = "multi" =>
           /\ response.failed > 0 /\ response.ok + response.failed = Len(batch1)
           /\ trail = << <<"ATTEMPT", "">>, <<"RESULT", "FAILED">> >>

(* FUNC-SPEC 9.4, steps 1 and 3: a body with a record that fails its       *)
(* schema executes nothing.                                                *)
MistypedWritesNothing == ~ sub.typed => written = {}

(* README, "Bounded everything - no read, search, or replay can run        *)
(* unboundedly": a read is answered.                                       *)
ReadReturns == where = "off" ~> at = "replied"
=============================================================================
