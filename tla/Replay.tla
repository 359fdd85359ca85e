------------------------------- MODULE Replay -------------------------------
(***************************************************************************)
(* M8, the bounded replay (FUNC-SPEC 9.3), over the scan of module Scan:   *)
(* a call reads up to a limit of records of its window and then produces   *)
(* them to the target topic in one batch, counting as copied those before  *)
(* the first that failed.  The caller loops: it takes the cursor of each   *)
(* reply and asks again from there, one partition at a time, as            *)
(* from=offset is one offset; after an error it takes the progress of the  *)
(* error, or repeats the call.                                             *)
(*                                                                         *)
(* The target keeps what was written to it, whatever the reply said.       *)
(***************************************************************************)
EXTENDS Scan

CONSTANTS
    TargetTopics,  \* the target topics, each by its partitions
    MaxCalls       \* the calls a caller makes; bounds the model

ASSUME ReplayAssumption ==
    /\ {} \notin TargetTopics
    /\ MaxCalls \in Nat
    /\ \A b \in Bounds : ~ b.timed /\ b.maxMessages > 0 /\ b.maxScanned = 0 /\ b.maxBytes = 0
    /\ \A b \in Bounds : [b EXCEPT !.latest = FALSE] \in Bounds
    /\ \A b \in Bounds : \A r \in Records : Kind[b.matcher][r] = "match"

VARIABLES
    targets,  \* the partitions of the target topic
    step,     \* where the call is: "scan", "acked", "replied"
    acks,     \* the results of Produce, in the order it returned them
    target,   \* the source records of which the target holds a copy
    reply,    \* what the caller was told
    calls,    \* the calls made
    todo,     \* the offset each partition is to be continued from
    begun,    \* history: the offset each partition was begun from
    picked,   \* history: the records read to be copied
    heeded    \* history: the partitions continued from the progress of an error

replayVars == <<targets, step, acks, target, reply, calls, todo, begun, picked, heeded>>

Reply == [ok : BOOLEAN, copied : Nat, reachedEnd : BOOLEAN]

NoReply == [ok |-> FALSE, copied |-> 0, reachedEnd |-> FALSE]

(* The caller knows of a partition what the replies say of it. *)
ReplayInit ==
    /\ Init
    /\ targets \in TargetTopics
    /\ step = "scan"
    /\ acks = <<>>
    /\ target = {}
    /\ reply = NoReply
    /\ calls = 1
    /\ todo = [p \in Partitions |-> IF p \in Scope THEN window[p].start ELSE 0]
    /\ begun = todo
    /\ picked = {}
    /\ heeded = {}

-----------------------------------------------------------------------------
(* ApplyReplay runs the scan. *)
Scanning == step = "scan" /\ Next /\ UNCHANGED replayVars

Continue1(offsets) == todo' = [p \in Partitions |-> IF p \in Scope THEN offsets[p] ELSE todo[p]]

Answer(ok, copied, offsets, reachedEnd) ==
    /\ reply' = [ok |-> ok, copied |-> copied, reachedEnd |-> reachedEnd]
    /\ Continue1(offsets)
    /\ step' = "replied"

Starts == [p \in Scope |-> window[p].start]

(* An error of scan.Run is returned as it is, without progress. *)
ScanError ==
    /\ step = "scan"
    /\ pc = "failed"
    /\ reply' = NoReply
    /\ step' = "replied"
    /\ UNCHANGED <<vars, targets, acks, target, calls, todo, begun, picked, heeded>>

CopyNothing ==
    /\ step = "scan"
    /\ pc = "done"
    /\ items = <<>>
    /\ Answer(TRUE, 0, Starts, ReachedEnd)
    /\ UNCHANGED <<vars, targets, acks, target, calls, begun, picked, heeded>>

(* A record that cannot be encoded, or a batch that is not produced at all. *)
ProduceRefused ==
    /\ step = "scan"
    /\ pc = "done"
    /\ items # <<>>
    /\ picked' = picked \cup Emitted
    /\ Answer(FALSE, 0, Starts, FALSE)
    /\ UNCHANGED <<vars, targets, acks, target, calls, begun, heeded>>

(* The orders in which the results can come in, by the items they are of:  *)
(* the client appends a result when its record is done.  A record succeeds *)
(* after the earlier ones of its target partition are done, and can fail   *)
(* at once; nothing orders the records of different target partitions.     *)
Orders(place, good) ==
    {order \in [1..Len(items) -> 1..Len(items)] :
        /\ \A i \in 1..Len(items) : \E k \in 1..Len(items) : order[k] = i
        /\ \A k, l \in 1..Len(items) :
               /\ k < l
               /\ items[order[k]] \in good
               /\ place[items[order[k]]] = place[items[order[l]]]
               => order[k] < order[l]}

(* A record goes to the partition of the target that has the number of its *)
(* own, or wherever the producer's partitioner puts it.                    *)
Placements == [Emitted -> targets]

(* The batch is acknowledged record by record; one without acknowledgement *)
(* may have been written all the same.                                     *)
Produce ==
    /\ step = "scan"
    /\ pc = "done"
    /\ items # <<>>
    /\ \E written \in SUBSET Emitted : \E good \in SUBSET written :
       \E place \in Placements : \E order \in Orders(place, good) :
          /\ target' = target \cup written
          /\ acks' = [k \in 1..Len(items) |-> items[order[k]] \in good]
    /\ picked' = picked \cup Emitted
    /\ step' = "acked"
    /\ UNCHANGED <<vars, targets, reply, calls, todo, begun, heeded>>

(* The loop over the results stops at the first error. *)
Copied ==
    CHOOSE n \in 0..Len(acks) :
        /\ \A i \in 1..n : acks[i]
        /\ n < Len(acks) => ~ acks[n + 1]

Mutant_ScanCursor(n) == cursor

CursorAfter(n) ==
    [p \in Scope |->
        LET copies == {i \in 1..n : items[i][1] = p}
        IN  IF copies = {} THEN window[p].start
            ELSE items[CHOOSE i \in copies : \A j \in copies : j <= i][2] + 1]

(* The partitions whose cursor n copies move. *)
Advanced(n) == {p \in Scope : CursorAfter(n)[p] # window[p].start}

Mutant_FirstErrorIgnored ==
    /\ step = "acked"
    /\ Answer(TRUE, Copied, CursorAfter(Copied), ReachedEnd)
    /\ acks' = <<>>
    /\ UNCHANGED <<vars, targets, target, calls, begun, picked, heeded>>

Account ==
    /\ step = "acked"
    /\ LET all == Copied = Len(items)
       IN  \/ /\ Answer(all, Copied, CursorAfter(Copied), all /\ ReachedEnd)
              /\ heeded' = IF all THEN heeded ELSE heeded \cup Advanced(Copied)
           \/ /\ ~ all
              /\ Answer(all, Copied, Starts, FALSE)
              /\ UNCHANGED heeded
    /\ acks' = <<>>
    /\ UNCHANGED <<vars, targets, target, calls, begun, picked>>

(* The gateway dies, or the connection breaks: the caller hears nothing. *)
Lost ==
    /\ step \in {"scan", "acked"}
    /\ reply' = NoReply
    /\ acks' = <<>>
    /\ step' = "replied"
    /\ UNCHANGED <<vars, targets, target, calls, todo, begun, picked, heeded>>

(* The caller's next call, for one partition, up to its end as it is then. *)
Again(p) ==
    /\ step = "replied"
    /\ calls < MaxCalls
    /\ calls' = calls + 1
    /\ bounds' = [bounds EXCEPT !.latest = FALSE]
    /\ window' = [q \in {p} |-> [start |-> todo[p], end |-> hw[p]]]
    /\ pc' = "assign"
    /\ position' = [q \in Partitions |-> 0]
    /\ batch' = NoBatch
    /\ cursor' = [q \in {p} |-> todo[p]]
    /\ acc' = NewAcc
    /\ items' = <<>>
    /\ expired' = FALSE
    /\ stop' = NoStop
    /\ closed' = FALSE
    /\ seen' = {}
    /\ step' = "scan"
    /\ reply' = NoReply
    /\ UNCHANGED <<logVars, targets, acks, target, todo, begun, picked, heeded>>

-----------------------------------------------------------------------------
Finish == ScanError \/ CopyNothing \/ ProduceRefused \/ Produce \/ Account

ReplayNext == Scanning \/ Finish \/ Lost \/ \E p \in Partitions : Again(p)

ReplaySpec == ReplayInit /\ [][ReplayNext]_<<vars, replayVars>>

-----------------------------------------------------------------------------
OneTarget == \A s, t \in targets : s = t

(* A loop of calls copies everything: whatever failed, was lost or was cut *)
(* short, each record the source still holds before the offset to continue *)
(* from has a copy, unless that offset follows the progress of an error    *)
(* and the target has several partitions.                                  *)
NothingSkipped ==
    \A p \in Partitions : p \notin heeded \/ OneTarget =>
        \A o \in live[p] : begun[p] <= o /\ o < todo[p] => <<p, o>> \in target

(* "retry from exactly where it stopped" (replay.go, wrapReplayFailure): a *)
(* record that was read to be copied has a copy, or a retry reads it again *)
(* unless the source has lost it.                                          *)
RetryLosesNothing ==
    \A r \in picked : r[2] < todo[r[1]] => r \in target \/ r[2] \notin live[r[1]]

(* reachedEnd is said of a replay that has copied all its window holds. *)
EndIsCopied ==
    step = "replied" /\ reply.reachedEnd /\ ~ bounds.latest =>
        \A p \in Scope : \A o \in live[p] :
            window[p].start <= o /\ o < window[p].end => <<p, o>> \in target
=============================================================================
