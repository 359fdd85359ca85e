-------------------------------- MODULE Scan --------------------------------
(***************************************************************************)
(* scan.Run: one bounded scan of a topic (FUNC-SPEC 9.2), the loop behind  *)
(* M1, M3, M4 and M8.  The caller has resolved a window per partition; Run *)
(* assigns a dedicated consumer, polls, evaluates each record against the  *)
(* window and the matcher, and stops at the end of the windows or at the   *)
(* first bound.                                                            *)
(*                                                                         *)
(* The log moves underneath: producers append, retention, compaction and   *)
(* DeleteRecords remove, and an offset may hold no record at all (a        *)
(* transaction marker, a compacted record).  A record is a pair            *)
(* <<partition, offset>>; its timestamp, its size and what the matcher     *)
(* says of it are functions of the pair.                                   *)
(***************************************************************************)
EXTENDS Integers, Sequences, FiniteSets

CONSTANTS
    Partitions,    \* the partitions of the topic
    MaxOffset,     \* offsets run below this bound
    Logs,          \* what the topic may hold at the start, and its next offsets
    Windows,       \* the windows a scan may be asked for, scope included
    Bounds,        \* the bounds a scan may be asked for
    Matchers,      \* the matchers a scan may be asked for
    Kind,          \* what each says of a record: "match", "miss" or "skip"
    Time,          \* the timestamp of each record
    Size           \* the key and value bytes of each record

Offsets == 0..(MaxOffset - 1)

Records == Partitions \X Offsets

(* scan.Spec without the windows, and the Matcher.  MaxTime > 0 is "timed". *)
Bound ==
    [latest : BOOLEAN, maxMessages : Nat, maxScanned : Nat, maxBytes : Nat, timed : BOOLEAN,
     matcher : Matchers]

Window == [start : Nat, end : Nat]

ASSUME ScanAssumption ==
    /\ MaxOffset \in Nat
    /\ Logs \subseteq [Partitions -> [live : SUBSET Offsets, hw : 0..MaxOffset]]
    /\ \A l \in Logs : \A p \in Partitions : \A o \in l[p].live : o < l[p].hw
    /\ \A w \in Windows : DOMAIN w \subseteq Partitions /\ w \in [DOMAIN w -> Window]
    /\ Bounds \subseteq Bound
    /\ Kind \in [Matchers -> [Records -> {"match", "miss", "skip"}]]
    /\ Time \in [Records -> Nat]
    /\ Size \in [Records -> Nat]

VARIABLES
    live,      \* the records each partition holds
    hw,        \* the offset each partition's next record will get
    window,    \* Spec.Partitions
    bounds,    \* the rest of Spec
    pc,        \* where Run is
    position,  \* the consumer's next fetch offset
    batch,     \* the polled records still to be evaluated
    cursor,    \* Run's cursor
    acc,       \* the accumulator
    items,     \* the records emitted, or buffered for latest
    expired,   \* pollCtx has ended
    stop,      \* how the poll loop ended
    closed,    \* the dedicated consumer has been closed
    seen       \* history: the records evaluated inside their window

logVars == <<live, hw>>
askVars == <<window, bounds>>
runVars == <<pc, position, batch, cursor, acc, items, stop, closed, seen>>
vars == <<live, hw, window, bounds, pc, position, batch, cursor, acc, items, expired, stop, closed, seen>>

Scope == DOMAIN window

Ending == [reachedEnd : BOOLEAN, stoppedBy : {"", "maxMessages", "maxBytes", "maxTime"}]

NoStop == [reachedEnd |-> FALSE, stoppedBy |-> ""]

NewAcc == [scanned |-> 0, matched |-> 0, skipped |-> 0, bytes |-> 0]

NoBatch == [p \in Partitions |-> {}]

(* What Run keeps when it starts on the windows w. *)
Started(w) ==
    /\ pc = "assign"
    /\ position = [p \in Partitions |-> 0]
    /\ batch = NoBatch
    /\ cursor = [p \in DOMAIN w |-> w[p].start]
    /\ acc = NewAcc
    /\ items = <<>>
    /\ expired = FALSE
    /\ stop = NoStop
    /\ closed = FALSE
    /\ seen = {}

(* The windows end at an end snapshot, or before it. *)
Init ==
    /\ \E l \in Logs :
          /\ live = [p \in Partitions |-> l[p].live]
          /\ hw = [p \in Partitions |-> l[p].hw]
    /\ window \in Windows
    /\ \A p \in DOMAIN window : window[p].end <= hw[p]
    /\ bounds \in Bounds
    /\ Started(window)

-----------------------------------------------------------------------------
(* The topic, as others change it.                                         *)

Append1(p) ==
    /\ hw[p] < MaxOffset
    /\ live' = [live EXCEPT ![p] = @ \cup {hw[p]}]
    /\ hw' = [hw EXCEPT ![p] = @ + 1]
    /\ UNCHANGED <<askVars, runVars, expired>>

(* An offset that no reader is given: a transaction marker. *)
Mark(p) ==
    /\ hw[p] < MaxOffset
    /\ hw' = [hw EXCEPT ![p] = @ + 1]
    /\ UNCHANGED <<live, askVars, runVars, expired>>

Remove(p) ==
    /\ \E o \in live[p] : live' = [live EXCEPT ![p] = @ \ {o}]
    /\ UNCHANGED <<hw, askVars, runVars, expired>>

(* MaxTime runs out, or the client has gone: the same context ends. *)
Expire ==
    /\ pc \in {"loop", "poll", "evaluate"}
    /\ ~ expired
    /\ expired' = TRUE
    /\ UNCHANGED <<logVars, askVars, runVars>>

-----------------------------------------------------------------------------
Stop(reachedEnd, stoppedBy) ==
    /\ stop' = [reachedEnd |-> reachedEnd, stoppedBy |-> stoppedBy]
    /\ pc' = "drain"

(* Run's first lines: nothing in scope is an immediate, empty answer; it   *)
(* returns before the consumer is assigned or its Close deferred.          *)
NothingInScope ==
    /\ pc = "assign"
    /\ Scope = {}
    /\ stop' = [reachedEnd |-> TRUE, stoppedBy |-> ""]
    /\ pc' = "done"
    /\ UNCHANGED <<logVars, askVars, position, batch, cursor, acc, items, expired, closed, seen>>

Assign ==
    /\ pc = "assign"
    /\ Scope # {}
    /\ position' = [p \in Partitions |-> IF p \in Scope THEN window[p].start ELSE 0]
    /\ pc' = "loop"
    /\ UNCHANGED <<logVars, askVars, batch, cursor, acc, items, expired, stop, closed, seen>>

(* Likewise a failed Assign returns before Close is deferred. *)
AssignFails ==
    /\ pc = "assign"
    /\ Scope # {}
    /\ pc' = "failed"
    /\ UNCHANGED <<logVars, askVars, position, batch, cursor, acc, items, expired, stop, closed, seen>>

Mutant_OnePartitionDone == \E p \in Scope : cursor[p] >= window[p].end

WindowsExhausted == \A p \in Scope : cursor[p] >= window[p].end

Exhausted ==
    /\ pc = "loop"
    /\ WindowsExhausted
    /\ Stop(TRUE, "")
    /\ UNCHANGED <<logVars, askVars, position, batch, cursor, acc, items, expired, closed, seen>>

Continue ==
    /\ pc = "loop"
    /\ ~ WindowsExhausted
    /\ pc' = "poll"
    /\ UNCHANGED <<logVars, askVars, position, batch, cursor, acc, items, expired, stop, closed, seen>>

(* A fetch beyond the end of the log is out of range, and starts over at   *)
(* its beginning (the client's default reset).                             *)
FetchFrom(p) == IF position[p] > hw[p] THEN 0 ELSE position[p]

(* Poll hands over the records of a stretch of each assigned partition,    *)
(* from its fetch position on; offsets that hold none are passed over.     *)
Delivered(to) ==
    [p \in Partitions |->
        IF p \in Scope THEN {o \in live[p] : FetchFrom(p) <= o /\ o < to[p]} ELSE {}]

Poll ==
    /\ pc = "poll"
    /\ \E to \in [Partitions -> 0..MaxOffset] :
          /\ \A p \in Partitions : to[p] \in FetchFrom(p)..hw[p]
          /\ Delivered(to) # NoBatch
          /\ position' = to
          /\ batch' = Delivered(to)
    /\ pc' = "evaluate"
    /\ UNCHANGED <<logVars, askVars, cursor, acc, items, expired, stop, closed, seen>>

Mutant_EmptyPollIsEnd ==
    /\ pc = "poll"
    /\ Stop(~ expired, IF expired THEN "maxTime" ELSE "")
    /\ UNCHANGED <<logVars, askVars, position, batch, cursor, acc, items, expired, closed, seen>>

Mutant_DeadlineUnchecked ==
    /\ pc = "poll"
    /\ pc' = "loop"
    /\ UNCHANGED <<logVars, askVars, position, batch, cursor, acc, items, expired, stop, closed, seen>>

(* A poll may also bring nothing; once the context has ended, that, or an  *)
(* error, is maxTime.                                                      *)
PollNothing ==
    /\ pc = "poll"
    /\ IF expired
       THEN Stop(FALSE, "maxTime")
       ELSE pc' = "loop" /\ UNCHANGED stop
    /\ UNCHANGED <<logVars, askVars, position, batch, cursor, acc, items, expired, closed, seen>>

PollFails ==
    /\ pc = "poll"
    /\ ~ expired
    /\ pc' = "failed"
    /\ closed' = TRUE
    /\ UNCHANGED <<logVars, askVars, position, batch, cursor, acc, items, expired, stop, seen>>

-----------------------------------------------------------------------------
(* evaluate, for the next record of the batch in partition p. *)
Next1(p, o) ==
    /\ o \in batch[p]
    /\ \A n \in batch[p] : o <= n

Mutant_EndIgnored(p, o) == p \in Scope /\ cursor[p] <= o

InWindow(p, o) == p \in Scope /\ cursor[p] <= o /\ o < window[p].end

Ignore(p, o) ==
    /\ pc = "evaluate"
    /\ Next1(p, o)
    /\ ~ InWindow(p, o)
    /\ batch' = [batch EXCEPT ![p] = @ \ {o}]
    /\ UNCHANGED <<logVars, askVars, pc, position, cursor, acc, items, expired, stop, closed, seen>>

Says(r) == Kind[bounds.matcher][r]

Counted(p, o) ==
    [scanned |-> acc.scanned + 1,
     matched |-> acc.matched + (IF Says(<<p, o>>) = "match" THEN 1 ELSE 0),
     skipped |-> acc.skipped + (IF Says(<<p, o>>) = "skip" THEN 1 ELSE 0),
     bytes |-> acc.bytes + Size[<<p, o>>]]

Mutant_OneTooMany(limit, n) == limit > 0 /\ n > limit

(* 0 means unbounded; latest is never stopped by its number of matches. *)
Reached(limit, n) == limit > 0 /\ n >= limit

HitBound(a) ==
    IF ~ bounds.latest /\ Reached(bounds.maxMessages, a.matched) THEN "maxMessages"
    ELSE IF Reached(bounds.maxScanned, a.scanned) THEN "maxMessages"
    ELSE IF Reached(bounds.maxBytes, a.bytes) THEN "maxBytes"
    ELSE ""

Mutant_CursorFromPoll(p, o) ==
    /\ pc = "evaluate"
    /\ Next1(p, o)
    /\ InWindow(p, o)
    /\ cursor' = [cursor EXCEPT ![p] = position[p]]
    /\ acc' = Counted(p, o)
    /\ items' = IF Says(<<p, o>>) = "match" THEN Append(items, <<p, o>>) ELSE items
    /\ seen' = seen \cup {<<p, o>>}
    /\ IF HitBound(acc') # ""
       THEN Stop(FALSE, HitBound(acc')) /\ batch' = NoBatch
       ELSE batch' = [batch EXCEPT ![p] = @ \ {o}] /\ UNCHANGED <<pc, stop>>
    /\ UNCHANGED <<logVars, askVars, position, expired, closed>>

Mutant_SkippedEmitted(p, o) ==
    /\ pc = "evaluate"
    /\ Next1(p, o)
    /\ InWindow(p, o)
    /\ cursor' = [cursor EXCEPT ![p] = o + 1]
    /\ acc' = Counted(p, o)
    /\ items' = IF Says(<<p, o>>) # "miss" THEN Append(items, <<p, o>>) ELSE items
    /\ seen' = seen \cup {<<p, o>>}
    /\ IF HitBound(acc') # ""
       THEN Stop(FALSE, HitBound(acc')) /\ batch' = NoBatch
       ELSE batch' = [batch EXCEPT ![p] = @ \ {o}] /\ UNCHANGED <<pc, stop>>
    /\ UNCHANGED <<logVars, askVars, position, expired, closed>>

Evaluate(p, o) ==
    /\ pc = "evaluate"
    /\ Next1(p, o)
    /\ InWindow(p, o)
    /\ cursor' = [cursor EXCEPT ![p] = o + 1]
    /\ acc' = Counted(p, o)
    /\ items' = IF Says(<<p, o>>) = "match" THEN Append(items, <<p, o>>) ELSE items
    /\ seen' = seen \cup {<<p, o>>}
    /\ IF HitBound(acc') # ""
       THEN Stop(FALSE, HitBound(acc')) /\ batch' = NoBatch
       ELSE batch' = [batch EXCEPT ![p] = @ \ {o}] /\ UNCHANGED <<pc, stop>>
    /\ UNCHANGED <<logVars, askVars, position, expired, closed>>

BatchDone ==
    /\ pc = "evaluate"
    /\ batch = NoBatch
    /\ pc' = "loop"
    /\ UNCHANGED <<logVars, askVars, position, batch, cursor, acc, items, expired, stop, closed, seen>>

-----------------------------------------------------------------------------
Emitted == {items[i] : i \in 1..Len(items)}

(* The newest of the buffer first; equal timestamps in any order. *)
Newest(s) ==
    /\ \A i, j \in 1..Len(s) : i < j => s[i] # s[j] /\ Time[s[i]] >= Time[s[j]]
    /\ \A r \in Emitted \ {s[i] : i \in 1..Len(s)} : \A i \in 1..Len(s) : Time[s[i]] >= Time[r]

Kept ==
    IF Reached(bounds.maxMessages, Len(items)) THEN bounds.maxMessages ELSE Len(items)

Mutant_TruncateUnsorted ==
    /\ pc = "drain"
    /\ items' = IF bounds.latest THEN SubSeq(items, 1, Kept) ELSE items
    /\ acc' = [acc EXCEPT !.matched = Len(items')]
    /\ pc' = "done"
    /\ closed' = TRUE
    /\ UNCHANGED <<logVars, askVars, position, batch, cursor, expired, stop, seen>>

(* emitter's drain: latest is sorted, truncated and recounted. *)
Drain ==
    /\ pc = "drain"
    /\ IF bounds.latest
       THEN \E s \in [1..Kept -> Emitted] :
               /\ Newest(s)
               /\ items' = s
               /\ acc' = [acc EXCEPT !.matched = Kept]
       ELSE UNCHANGED <<items, acc>>
    /\ pc' = "done"
    /\ closed' = TRUE
    /\ UNCHANGED <<logVars, askVars, position, batch, cursor, expired, stop, seen>>

(* finalStats, of a Run that has returned.  latest always reports its      *)
(* window's start, and the end reached.                                    *)
Continuation == [p \in Scope |-> IF bounds.latest THEN window[p].start ELSE cursor[p]]

ReachedEnd == bounds.latest \/ stop.reachedEnd

StoppedBy == IF bounds.latest THEN "" ELSE stop.stoppedBy

-----------------------------------------------------------------------------
Step ==
    \/ NothingInScope \/ Assign \/ AssignFails
    \/ Exhausted \/ Continue \/ Poll \/ PollNothing \/ PollFails
    \/ \E p \in Partitions : \E o \in Offsets : Ignore(p, o) \/ Evaluate(p, o)
    \/ BatchDone \/ Drain

(* What happens to the topic once Run has returned is of no concern here.  *)
Topic ==
    /\ pc \notin {"done", "failed"}
    /\ \E p \in Partitions : Append1(p) \/ Mark(p) \/ Remove(p)

Next == Step \/ Expire \/ Topic

Spec == Init /\ [][Next]_vars

(* Run's goroutine keeps running and, if timed, time runs out; a poll that can deliver  *)
(* for ever does in the end.  Nothing obliges anybody to write or to       *)
(* delete.                                                                 *)
FairSpec == Spec /\ WF_vars(Step) /\ WF_vars(bounds.timed /\ Expire) /\ SF_vars(Poll)
-----------------------------------------------------------------------------
(* Every variable has its type. *)
TypeOK ==
    /\ live \in [Partitions -> SUBSET Offsets]
    /\ hw \in [Partitions -> 0..MaxOffset]
    /\ Scope \subseteq Partitions /\ window \in [Scope -> Window]
    /\ bounds \in Bound
    /\ pc \in {"assign", "loop", "poll", "evaluate", "drain", "done", "failed"}
    /\ position \in [Partitions -> Nat]
    /\ batch \in [Partitions -> SUBSET Offsets]
    /\ cursor \in [Scope -> Nat]
    /\ acc \in [scanned : Nat, matched : Nat, skipped : Nat, bytes : Nat]
    /\ items \in Seq(Records)
    /\ expired \in BOOLEAN
    /\ stop \in Ending
    /\ closed \in BOOLEAN
    /\ seen \subseteq Records

(* Continuation resumes with no gap and no overlap (scan/stats.go): at any *)
(* moment a partition's cursor parts what has been evaluated from what has *)
(* not.  Every record still in the log between the window's start and the  *)
(* cursor was evaluated; none at or after the cursor, none outside the     *)
(* window, none past the end snapshot of a topic that keeps growing.       *)
NoGap ==
    \A p \in Scope : \A o \in live[p] :
        window[p].start <= o /\ o < cursor[p] => <<p, o>> \in seen

NoOverlap ==
    \A r \in seen :
        /\ r[1] \in Scope
        /\ window[r[1]].start <= r[2] /\ r[2] < cursor[r[1]] /\ r[2] < window[r[1]].end

(* The envelope's items are the matches evaluated, each once, and in       *)
(* offset order within a partition; latest keeps some of them.             *)
ItemsAreTheMatches ==
    LET matches == {r \in seen : Says(r) = "match"}
    IN  IF bounds.latest /\ pc = "done"
        THEN Emitted \subseteq matches /\ Len(items) = Cardinality(Emitted)
        ELSE /\ Emitted = matches
             /\ \A i, j \in 1..Len(items) :
                    i < j /\ items[i][1] = items[j][1] => items[i][2] < items[j][2]

(* No bound is overrun: matches and records stop at their bound exactly,   *)
(* bytes by at most the record that reached it; and the statistics agree   *)
(* with the items and the records evaluated.                               *)
BoundsHold ==
    /\ bounds.maxMessages > 0 /\ (~ bounds.latest \/ pc = "done") => Len(items) <= bounds.maxMessages
    /\ bounds.maxScanned > 0 => acc.scanned <= bounds.maxScanned
    /\ bounds.maxBytes > 0 =>
           acc.bytes < bounds.maxBytes \/ \E r \in Records : acc.bytes < bounds.maxBytes + Size[r]
    /\ acc.scanned = Cardinality(seen)
    /\ acc.matched = Len(items)

(* A scan that says it reached the end has evaluated everything its        *)
(* windows still hold; one that did not names the bound that stopped it.   *)
HonestEnd ==
    pc = "done" /\ ~ bounds.latest =>
        /\ ReachedEnd <=> StoppedBy = ""
        /\ ReachedEnd => \A p \in Scope : \A o \in live[p] :
               window[p].start <= o /\ o < window[p].end => <<p, o>> \in seen
        /\ StoppedBy = "maxTime" => expired

(* latest returns the newest matches of its windows, if it got through     *)
(* them: none left out is newer than one returned.                         *)
LatestIsNewest ==
    pc = "done" /\ bounds.latest /\ stop.reachedEnd =>
        \A p \in Scope : \A o \in live[p] :
            /\ window[p].start <= o /\ o < window[p].end
            /\ Says(<<p, o>>) = "match"
            /\ <<p, o>> \notin Emitted
            => /\ Len(items) = bounds.maxMessages
               /\ \A r \in Emitted : Time[r] >= Time[<<p, o>>]

(* A scan with a time bound returns, whatever the log does and even if its *)
(* tail holds no record to poll.                                           *)
Returns == bounds.timed ~> pc \in {"done", "failed"}
=============================================================================
