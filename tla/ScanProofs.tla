----------------------------- MODULE ScanProofs -----------------------------
(***************************************************************************)
(* The cursor of scan.Run parts what was evaluated from what was not, for  *)
(* any topic, windows, bounds and matcher, whatever happens to the topic   *)
(* meanwhile.                                                              *)
(***************************************************************************)
EXTENDS Scan, SequenceTheorems, FiniteSetTheorems, WellFoundedInduction, TLAPS

Running == {"loop", "poll", "evaluate"}

(* One partition in scope: the cursor has left its start only to stay      *)
(* within the window, and everything fetched ahead of it is in the batch.  *)
CursorInv(p) ==
    /\ window[p].end <= hw[p]
    /\ window[p].start <= cursor[p]
    /\ cursor[p] = window[p].start \/ cursor[p] <= window[p].end
    /\ pc = "assign" => cursor[p] = window[p].start
    /\ pc \in Running => \A o \in live[p] :
           cursor[p] <= o /\ o < window[p].end /\ o < position[p] => o \in batch[p]

BatchInv ==
    /\ pc \in {"assign", "loop", "poll"} => batch = NoBatch
    /\ pc \in Running => \A p \in Scope : \A o \in batch[p] : o < position[p]

StopInv ==
    /\ pc \in {"assign"} \cup Running => stop = NoStop
    /\ pc \in {"drain", "done"} =>
           /\ stop.reachedEnd <=> stop.stoppedBy = ""
           /\ stop.reachedEnd => WindowsExhausted
           /\ stop.stoppedBy = "maxTime" => expired

(* The inductive invariant of Run. *)
ScanInv ==
    /\ TypeOK
    /\ \A p \in Scope : CursorInv(p)
    /\ BatchInv
    /\ StopInv
    /\ NoGap
    /\ NoOverlap

Matches == {r \in seen : Says(r) = "match"}

(* Until latest truncates them, the items are the matches, in offset order *)
(* within a partition; what latest leaves out is no newer than its items.  *)
ItemsInv ==
    /\ ~ (bounds.latest /\ pc = "done") =>
           /\ Emitted = Matches
           /\ \A i, j \in 1..Len(items) :
                  i < j /\ items[i][1] = items[j][1] => items[i][2] < items[j][2]
    /\ bounds.latest /\ pc = "done" =>
           /\ Emitted \subseteq Matches /\ Len(items) = Cardinality(Emitted)
           /\ bounds.maxMessages > 0 => Len(items) <= bounds.maxMessages
           /\ \A r \in Matches \ Emitted :
                  Len(items) = bounds.maxMessages /\ \A q \in Emitted : Time[q] >= Time[r]

(* A scan that goes on has not reached a bound.                            *)
CountInv ==
    /\ IsFiniteSet(seen) /\ acc.scanned = Cardinality(seen)
    /\ acc.matched = Len(items)
    /\ pc \in {"assign"} \cup Running =>
           /\ bounds.maxMessages > 0 /\ ~ bounds.latest => Len(items) < bounds.maxMessages
           /\ bounds.maxScanned > 0 => acc.scanned < bounds.maxScanned
           /\ bounds.maxBytes > 0 => acc.bytes < bounds.maxBytes
    /\ bounds.maxMessages > 0 /\ ~ bounds.latest => Len(items) <= bounds.maxMessages
    /\ bounds.maxScanned > 0 => acc.scanned <= bounds.maxScanned
    /\ bounds.maxBytes > 0 =>
           acc.bytes < bounds.maxBytes \/ \E r \in Records : acc.bytes < bounds.maxBytes + Size[r]

(* The inductive invariant of Run and of what it emits.                    *)
EmitInv == ScanInv /\ ItemsInv /\ CountInv

-----------------------------------------------------------------------------
(* The partitions in scope are partitions. *)
LEMMA ScopeType == TypeOK => Scope \subseteq Partitions /\ window \in [Scope -> Window]
BY ScanAssumption DEF TypeOK, Scope

(* Offsets are numbers. *)
LEMMA OffsetsAreNat ==
    /\ 0..MaxOffset \subseteq Nat
    /\ \A o \in Offsets : o \in Nat /\ o + 1 \in Nat
<1>1. MaxOffset \in Nat
  BY ScanAssumption
<1> QED
  BY <1>1 DEF Offsets

(* Every way a scan ends is a known ending. *)
LEMMA EndingType ==
    ASSUME NEW b \in BOOLEAN, NEW n \in {"", "maxMessages", "maxBytes", "maxTime"}
    PROVE  [reachedEnd |-> b, stoppedBy |-> n] \in Ending
BY DEF Ending

(* Every bound that is hit is a known ending. *)
LEMMA HitBoundType ==
    ASSUME NEW a
    PROVE  HitBound(a) \in {"", "maxMessages", "maxBytes"}
BY DEF HitBound

(* Counting a record keeps the counters well typed. *)
LEMMA CountedType ==
    ASSUME TypeOK, NEW p \in Partitions, NEW o \in Offsets
    PROVE  Counted(p, o) \in [scanned : Nat, matched : Nat, skipped : Nat, bytes : Nat]
<1>1. Size[<<p, o>>] \in Nat
  BY ScanAssumption DEF Records
<1>2. acc \in [scanned : Nat, matched : Nat, skipped : Nat, bytes : Nat]
  BY DEF TypeOK
<1> QED
  BY <1>1, <1>2 DEF Counted

(* A scan that is about to start on windows that end before the log does.  *)
Ready ==
    /\ live \in [Partitions -> SUBSET Offsets]
    /\ hw \in [Partitions -> 0..MaxOffset]
    /\ Scope \subseteq Partitions /\ window \in [Scope -> Window]
    /\ \A p \in Scope : window[p].end <= hw[p]
    /\ bounds \in Bound
    /\ Started(window)

(* So do the scans of the specification.                                   *)
LEMMA InitReady == Init => Ready
<1> SUFFICES ASSUME Init PROVE Ready
  OBVIOUS
<1>1. live \in [Partitions -> SUBSET Offsets] /\ hw \in [Partitions -> 0..MaxOffset]
  BY ScanAssumption DEF Init
<1>2. Scope \subseteq Partitions /\ window \in [Scope -> Window]
  BY ScanAssumption DEF Init, Scope
<1> QED
  BY <1>1, <1>2, ScanAssumption DEF Init, Ready, Scope

(* It is well typed.                                                       *)
LEMMA TypeInit == Ready => TypeOK
<1> SUFFICES ASSUME Ready PROVE TypeOK
  OBVIOUS
<1>1. cursor \in [Scope -> Nat]
  BY DEF Ready, Started, Scope, Window
<1>2. /\ position \in [Partitions -> Nat] /\ batch \in [Partitions -> SUBSET Offsets]
      /\ expired \in BOOLEAN /\ closed \in BOOLEAN /\ seen \subseteq Records
      /\ pc = "assign" /\ bounds \in Bound
  BY DEF Ready, Started, NoBatch
<1>3. acc \in [scanned : Nat, matched : Nat, skipped : Nat, bytes : Nat]
  BY DEF Ready, Started, NewAcc
<1>4. stop \in Ending
  BY DEF Ready, Started, NoStop, Ending
<1>5. items \in Seq(Records)
  BY EmptySeq DEF Ready, Started
<1> QED
  BY <1>1, <1>2, <1>3, <1>4, <1>5 DEF TypeOK, Ready

(* Every step keeps the types. *)
LEMMA TypeStep == TypeOK /\ [Next]_vars => TypeOK'
<1> SUFFICES ASSUME TypeOK, [Next]_vars PROVE TypeOK'
  OBVIOUS
<1> USE DEF TypeOK
<1>0. MaxOffset \in Nat /\ Scope \subseteq Partitions /\ window \in [Scope -> Window]
  BY ScanAssumption, ScopeType
<1>1. CASE NothingInScope
  <2>1. stop' = [reachedEnd |-> TRUE, stoppedBy |-> ""] /\ pc' = "done"
    BY <1>1 DEF NothingInScope
  <2>2. stop' \in Ending
    BY <2>1, EndingType
  <2> QED
    BY <1>1, <2>1, <2>2 DEF NothingInScope, logVars, askVars, Scope
<1>2. CASE Assign
  BY <1>0, <1>2 DEF Assign, logVars, askVars, Scope, Window
<1>3. CASE AssignFails \/ Continue \/ PollFails \/ BatchDone
  BY <1>3 DEF AssignFails, Continue, PollFails, BatchDone, logVars, askVars, Scope
<1>4. CASE Exhausted \/ PollNothing
  <2>1. /\ pc' \in {"loop", "drain"}
        /\ \/ stop' = stop
           \/ \E b \in BOOLEAN, n \in {"", "maxTime"} : stop' = [reachedEnd |-> b, stoppedBy |-> n]
    BY <1>4 DEF Exhausted, PollNothing, Stop
  <2>2. stop' \in Ending
    BY <2>1, EndingType
  <2>3. UNCHANGED <<logVars, askVars, position, batch, cursor, acc, items, expired, closed, seen>>
    BY <1>4 DEF Exhausted, PollNothing
  <2> QED
    BY <2>1, <2>2, <2>3 DEF logVars, askVars, Scope
<1>5. CASE Poll
  <2>1. PICK to \in [Partitions -> 0..MaxOffset] : position' = to /\ batch' = Delivered(to)
    BY <1>5 DEF Poll
  <2>2. position' \in [Partitions -> Nat]
    BY <2>1, OffsetsAreNat
  <2>3. batch' \in [Partitions -> SUBSET Offsets]
    BY <2>1 DEF Delivered
  <2> QED
    BY <1>5, <2>2, <2>3 DEF Poll, logVars, askVars, Scope
<1>6. ASSUME NEW p \in Partitions, NEW o \in Offsets, Ignore(p, o) PROVE TypeOK'
  BY <1>6 DEF Ignore, logVars, askVars, Scope
<1>7. ASSUME NEW p \in Partitions, NEW o \in Offsets, Evaluate(p, o) PROVE TypeOK'
  <2>1. acc' \in [scanned : Nat, matched : Nat, skipped : Nat, bytes : Nat]
    BY <1>7, CountedType DEF Evaluate
  <2>2. items' \in Seq(Records) /\ seen' \subseteq Records
    <3>1. <<p, o>> \in Records
      BY DEF Records
    <3>2. items' \in {items, Append(items, <<p, o>>)} /\ seen' = seen \cup {<<p, o>>}
      BY <1>7 DEF Evaluate
    <3>3. Append(items, <<p, o>>) \in Seq(Records)
      BY <3>1, AppendProperties
    <3> QED
      BY <3>1, <3>2, <3>3
  <2>3. cursor' \in [Scope -> Nat]
    <3>1. cursor' = [cursor EXCEPT ![p] = o + 1]
      BY <1>7 DEF Evaluate
    <3> QED
      BY <3>1, OffsetsAreNat
  <2>4. /\ batch' \in [Partitions -> SUBSET Offsets]
        /\ pc' \in {"evaluate", "drain"}
        /\ stop' \in Ending
    <3>1. CASE HitBound(acc') # ""
      <4>1. batch' = NoBatch /\ pc' = "drain"
            /\ stop' = [reachedEnd |-> FALSE, stoppedBy |-> HitBound(acc')]
        BY <1>7, <3>1 DEF Evaluate, Stop
      <4>2. stop' \in Ending
        BY <4>1, HitBoundType, EndingType
      <4> QED
        BY <4>1, <4>2 DEF NoBatch
    <3>2. CASE HitBound(acc') = ""
      <4>1. batch' = [batch EXCEPT ![p] = @ \ {o}] /\ pc' = pc /\ stop' = stop /\ pc = "evaluate"
        BY <1>7, <3>2 DEF Evaluate
      <4> QED
        BY <4>1
    <3> QED
      BY <3>1, <3>2
  <2> QED
    BY <1>7, <2>1, <2>2, <2>3, <2>4 DEF Evaluate, logVars, askVars, Scope
<1>8. CASE Drain
  <2>0. Len(items) \in Nat /\ \A i \in 1..Len(items) : items[i] \in Records
    BY LenProperties, ElementOfSeq
  <2>a. bounds.maxMessages \in Nat
    <3>1. bounds \in Bound
      BY ScanAssumption
    <3> QED
      BY <3>1 DEF Bound
  <2>1. Kept \in Nat /\ Emitted \subseteq Records
    BY <2>0, <2>a DEF Kept, Emitted
  <2>2. items' \in Seq(Records)
    <3>1. items' = items \/ items' \in [1..Kept -> Emitted]
      BY <1>8 DEF Drain
    <3>2. [1..Kept -> Emitted] \subseteq Seq(Records)
      BY <2>1, SeqDef
    <3> QED
      BY <3>1, <3>2
  <2>3. acc' \in [scanned : Nat, matched : Nat, skipped : Nat, bytes : Nat]
    BY <1>8, <2>1 DEF Drain
  <2> QED
    BY <1>8, <2>2, <2>3 DEF Drain, logVars, askVars, Scope
<1>9. CASE Expire
  BY <1>9 DEF Expire, logVars, askVars, runVars, Scope
<1>10. ASSUME NEW p \in Partitions, Append1(p) \/ Mark(p) \/ Remove(p) PROVE TypeOK'
  <2>1. hw[p] < MaxOffset => hw[p] \in Offsets /\ hw[p] + 1 \in 0..MaxOffset
    BY <1>0 DEF Offsets
  <2>2. live' \in [Partitions -> SUBSET Offsets]
    <3>1. CASE Append1(p)
      BY <2>1, <3>1 DEF Append1
    <3>2. CASE Mark(p)
      BY <3>2 DEF Mark
    <3>3. CASE Remove(p)
      <4>1. PICK o \in live[p] : live' = [live EXCEPT ![p] = @ \ {o}]
        BY <3>3 DEF Remove
      <4> QED
        BY <4>1
    <3> QED
      BY <1>10, <3>1, <3>2, <3>3
  <2>3. hw' \in [Partitions -> 0..MaxOffset]
    <3>1. CASE Append1(p) \/ Mark(p)
      <4>1. hw' = [hw EXCEPT ![p] = hw[p] + 1] /\ hw[p] < MaxOffset
        BY <3>1 DEF Append1, Mark
      <4> QED
        BY <2>1, <4>1
    <3>2. CASE Remove(p)
      BY <3>2 DEF Remove
    <3> QED
      BY <1>10, <3>1, <3>2
  <2> QED
    BY <1>10, <2>2, <2>3 DEF Append1, Mark, Remove, askVars, runVars, Scope
<1>11. CASE UNCHANGED vars
  BY <1>11 DEF vars, Scope
<1> QED
  BY <1>1, <1>2, <1>3, <1>4, <1>5, <1>6, <1>7, <1>8, <1>9, <1>10, <1>11 DEF Next, Step, Topic

(* Every variable keeps its type. *)
THEOREM ScanTypeCorrect == Spec => []TypeOK
BY InitReady, TypeInit, TypeStep, PTL DEF Spec
-----------------------------------------------------------------------------
(* The invariant holds of a scan that is about to start.                   *)
LEMMA ScanInit == Ready => ScanInv
<1> SUFFICES ASSUME Ready PROVE ScanInv
  OBVIOUS
<1>1. TypeOK
  BY TypeInit
<1>2. ASSUME NEW p \in Scope PROVE CursorInv(p)
  <2>1. window[p].start \in Nat /\ cursor[p] = window[p].start
    BY <1>1, <1>2, ScopeType DEF Ready, Started, Scope, Window
  <2>2. window[p].end <= hw[p] /\ pc = "assign"
    BY <1>2 DEF Ready, Started
  <2> QED
    BY <2>1, <2>2 DEF CursorInv, Running
<1>3. BatchInv /\ StopInv
  BY DEF Ready, Started, BatchInv, StopInv, Running
<1>4. NoGap /\ NoOverlap
  <2>1. \A p \in Scope : cursor[p] = window[p].start
    BY DEF Ready, Started, Scope
  <2> QED
    BY <1>1, <2>1, ScopeType, OffsetsAreNat DEF TypeOK, Ready, Started, NoGap, NoOverlap, Window
<1> QED
  BY <1>1, <1>2, <1>3, <1>4 DEF ScanInv

(* A step that leaves the log, the cursor and the history alone keeps the  *)
(* parts of the invariant that speak of nothing else.                      *)
LEMMA QuietStep ==
    ASSUME ScanInv, TypeOK',
           UNCHANGED <<live, hw, window, cursor, seen>>,
           pc \in {"assign", "loop", "poll", "evaluate", "drain"},
           pc' # "assign",
           pc' \in Running => pc \in Running /\ position' = position /\ batch' = batch
    PROVE  (\A p \in Scope : CursorInv(p))' /\ NoGap' /\ NoOverlap'
<1>1. NoGap' /\ NoOverlap'
  BY DEF ScanInv, NoGap, NoOverlap, Scope
<1>2. ASSUME NEW p \in Scope PROVE CursorInv(p)'
  BY <1>2 DEF ScanInv, CursorInv, Scope
<1> QED
  BY <1>1, <1>2 DEF Scope

(* Every step keeps the invariant. *)
LEMMA ScanStep == ScanInv /\ [Next]_vars => ScanInv'
<1> SUFFICES ASSUME ScanInv, [Next]_vars PROVE ScanInv'
  OBVIOUS
<1>0. /\ TypeOK /\ TypeOK' /\ Scope \subseteq Partitions /\ window \in [Scope -> Window]
      /\ cursor \in [Scope -> Nat] /\ MaxOffset \in Nat
  BY TypeStep, ScopeType, ScanAssumption DEF ScanInv, TypeOK
<1>a. \A p \in Scope : /\ window[p].start \in Nat /\ window[p].end \in Nat
                       /\ cursor[p] \in Nat /\ hw[p] \in Nat /\ p \in Partitions
  BY <1>0, OffsetsAreNat DEF TypeOK, Window
<1>b. \A p \in Partitions : \A o \in live[p] \cup batch[p] : o \in Offsets /\ o \in Nat
  BY <1>0, OffsetsAreNat DEF TypeOK
<1>1. CASE NothingInScope
  <2>1. /\ UNCHANGED <<live, hw, window, cursor, seen>>
        /\ pc = "assign" /\ pc' = "done" /\ Scope = {}
        /\ stop' = [reachedEnd |-> TRUE, stoppedBy |-> ""]
    BY <1>1 DEF NothingInScope, logVars, askVars
  <2>2. BatchInv' /\ StopInv'
    BY <2>1 DEF BatchInv, StopInv, Running, WindowsExhausted, Scope
  <2> QED
    BY <1>0, <2>1, <2>2, QuietStep DEF ScanInv, Running
<1>2. CASE Assign
  <2>1. /\ UNCHANGED <<live, hw, window, cursor, seen, batch, stop>>
        /\ pc = "assign" /\ pc' = "loop" /\ batch = NoBatch /\ stop = NoStop
        /\ \A p \in Scope : position'[p] = window[p].start
    BY <1>0, <1>2 DEF Assign, logVars, askVars, ScanInv, BatchInv, StopInv
  <2>2. ASSUME NEW p \in Scope PROVE CursorInv(p)'
    <3>1. CursorInv(p) /\ cursor[p] = window[p].start
      BY <2>1, <2>2 DEF ScanInv, CursorInv
    <3>2. \A o \in live[p] : ~ (cursor[p] <= o /\ o < position'[p])
      BY <1>0, <1>a, <1>b, <2>1, <2>2, <3>1
    <3> QED
      BY <2>1, <2>2, <3>1, <3>2 DEF CursorInv, Scope, Running
  <2>3. BatchInv' /\ StopInv'
    BY <1>0, <2>1 DEF BatchInv, StopInv, Running, NoBatch, Scope
  <2>4. NoGap' /\ NoOverlap'
    BY <2>1 DEF ScanInv, NoGap, NoOverlap, Scope
  <2> QED
    BY <1>0, <2>1, <2>2, <2>3, <2>4 DEF ScanInv, Scope
<1>3. CASE AssignFails \/ PollFails
  <2>1. /\ UNCHANGED <<live, hw, window, cursor, seen, batch, stop>>
        /\ pc \in {"assign", "poll"} /\ pc' = "failed"
    BY <1>3 DEF AssignFails, PollFails, logVars, askVars
  <2>2. BatchInv' /\ StopInv'
    BY <2>1 DEF BatchInv, StopInv, Running
  <2> QED
    BY <1>0, <2>1, <2>2, QuietStep DEF ScanInv, Running
<1>4. CASE Exhausted
  <2>1. /\ UNCHANGED <<live, hw, window, cursor, seen, batch>>
        /\ pc = "loop" /\ pc' = "drain" /\ WindowsExhausted
        /\ stop' = [reachedEnd |-> TRUE, stoppedBy |-> ""]
    BY <1>4 DEF Exhausted, Stop, logVars, askVars
  <2>2. BatchInv' /\ StopInv'
    BY <2>1 DEF BatchInv, StopInv, Running, WindowsExhausted, Scope
  <2> QED
    BY <1>0, <2>1, <2>2, QuietStep DEF ScanInv, Running
<1>5. CASE Continue \/ BatchDone
  <2>1. /\ UNCHANGED <<live, hw, window, cursor, seen, batch, position, stop>>
        /\ pc \in Running /\ pc' \in {"loop", "poll"} /\ batch = NoBatch
    BY <1>5 DEF Continue, BatchDone, logVars, askVars, Running, ScanInv, BatchInv
  <2>2. BatchInv' /\ StopInv'
    BY <2>1 DEF ScanInv, BatchInv, StopInv, Running, Scope
  <2> QED
    BY <1>0, <2>1, <2>2, QuietStep DEF ScanInv, Running
<1>6. CASE PollNothing
  <2>1. /\ UNCHANGED <<live, hw, window, cursor, seen, batch, position, expired>>
        /\ pc = "poll" /\ batch = NoBatch
        /\ \/ pc' = "loop" /\ stop' = stop
           \/ pc' = "drain" /\ expired /\ stop' = [reachedEnd |-> FALSE, stoppedBy |-> "maxTime"]
    BY <1>6 DEF PollNothing, Stop, logVars, askVars, ScanInv, BatchInv
  <2>2. BatchInv'
    BY <2>1 DEF ScanInv, BatchInv, Running, Scope
  <2>3. StopInv'
    <3>1. CASE pc' = "loop"
      BY <2>1, <3>1 DEF ScanInv, StopInv, Running
    <3>2. CASE pc' = "drain"
      <4>1. expired' /\ ~ stop'.reachedEnd /\ stop'.stoppedBy = "maxTime"
        BY <2>1, <3>2
      <4> QED
        BY <3>2, <4>1 DEF StopInv, Running
    <3> QED
      BY <2>1, <3>1, <3>2
  <2> QED
    BY <1>0, <2>1, <2>2, <2>3, QuietStep DEF ScanInv, Running
<1>7. CASE Poll
  <2>1. /\ UNCHANGED <<live, hw, window, cursor, seen, stop>>
        /\ pc = "poll" /\ pc' = "evaluate" /\ batch = NoBatch
    BY <1>7 DEF Poll, logVars, askVars, ScanInv, BatchInv
  <2>2. PICK to \in [Partitions -> 0..MaxOffset] : position' = to /\ batch' = Delivered(to)
    BY <1>7 DEF Poll
  <2>3. ASSUME NEW p \in Scope PROVE CursorInv(p)'
    <3>1. ASSUME NEW o \in live[p], cursor[p] <= o, o < window[p].end, o < to[p]
          PROVE  o \in batch'[p]
      <4>1. FetchFrom(p) <= o
        <5>1. CASE position[p] > hw[p]
          BY <1>a, <1>b, <3>1, <2>3, <5>1 DEF FetchFrom
        <5>2. CASE ~ (position[p] > hw[p])
          <6>1. o \notin batch[p]
            BY <1>a, <2>1, <2>3 DEF NoBatch
          <6>2. ~ (o < position[p])
            BY <2>1, <2>3, <3>1, <6>1 DEF ScanInv, CursorInv, Running
          <6>3. position[p] \in Nat /\ o \in Nat
            BY <1>0, <1>a, <1>b, <2>3, <3>1 DEF TypeOK
          <6> QED
            BY <5>2, <6>2, <6>3 DEF FetchFrom
        <5> QED
          BY <5>1, <5>2
      <4> QED
        BY <1>a, <2>2, <2>3, <3>1, <4>1 DEF Delivered
    <3> QED
      BY <2>1, <2>2, <2>3, <3>1 DEF ScanInv, CursorInv, Scope, Running
  <2>4. BatchInv'
    <3>1. \A p \in Scope : \A o \in batch'[p] : o < position'[p]
      BY <1>a, <2>2 DEF Delivered
    <3> QED
      BY <2>1, <3>1 DEF BatchInv, Scope
  <2>5. StopInv' /\ NoGap' /\ NoOverlap'
    BY <2>1 DEF ScanInv, StopInv, NoGap, NoOverlap, Scope, Running
  <2> QED
    BY <1>0, <2>1, <2>3, <2>4, <2>5 DEF ScanInv, Scope
<1>8. ASSUME NEW p \in Partitions, NEW o \in Offsets, Ignore(p, o) PROVE ScanInv'
  <2>1. /\ UNCHANGED <<live, hw, window, cursor, seen, pc, position, stop>>
        /\ pc = "evaluate" /\ batch' = [batch EXCEPT ![p] = batch[p] \ {o}]
        /\ p \in Scope => ~ (cursor[p] <= o /\ o < window[p].end)
    BY <1>8 DEF Ignore, InWindow, logVars, askVars
  <2>2. \A q \in Partitions : batch'[q] \subseteq batch[q] /\ (q # p => batch'[q] = batch[q])
    BY <1>0, <2>1 DEF TypeOK
  <2>3. batch'[p] = batch[p] \ {o}
    BY <1>0, <2>1 DEF TypeOK
  <2>4. ASSUME NEW q \in Scope PROVE CursorInv(q)'
    <3>1. CursorInv(q)
      BY <2>4 DEF ScanInv
    <3>2. CASE q = p
      BY <2>1, <2>3, <2>4, <3>1, <3>2 DEF CursorInv, Scope
    <3>3. CASE q # p
      BY <1>a, <2>1, <2>2, <2>4, <3>1, <3>3 DEF CursorInv, Scope
    <3> QED
      BY <3>2, <3>3
  <2>5. BatchInv'
    BY <1>a, <2>1, <2>2 DEF ScanInv, BatchInv, Scope
  <2>6. StopInv' /\ NoGap' /\ NoOverlap'
    BY <2>1 DEF ScanInv, StopInv, NoGap, NoOverlap, Scope, Running
  <2> QED
    BY <1>0, <2>1, <2>4, <2>5, <2>6 DEF ScanInv, Scope
<1>9. ASSUME NEW p \in Partitions, NEW o \in Offsets, Evaluate(p, o) PROVE ScanInv'
  <2>1. /\ UNCHANGED <<live, hw, window, position>>
        /\ pc = "evaluate" /\ p \in Scope /\ cursor[p] <= o /\ o < window[p].end
        /\ o \in batch[p] /\ \A n \in batch[p] : o <= n
        /\ cursor' = [cursor EXCEPT ![p] = o + 1]
        /\ seen' = seen \cup {<<p, o>>}
    BY <1>9 DEF Evaluate, InWindow, Next1, logVars, askVars
  <2>2. \/ /\ pc' = "evaluate" /\ stop' = stop
           /\ batch' = [batch EXCEPT ![p] = batch[p] \ {o}]
        \/ /\ pc' = "drain" /\ batch' = NoBatch
           /\ \E n \in {"maxMessages", "maxBytes"} :
                  stop' = [reachedEnd |-> FALSE, stoppedBy |-> n]
    <3>1. CASE HitBound(acc') # ""
      BY <1>9, <3>1, HitBoundType DEF Evaluate, Stop
    <3>2. CASE HitBound(acc') = ""
      BY <1>9, <3>2, <2>1 DEF Evaluate
    <3> QED
      BY <3>1, <3>2
  <2>3. /\ cursor'[p] = o + 1
        /\ \A q \in Scope : q # p => cursor'[q] = cursor[q]
    BY <1>0, <2>1
  <2>4. o \in Nat /\ o < o + 1
    BY OffsetsAreNat
  <2>5. ASSUME NEW q \in Scope PROVE CursorInv(q)'
    <3>1. CursorInv(q)
      BY <2>5 DEF ScanInv
    <3>2. CASE q # p
      <4>1. pc' = "evaluate" => batch'[q] = batch[q]
        BY <1>0, <1>a, <2>2, <2>5, <3>2 DEF TypeOK
      <4> QED
        BY <2>1, <2>2, <2>3, <2>5, <3>1, <3>2, <4>1 DEF CursorInv, Scope, Running
    <3>3. CASE q = p
      <4>1. /\ window[p].end <= hw[p] /\ window[p].start <= o + 1 /\ o + 1 <= window[p].end
        BY <1>a, <2>1, <2>4, <2>5, <3>1, <3>3 DEF CursorInv
      <4>2. ASSUME pc' = "evaluate", NEW n \in live[p], o + 1 <= n, n < window[p].end, n < position[p]
            PROVE  n \in batch'[p]
        <5>1. n \in Nat /\ cursor[p] \in Nat
          BY <1>a, <1>b, <2>1, <4>2
        <5>2. n \in batch[p] /\ n # o
          BY <2>1, <2>4, <3>1, <3>3, <4>2, <5>1 DEF CursorInv, Running
        <5>3. batch'[p] = batch[p] \ {o}
          BY <1>0, <2>2, <4>2 DEF TypeOK
        <5> QED
          BY <5>2, <5>3
      <4> QED
        BY <2>1, <2>2, <2>3, <3>3, <4>1, <4>2 DEF CursorInv, Scope, Running
    <3> QED
      BY <3>2, <3>3
  <2>6. BatchInv'
    <3>1. pc' = "evaluate" => \A q \in Scope : batch'[q] \subseteq batch[q]
      BY <1>0, <1>a, <2>2, ZenonT(60) DEF TypeOK
    <3> QED
      BY <2>1, <2>2, <3>1 DEF ScanInv, BatchInv, Scope, Running
  <2>7. StopInv'
    <3>1. CASE pc' = "evaluate"
      BY <2>1, <2>2, <3>1 DEF ScanInv, StopInv, Running
    <3>2. CASE pc' = "drain"
      <4>1. ~ stop'.reachedEnd /\ stop'.stoppedBy \in {"maxMessages", "maxBytes"}
        BY <2>2, <3>2
      <4> QED
        BY <3>2, <4>1 DEF StopInv, Running
    <3> QED
      BY <2>2, <3>1, <3>2
  <2>8. NoGap'
    <3>1. ASSUME NEW q \in Scope, NEW n \in live[q], window[q].start <= n, n < cursor'[q]
          PROVE  <<q, n>> \in seen'
      <4>1. CASE n < cursor[q]
        BY <2>1, <3>1, <4>1 DEF ScanInv, NoGap
      <4>2. CASE ~ (n < cursor[q])
        <5>1. q = p /\ n \in Nat /\ cursor[p] <= n /\ n < o + 1
          BY <1>a, <1>b, <2>3, <3>1, <4>2
        <5>2. o < position[p]
          BY <2>1 DEF ScanInv, BatchInv, Running
        <5>3. n < window[p].end /\ n < position[p]
          BY <1>0, <1>a, <2>1, <2>4, <5>1, <5>2, SMTT(30) DEF TypeOK
        <5>4. n \in batch[p]
          BY <2>1, <3>1, <5>1, <5>3 DEF ScanInv, CursorInv, Running
        <5>5. n = o
          BY <2>1, <2>4, <5>1, <5>4
        <5> QED
          BY <2>1, <5>1, <5>5
      <4> QED
        BY <4>1, <4>2
    <3> QED
      BY <2>1, <3>1 DEF NoGap, Scope
  <2>9. NoOverlap'
    <3>1. ASSUME NEW r \in seen'
          PROVE  /\ r[1] \in Scope
                 /\ window[r[1]].start <= r[2] /\ r[2] < cursor'[r[1]] /\ r[2] < window[r[1]].end
      <4>1. CASE r \in seen
        <5>1. /\ r[1] \in Scope /\ r[2] < cursor[r[1]]
              /\ window[r[1]].start <= r[2] /\ r[2] < window[r[1]].end
          BY <4>1 DEF ScanInv, NoOverlap
        <5>2. r[2] \in Nat
          BY <1>0, <4>1, OffsetsAreNat DEF TypeOK, Records
        <5> QED
          BY <1>a, <2>1, <2>3, <2>4, <5>1, <5>2
      <4>2. CASE r = <<p, o>>
        <5>1. window[p].start <= cursor[p]
          BY <2>1 DEF ScanInv, CursorInv
        <5> QED
          BY <1>a, <2>1, <2>3, <2>4, <4>2, <5>1
      <4> QED
        BY <2>1, <3>1, <4>1, <4>2
    <3> QED
      BY <2>1, <3>1 DEF NoOverlap, Scope
  <2> QED
    BY <1>0, <2>1, <2>5, <2>6, <2>7, <2>8, <2>9 DEF ScanInv, Scope
<1>10. CASE Drain
  <2>1. /\ UNCHANGED <<live, hw, window, cursor, seen, batch, stop, expired>>
        /\ pc = "drain" /\ pc' = "done"
    BY <1>10 DEF Drain, logVars, askVars
  <2>2. BatchInv' /\ StopInv'
    BY <2>1 DEF ScanInv, BatchInv, StopInv, Running, WindowsExhausted, Scope
  <2> QED
    BY <1>0, <2>1, <2>2, QuietStep DEF ScanInv, Running
<1>11. CASE Expire
  <2>1. /\ UNCHANGED <<live, hw, window, cursor, seen, batch, position, stop, pc>>
        /\ pc \in Running
    BY <1>11 DEF Expire, logVars, askVars, runVars, Running
  <2>2. BatchInv' /\ StopInv'
    BY <2>1 DEF ScanInv, BatchInv, StopInv, Running, Scope
  <2> QED
    BY <1>0, <2>1, <2>2, QuietStep DEF ScanInv, Running
<1>12. ASSUME NEW p \in Partitions, Append1(p) \/ Mark(p) \/ Remove(p) PROVE ScanInv'
  <2>1. UNCHANGED <<window, cursor, seen, batch, position, stop, pc, expired>>
    BY <1>12 DEF Append1, Mark, Remove, askVars, runVars
  <2>2. /\ \A q \in Partitions : hw'[q] \in Nat /\ hw[q] <= hw'[q]
        /\ \A q \in Partitions : \A o \in live'[q] : o \in live[q] \/ o = hw[q]
    <3>1. CASE Append1(p)
      <4>1. \A q \in Partitions : hw[q] \in Nat
        BY <1>0, OffsetsAreNat DEF TypeOK
      <4>2. hw' = [hw EXCEPT ![p] = hw[p] + 1] /\ live' = [live EXCEPT ![p] = live[p] \cup {hw[p]}]
        BY <3>1 DEF Append1
      <4>3. \A q \in Partitions : hw'[q] \in Nat /\ hw[q] <= hw'[q]
        BY <1>0, <4>1, <4>2, SMTT(30) DEF TypeOK
      <4>4. \A q \in Partitions : \A o \in live'[q] : o \in live[q] \/ o = hw[q]
        BY <1>0, <4>2 DEF TypeOK
      <4> QED
        BY <4>3, <4>4
    <3>2. CASE Mark(p)
      <4>1. \A q \in Partitions : hw[q] \in Nat
        BY <1>0, OffsetsAreNat DEF TypeOK
      <4> QED
        BY <1>0, <3>2, <4>1, SMTT(30) DEF Mark, TypeOK
    <3>3. CASE Remove(p)
      <4>1. PICK o \in live[p] : live' = [live EXCEPT ![p] = live[p] \ {o}]
        BY <3>3 DEF Remove
      <4>2. hw' = hw /\ \A q \in Partitions : hw[q] \in Nat
        BY <1>0, <3>3, OffsetsAreNat DEF Remove, TypeOK
      <4> QED
        BY <1>0, <4>1, <4>2, SMTT(30) DEF TypeOK
    <3> QED
      BY <1>12, <3>1, <3>2, <3>3
  <2>3. \A q \in Scope : \A o \in live'[q] : o \in live[q] \/ ~ (o < window[q].end)
    BY <1>a, <2>2 DEF ScanInv, CursorInv
  <2>4. ASSUME NEW q \in Scope PROVE CursorInv(q)'
    <3>1. CursorInv(q)
      BY <2>4 DEF ScanInv
    <3>2. window[q].end <= hw'[q]
      BY <1>a, <2>2, <2>4, <3>1 DEF CursorInv
    <3> QED
      BY <2>1, <2>3, <2>4, <3>1, <3>2 DEF CursorInv, Scope
  <2>5. NoGap'
    <3>1. ASSUME NEW q \in Scope, NEW o \in live'[q], window[q].start <= o, o < cursor[q]
          PROVE  <<q, o>> \in seen
      <4>1. CASE o \in live[q]
        BY <3>1, <4>1 DEF ScanInv, NoGap
      <4>2. CASE o = hw[q]
        BY <1>a, <3>1, <4>2 DEF ScanInv, CursorInv
      <4> QED
        BY <1>a, <2>2, <3>1, <4>1, <4>2
    <3> QED
      BY <2>1, <3>1 DEF NoGap, Scope
  <2>6. BatchInv' /\ StopInv' /\ NoOverlap'
    BY <2>1 DEF ScanInv, BatchInv, StopInv, NoOverlap, WindowsExhausted, Running, Scope
  <2> QED
    BY <1>0, <2>1, <2>4, <2>5, <2>6 DEF ScanInv, Scope
<1>13. CASE UNCHANGED vars
  BY <1>0, <1>13 DEF vars, ScanInv, CursorInv, BatchInv, StopInv, NoGap, NoOverlap,
                     WindowsExhausted, Running, Scope
<1> QED
  BY <1>1, <1>2, <1>3, <1>4, <1>5, <1>6, <1>7, <1>8, <1>9, <1>10, <1>11, <1>12, <1>13
     DEF Next, Step, Topic

(* The inductive invariant of Run: the cursor stays within the window, and *)
(* everything fetched ahead of it is still in the batch.                   *)
THEOREM ScanInvariance == Spec => []ScanInv
BY InitReady, ScanInit, ScanStep, PTL DEF Spec

(* A page leaves no gap, whatever happens to the topic meanwhile: all that *)
(* lies between a window's start and the cursor, and is still in the log,  *)
(* was evaluated.                                                          *)
THEOREM PagesLeaveNoGap == Spec => []NoGap
<1>1. ScanInv => NoGap
  BY DEF ScanInv
<1> QED
  BY <1>1, ScanInvariance, PTL

(* Nor does it run ahead: what was evaluated lies in the window and before *)
(* the cursor the next page starts from.                                   *)
THEOREM PagesDoNotOverlap == Spec => []NoOverlap
<1>1. ScanInv => NoOverlap
  BY DEF ScanInv
<1> QED
  BY <1>1, ScanInvariance, PTL

(* reachedEnd is the truth, and a scan that stopped short says why.        *)
THEOREM EndIsHonest == Spec => []HonestEnd
<1>1. ScanInv => HonestEnd
  <2> SUFFICES ASSUME ScanInv, pc = "done", ~ bounds.latest
               PROVE  /\ ReachedEnd <=> StoppedBy = ""
                      /\ ReachedEnd => \A p \in Scope : \A o \in live[p] :
                             window[p].start <= o /\ o < window[p].end => <<p, o>> \in seen
                      /\ StoppedBy = "maxTime" => expired
    BY DEF HonestEnd
  <2>1. (ReachedEnd <=> stop.reachedEnd) /\ StoppedBy = stop.stoppedBy
    BY DEF ReachedEnd, StoppedBy
  <2>2. /\ stop.reachedEnd <=> stop.stoppedBy = ""
        /\ stop.reachedEnd => WindowsExhausted
        /\ stop.stoppedBy = "maxTime" => expired
    BY DEF ScanInv, StopInv
  <2>3. ASSUME WindowsExhausted, NEW p \in Scope, NEW o \in live[p],
               window[p].start <= o, o < window[p].end
        PROVE  <<p, o>> \in seen
    <3>1. /\ cursor[p] \in Nat /\ window[p].end \in Nat /\ o \in Nat
      BY ScopeType, OffsetsAreNat, <2>3 DEF ScanInv, TypeOK, Window
    <3>2. o < cursor[p]
      BY <2>3, <3>1 DEF WindowsExhausted
    <3> QED
      BY <2>3, <3>2 DEF ScanInv, NoGap
  <2> QED
    BY <2>1, <2>2, <2>3
<1> QED
  BY <1>1, ScanInvariance, PTL
-----------------------------------------------------------------------------
(* What a scan emits.                                                      *)

(* A nonempty set of numbers has a least one.                              *)
LEMMA Least ==
    ASSUME NEW S, S \subseteq Nat, S # {}
    PROVE  \E m \in S : \A n \in S : m <= n
<1>1. IsWellFoundedOn(OpToRel(<,Nat), Nat)
  BY NatLessThanWellFounded
<1>2. PICK m \in S : \A n \in S : ~ (<<n, m>> \in OpToRel(<,Nat))
  BY <1>1, WFMin
<1>3. \A n \in S : n < m => <<n, m>> \in OpToRel(<,Nat)
  BY DEF OpToRel
<1>4. \A n \in S : ~ (n < m)
  BY <1>2, <1>3
<1> QED
  BY <1>4

(* A nonempty bounded set of numbers has a greatest one.                   *)
LEMMA Greatest ==
    ASSUME NEW N \in Nat, NEW S, S \subseteq 0..N, S # {}
    PROVE  \E m \in S : \A n \in S : n <= m
<1> DEFINE T == {N - n : n \in S}
<1>1. T \subseteq Nat /\ T # {}
  <2>1. \A n \in S : N - n \in Nat
    OBVIOUS
  <2> QED
    BY <2>1
<1>2. PICK t \in T : \A u \in T : t <= u
  <2> HIDE DEF T
  <2> QED
    BY <1>1, Least
<1>3. PICK m \in S : t = N - m
  BY <1>2
<1>4. \A n \in S : N - m <= N - n
  BY <1>2, <1>3
<1> QED
  BY <1>3, <1>4

(* The bounds of a scan are numbers.                                       *)
LEMMA BoundType ==
    ASSUME TypeOK
    PROVE  /\ bounds.latest \in BOOLEAN
           /\ bounds.maxMessages \in Nat /\ bounds.maxScanned \in Nat /\ bounds.maxBytes \in Nat
BY ScanAssumption DEF TypeOK, Bound

(* The items are a finite sequence, and each of them is emitted.           *)
LEMMA ItemsType ==
    ASSUME TypeOK
    PROVE  /\ Len(items) \in Nat
           /\ \A i \in 1..Len(items) : items[i] \in Records /\ items[i] \in Emitted
           /\ Emitted \subseteq Records
<1>1. items \in Seq(Records)
  BY DEF TypeOK
<1> QED
  BY <1>1, LenProperties, ElementOfSeq DEF Emitted

(* Items in order within their partitions are all different.               *)
LEMMA ItemsDistinct ==
    ASSUME EmitInv, ~ (bounds.latest /\ pc = "done"),
           NEW i \in 1..Len(items), NEW j \in 1..Len(items), i # j
    PROVE  items[i] # items[j]
<1>1. items[i] = items[j] => FALSE
  <2> SUFFICES ASSUME items[i] = items[j] PROVE FALSE
    OBVIOUS
  <2>0. Len(items) \in Nat /\ items[i] \in Records
    BY ItemsType DEF EmitInv, ScanInv
  <2>1. items[i][2] \in Int
    BY <2>0, OffsetsAreNat DEF Records
  <2>2. items[i][2] < items[j][2] \/ items[j][2] < items[i][2]
    BY <2>0 DEF EmitInv, ItemsInv
  <2> QED
    BY <2>1, <2>2
<1> QED
  BY <1>1

(* Nothing has been emitted when a scan begins.                            *)
LEMMA EmitInit == Ready => EmitInv
<1> SUFFICES ASSUME Ready PROVE EmitInv
  OBVIOUS
<1>1. ScanInv
  BY ScanInit
<1>2. items = <<>> /\ Len(items) = 0 /\ seen = {} /\ pc = "assign" /\ acc = NewAcc
  BY EmptySeq DEF Ready, Started
<1>3. Emitted = {} /\ Matches = {}
  BY <1>2 DEF Emitted, Matches
<1>4. ItemsInv
  BY <1>2, <1>3 DEF ItemsInv
<1>5. CountInv
  BY <1>1, <1>2, BoundType, FS_EmptySet DEF CountInv, ScanInv, NewAcc
<1> QED
  BY <1>1, <1>4, <1>5 DEF EmitInv

(* A step that neither evaluates nor drains emits nothing.                 *)
LEMMA EmitQuiet ==
    ASSUME EmitInv, ScanInv', UNCHANGED <<bounds, seen, items, acc>>,
           \/ pc' = pc
           \/ pc \in Running /\ pc' # "done"
           \/ pc = "assign" /\ (pc' # "done" \/ seen = {})
    PROVE  EmitInv'
<1>1. Emitted' = Emitted /\ Matches' = Matches
  BY DEF Emitted, Matches, Says
<1>2. CountInv'
  BY DEF EmitInv, CountInv, Running
<1>3. ItemsInv'
  <2>1. CASE pc' = pc \/ pc' # "done"
    BY <1>1, <2>1 DEF EmitInv, ItemsInv, Running
  <2>2. CASE pc = "assign" /\ pc' = "done" /\ seen = {}
    <3>1. Emitted = {} /\ Matches = {}
      BY <2>2 DEF EmitInv, ItemsInv, Matches
    <3>2. Len(items) = 0
      BY <3>1, ItemsType DEF EmitInv, ScanInv
    <3> QED
      BY <1>1, <2>2, <3>1, <3>2, FS_EmptySet, BoundType DEF EmitInv, ScanInv, ItemsInv
  <2> QED
    BY <2>1, <2>2
<1> QED
  BY <1>2, <1>3 DEF EmitInv

(* Evaluating a record counts it, and emits it if it matches.              *)
LEMMA EmitEvaluate ==
    ASSUME EmitInv, ScanInv', NEW p \in Partitions, NEW o \in Offsets, Evaluate(p, o)
    PROVE  EmitInv'
<1> DEFINE r == <<p, o>>
<1>1. /\ pc = "evaluate" /\ cursor[p] <= o /\ p \in Scope /\ UNCHANGED bounds
      /\ acc' = Counted(p, o) /\ seen' = seen \cup {r}
      /\ items' = IF Says(r) = "match" THEN Append(items, r) ELSE items
      /\ pc' = IF HitBound(acc') = "" THEN "evaluate" ELSE "drain"
  BY DEF Evaluate, InWindow, askVars, Stop
<1>2. /\ r \in Records /\ TypeOK /\ TypeOK' /\ o \in Nat /\ cursor[p] \in Nat
      /\ Size[r] \in Nat
  BY <1>1, OffsetsAreNat, ScanAssumption DEF Records, EmitInv, ScanInv, TypeOK
<1>3. \A q \in seen : q[1] = p => q[2] < o
  <2> SUFFICES ASSUME NEW q \in seen, q[1] = p PROVE q[2] < o
    OBVIOUS
  <2>1. q[2] \in Nat /\ q[2] < cursor[p]
    BY <1>2, OffsetsAreNat DEF EmitInv, ScanInv, NoOverlap, TypeOK, Records
  <2>2. cursor[p] <= o
    BY <1>1
  <2> QED
    BY <1>2, <2>1, <2>2
<1>4. r \notin seen
  BY <1>2, <1>3
<1>5. items \in Seq(Records) /\ Len(items) \in Nat
  BY <1>2, LenProperties DEF TypeOK
<1>6. /\ Len(items') = Len(items) + (IF Says(r) = "match" THEN 1 ELSE 0)
      /\ \A i \in 1..Len(items) : items'[i] = items[i]
      /\ Says(r) = "match" => items'[Len(items) + 1] = r
  <2>1. CASE Says(r) = "match"
    <3>1. items' = Append(items, r)
      BY <1>1, <2>1
    <3> HIDE DEF r
    <3> QED
      BY <1>2, <1>5, <2>1, <3>1, AppendProperties
  <2>2. CASE Says(r) # "match"
    <3>1. items' = items
      BY <1>1, <2>2
    <3> QED
      BY <1>5, <2>2, <3>1
  <2> QED
    BY <2>1, <2>2
<1>7. Emitted' = Emitted \cup {q \in {r} : Says(q) = "match"}
  <2>1. \A q : q \in Emitted' <=> \E i \in 1..Len(items') : q = items'[i]
    BY DEF Emitted
  <2>2. \A q : q \in Emitted <=> \E i \in 1..Len(items) : q = items[i]
    BY DEF Emitted
  <2> HIDE DEF r
  <2>3. CASE Says(r) = "match"
    <3>1. 1..Len(items') = (1..Len(items)) \cup {Len(items) + 1}
      BY <1>5, <1>6, <2>3
    <3> QED
      BY <1>6, <2>1, <2>2, <2>3, <3>1
  <2>4. CASE Says(r) # "match"
    <3>1. 1..Len(items') = 1..Len(items)
      BY <1>5, <1>6, <2>4
    <3> QED
      BY <1>6, <2>1, <2>2, <2>4, <3>1
  <2> QED
    BY <2>3, <2>4
<1>8. Matches' = Matches \cup {q \in {r} : Says(q) = "match"}
  BY <1>1 DEF Matches, Says
<1>9. ItemsInv'
  <2>1. Emitted = Matches
    BY <1>1 DEF EmitInv, ItemsInv
  <2>2. Emitted' = Matches'
    BY <1>7, <1>8, <2>1
  <2>3. ASSUME NEW i \in 1..Len(items'), NEW j \in 1..Len(items'), i < j, items'[i][1] = items'[j][1]
        PROVE  items'[i][2] < items'[j][2]
    <3>1. i \in 1..Len(items) /\ i \in Nat /\ j \in Nat
      BY <1>5, <1>6, <2>3
    <3>2. CASE j \in 1..Len(items)
      BY <1>1, <1>6, <2>3, <3>1, <3>2 DEF EmitInv, ItemsInv
    <3>3. CASE j \notin 1..Len(items)
      <4>1. j = Len(items) + 1 /\ Says(r) = "match"
        BY <1>5, <1>6, <2>3, <3>3
      <4>2. items'[j] = r
        BY <1>6, <4>1
      <4>3. items[i] \in seen
        BY <2>1, <3>1 DEF Emitted, Matches
      <4> QED
        BY <1>3, <1>6, <2>3, <3>1, <4>2, <4>3
    <3> QED
      BY <3>2, <3>3
  <2>4. pc' # "done"
    BY <1>1
  <2> QED
    BY <2>2, <2>3, <2>4 DEF ItemsInv
<1>10. CountInv'
  <2>1. IsFiniteSet(seen') /\ Cardinality(seen') = Cardinality(seen) + 1
    BY <1>1, <1>4, FS_AddElement DEF EmitInv, CountInv
  <2>2. /\ acc'.scanned = acc.scanned + 1
        /\ acc'.matched = acc.matched + (IF Says(r) = "match" THEN 1 ELSE 0)
        /\ acc'.bytes = acc.bytes + Size[r]
    BY <1>1 DEF Counted
  <2>3. /\ acc.scanned \in Nat /\ acc.matched \in Nat /\ acc.bytes \in Nat
        /\ bounds.latest \in BOOLEAN
        /\ bounds.maxMessages \in Nat /\ bounds.maxScanned \in Nat /\ bounds.maxBytes \in Nat
    BY <1>2, BoundType DEF TypeOK
  <2>4. acc'.matched = Len(items')
    BY <1>6, <2>2 DEF EmitInv, CountInv
  <2>5. /\ bounds.maxMessages > 0 /\ ~ bounds.latest => Len(items') <= bounds.maxMessages
        /\ bounds.maxScanned > 0 => acc'.scanned <= bounds.maxScanned
        /\ bounds.maxBytes > 0 => acc'.bytes < bounds.maxBytes + Size[r]
    <3>1. /\ bounds.maxMessages > 0 /\ ~ bounds.latest => Len(items) < bounds.maxMessages
          /\ bounds.maxScanned > 0 => acc.scanned < bounds.maxScanned
          /\ bounds.maxBytes > 0 => acc.bytes < bounds.maxBytes
      BY <1>1 DEF EmitInv, CountInv, Running
    <3>2. acc'.bytes = acc.bytes + Size[r] /\ Size[r] \in Nat
      BY <1>2, <2>2
    <3> HIDE DEF r
    <3>3. Len(items') <= Len(items) + 1 /\ Len(items') \in Nat
      BY <1>5, <1>6
    <3>4. bounds.maxMessages > 0 /\ ~ bounds.latest => Len(items') <= bounds.maxMessages
      BY <1>5, <2>3, <3>1, <3>3
    <3>5. bounds.maxScanned > 0 => acc'.scanned <= bounds.maxScanned
      BY <2>2, <2>3, <3>1
    <3>6. bounds.maxBytes > 0 => acc'.bytes < bounds.maxBytes + Size[r]
      BY <2>3, <3>1, <3>2
    <3> QED
      BY <3>4, <3>5, <3>6
  <2>6. ASSUME pc' = "evaluate"
        PROVE  /\ bounds.maxMessages > 0 /\ ~ bounds.latest => Len(items') < bounds.maxMessages
               /\ bounds.maxScanned > 0 => acc'.scanned < bounds.maxScanned
               /\ bounds.maxBytes > 0 => acc'.bytes < bounds.maxBytes
    <3>1. HitBound(acc') = ""
      BY <1>1, <2>6
    <3>2. /\ ~ (~ bounds.latest /\ Reached(bounds.maxMessages, acc'.matched))
          /\ ~ Reached(bounds.maxScanned, acc'.scanned)
          /\ ~ Reached(bounds.maxBytes, acc'.bytes)
      BY <1>1, <3>1 DEF HitBound
    <3>3. acc'.scanned \in Nat /\ acc'.matched \in Nat /\ acc'.bytes \in Nat
      BY <1>2 DEF TypeOK
    <3> QED
      BY <2>3, <2>4, <3>2, <3>3 DEF Reached
  <2>7. /\ acc'.scanned = Cardinality(seen') /\ UNCHANGED bounds
        /\ pc' \in {"assign"} \cup Running => pc' = "evaluate"
    BY <1>1, <2>1, <2>2 DEF EmitInv, CountInv, Running
  <2> QED
    BY <1>2, <2>1, <2>4, <2>5, <2>6, <2>7 DEF CountInv
<1> QED
  BY <1>9, <1>10 DEF EmitInv
(* A set that is listed without repetition has as many members as the list *)
(* has places.                                                             *)
LEMMA CountListed ==
    ASSUME NEW n \in Nat, NEW T, NEW f \in [1..n -> T],
           \A i, j \in 1..n : i < j => f[i] # f[j],
           \A t \in T : \E i \in 1..n : f[i] = t
    PROVE  IsFiniteSet(T) /\ Cardinality(T) = n
<1>1. \A i, j \in 1..n : f[i] = f[j] => i = j
  OBVIOUS
<1>2. f \in Bijection(1..n, T)
  BY <1>1 DEF Bijection, Injection, Surjection, IsInjective
<1>3. IsFiniteSet(1..n) /\ Cardinality(1..n) = n
  BY FS_Interval
<1>4. ExistsBijection(1..n, T)
  BY <1>2 DEF ExistsBijection
<1> QED
  BY <1>3, <1>4, FS_Bijection

(* Unless latest has truncated them, there are as many items as emitted.   *)
LEMMA EmittedCount ==
    ASSUME EmitInv, ~ (bounds.latest /\ pc = "done")
    PROVE  IsFiniteSet(Emitted) /\ Cardinality(Emitted) = Len(items)
<1>1. items \in Seq(Records) /\ Len(items) \in Nat
  BY ItemsType DEF EmitInv, ScanInv, TypeOK
<1>2. items \in [1..Len(items) -> Emitted]
  BY <1>1, LenProperties DEF Emitted
<1>3. \A i, j \in 1..Len(items) : i < j => items[i] # items[j]
  BY ItemsDistinct
<1>4. \A r \in Emitted : \E i \in 1..Len(items) : items[i] = r
  BY DEF Emitted
<1> QED
  BY <1>1, <1>2, <1>3, <1>4, CountListed

(* What latest keeps, when it has sorted and truncated.                    *)
LEMMA EmitDrain ==
    ASSUME EmitInv, ScanInv', Drain
    PROVE  EmitInv'
<1>1. /\ pc = "drain" /\ pc' = "done" /\ UNCHANGED <<bounds, seen>>
      /\ TypeOK /\ TypeOK'
      /\ Matches' = Matches /\ Emitted = Matches
  BY DEF Drain, EmitInv, ScanInv, askVars, ItemsInv, Matches, Says
<1>2. /\ Len(items) \in Nat /\ bounds.maxMessages \in Nat /\ bounds.latest \in BOOLEAN
      /\ Emitted \subseteq Records
  BY <1>1, ItemsType, BoundType
<1>3. CASE ~ bounds.latest
  <2>1. UNCHANGED <<items, acc>>
    BY <1>3 DEF Drain
  <2>2. Emitted' = Emitted
    BY <2>1 DEF Emitted
  <2>3. ItemsInv'
    BY <1>1, <1>3, <2>1, <2>2 DEF EmitInv, ItemsInv
  <2>4. CountInv'
    BY <1>1, <2>1 DEF EmitInv, CountInv, Running
  <2> QED
    BY <2>3, <2>4 DEF EmitInv
<1>4. CASE bounds.latest
  <2>1. PICK s \in [1..Kept -> Emitted] : Newest(s) /\ items' = s /\ acc' = [acc EXCEPT !.matched = Kept]
    BY <1>4 DEF Drain
  <2>2. /\ Kept \in Nat
        /\ bounds.maxMessages > 0 => Kept <= bounds.maxMessages
        /\ Kept = Len(items) \/ Kept = bounds.maxMessages
    BY <1>2 DEF Kept, Reached
  <2>3. Len(items') = Kept
    <3>1. items' \in Seq(Records)
      BY <1>1 DEF TypeOK
    <3>2. Len(items') \in Nat /\ DOMAIN items' = 1..Len(items')
      BY <3>1, LenProperties
    <3>3. 1..Kept = 1..Len(items')
      BY <2>1, <3>2
    <3>4. Kept <= Len(items')
      <4>1. Kept = 0 \/ Kept \in 1..Kept
        BY <2>2
      <4> QED
        BY <3>2, <3>3, <4>1
    <3>5. Len(items') <= Kept
      <4>1. Len(items') = 0 \/ Len(items') \in 1..Len(items')
        BY <3>2
      <4> QED
        BY <2>2, <3>3, <4>1
    <3>6. \A m, n \in Nat : m <= n /\ n <= m => n = m
      OBVIOUS
    <3>7. Kept \in Nat /\ Len(items') \in Nat
      BY <2>2, <3>2
    <3> QED
      BY <3>4, <3>5, <3>6, <3>7
  <2>4. Emitted' = {s[i] : i \in 1..Kept}
    BY <2>1, <2>3 DEF Emitted
  <2>5. \A i, j \in 1..Kept : i < j => s[i] # s[j] /\ Time[s[i]] >= Time[s[j]]
    <3>1. Len(s) = Kept
      BY <2>1, <2>3
    <3> QED
      BY <2>1, <3>1 DEF Newest
  <2>6. \A r \in Emitted \ Emitted' : \A i \in 1..Kept : Time[s[i]] >= Time[r]
    <3>1. Len(s) = Kept
      BY <2>1, <2>3
    <3> QED
      BY <2>1, <2>4, <3>1 DEF Newest
  <2>7. IsFiniteSet(Emitted') /\ Cardinality(Emitted') = Kept /\ Emitted' \subseteq Emitted
    <3>1. \A i, j \in 1..Kept : i < j => s[i] # s[j]
      BY <2>5
    <3>2. s \in [1..Kept -> Emitted'] /\ \A t \in Emitted' : \E i \in 1..Kept : s[i] = t
      BY <2>1, <2>4
    <3>3. IsFiniteSet(Emitted') /\ Cardinality(Emitted') = Kept
      BY <2>2, <3>1, <3>2, CountListed
    <3> QED
      BY <2>1, <2>4, <3>3
  <2>8. IsFiniteSet(Emitted) /\ Cardinality(Emitted) = Len(items)
    BY <1>1, EmittedCount
  <2>9. ItemsInv'
    <3>1. Emitted' \subseteq Matches'
      BY <1>1, <2>7
    <3>2. ASSUME NEW r \in Matches' \ Emitted'
          PROVE  Len(items') = bounds'.maxMessages /\ \A q \in Emitted' : Time[q] >= Time[r]
      <4>1. Kept # Len(items)
        <5>1. Emitted' # Emitted
          BY <1>1, <3>2
        <5> QED
          BY <2>7, <2>8, <5>1, FS_Subset
      <4> QED
        BY <1>1, <2>2, <2>3, <2>4, <2>6, <3>2, <4>1
    <3> QED
      BY <1>1, <1>4, <2>2, <2>3, <2>7, <3>1, <3>2 DEF ItemsInv
  <2>10. CountInv'
    <3>1. acc'.matched = Kept /\ acc'.scanned = acc.scanned /\ acc'.bytes = acc.bytes
      BY <1>1, <2>1 DEF TypeOK
    <3> QED
      BY <1>1, <1>4, <2>3, <3>1 DEF EmitInv, CountInv, Running
  <2> QED
    BY <2>9, <2>10 DEF EmitInv
<1> QED
  BY <1>2, <1>3, <1>4

(* Every step keeps it.                                                    *)
LEMMA EmitStep == EmitInv /\ [Next]_vars => EmitInv'
<1> SUFFICES ASSUME EmitInv, [Next]_vars PROVE EmitInv'
  OBVIOUS
<1>1. ScanInv'
  BY ScanStep DEF EmitInv
<1>2. CASE NothingInScope
  <2>1. seen = {}
    BY <1>2 DEF NothingInScope, EmitInv, ScanInv, NoOverlap
  <2> QED
    BY <1>1, <1>2, <2>1, EmitQuiet DEF NothingInScope, askVars
<1>3. CASE Assign \/ AssignFails \/ Exhausted \/ Continue
  BY <1>1, <1>3, EmitQuiet DEF Assign, AssignFails, Exhausted, Continue, Stop, askVars, Running
<1>4. CASE Poll \/ PollNothing \/ PollFails \/ BatchDone
  BY <1>1, <1>4, EmitQuiet DEF Poll, PollNothing, PollFails, BatchDone, Stop, askVars, Running
<1>5. CASE Expire
  BY <1>1, <1>5, EmitQuiet DEF Expire, askVars, runVars
<1>6. CASE Topic
  BY <1>1, <1>6, EmitQuiet DEF Topic, Append1, Mark, Remove, askVars, runVars
<1>7. ASSUME NEW p \in Partitions, NEW o \in Offsets, Ignore(p, o) PROVE EmitInv'
  BY <1>1, <1>7, EmitQuiet DEF Ignore, askVars
<1>8. CASE UNCHANGED vars
  BY <1>1, <1>8, EmitQuiet DEF vars
<1> QED
  BY <1>1, <1>2, <1>3, <1>4, <1>5, <1>6, <1>7, <1>8, EmitEvaluate, EmitDrain DEF Next, Step

(* What has been evaluated, counted and emitted agree, whatever happens to *)
(* the topic meanwhile.                                                    *)
THEOREM EmitInvariance == Spec => []EmitInv
BY InitReady, EmitInit, EmitStep, PTL DEF Spec

(* The items of a scan are the matches among the records it evaluated, each *)
(* once, in offset order within a partition; latest keeps some of them.    *)
THEOREM ItemsAreMatches == Spec => []ItemsAreTheMatches
<1>1. EmitInv => ItemsAreTheMatches
  <2> SUFFICES ASSUME EmitInv PROVE ItemsAreTheMatches
    OBVIOUS
  <2>1. Matches = {r \in seen : Says(r) = "match"}
    BY DEF Matches
  <2> QED
    BY <2>1 DEF EmitInv, ItemsInv, ItemsAreTheMatches
<1> QED
  BY <1>1, EmitInvariance, PTL

(* No bound is overrun, and the statistics agree with what was evaluated   *)
(* and emitted.                                                            *)
THEOREM BoundsRespected == Spec => []BoundsHold
<1>1. EmitInv => BoundsHold
  <2> SUFFICES ASSUME EmitInv PROVE BoundsHold
    OBVIOUS
  <2>1. bounds.maxMessages > 0 /\ (~ bounds.latest \/ pc = "done") => Len(items) <= bounds.maxMessages
    BY BoundType DEF EmitInv, ScanInv, ItemsInv, CountInv
  <2> QED
    BY <2>1 DEF EmitInv, CountInv, BoundsHold
<1> QED
  BY <1>1, EmitInvariance, PTL

(* latest returns the newest matches of its windows, if it got through     *)
(* them.                                                                   *)
THEOREM LatestReturnsNewest == Spec => []LatestIsNewest
<1>1. EmitInv => LatestIsNewest
  <2> SUFFICES ASSUME EmitInv, pc = "done", bounds.latest, stop.reachedEnd,
                      NEW p \in Scope, NEW o \in live[p],
                      window[p].start <= o, o < window[p].end,
                      Says(<<p, o>>) = "match", <<p, o>> \notin Emitted
               PROVE  /\ Len(items) = bounds.maxMessages
                      /\ \A r \in Emitted : Time[r] >= Time[<<p, o>>]
    BY DEF LatestIsNewest
  <2>1. WindowsExhausted
    BY DEF EmitInv, ScanInv, StopInv
  <2>2. <<p, o>> \in seen
    <3>1. /\ cursor[p] \in Nat /\ window[p].end \in Nat /\ o \in Nat
      BY ScopeType, OffsetsAreNat DEF EmitInv, ScanInv, TypeOK, Window
    <3>2. o < cursor[p]
      BY <2>1, <3>1 DEF WindowsExhausted
    <3> QED
      BY <3>2 DEF EmitInv, ScanInv, NoGap
  <2> QED
    BY <2>2 DEF EmitInv, ItemsInv, Matches
<1> QED
  BY <1>1, EmitInvariance, PTL
=============================================================================
