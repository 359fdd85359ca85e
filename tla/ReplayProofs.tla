---------------------------- MODULE ReplayProofs ----------------------------
(***************************************************************************)
(* What a loop of replays copies, for any source, windows and limits, any  *)
(* number of calls, and whatever fails or is lost on the way.              *)
(***************************************************************************)
EXTENDS Replay, ScanProofs

(* The acknowledgements of a batch, and what they say of the target.       *)
AcksInv ==
    /\ acks \in [1..Len(items) -> BOOLEAN]
    /\ pc = "done"
    /\ \E place \in Placements : \E good \in SUBSET target : \E order \in Orders(place, good) :
           \A k \in 1..Len(items) : acks[k] <=> items[order[k]] \in good

(* The inductive invariant of the loop: a call reads from where the        *)
(* partition is to be continued, which never lies beyond the log's end.    *)
ReplayInv ==
    /\ EmitInv /\ bounds \in Bounds
    /\ step \in {"scan", "acked", "replied"}
    /\ todo \in [Partitions -> Nat]
    /\ \A p \in Partitions : todo[p] = begun[p] \/ todo[p] <= hw[p]
    /\ step # "replied" => \A p \in Scope : window[p].start = todo[p]
    /\ step = "acked" => AcksInv
    /\ EndIsCopied

-----------------------------------------------------------------------------
(* A replay matches every record, so what it has read it has emitted.      *)
LEMMA AllEmitted ==
    ASSUME EmitInv, bounds \in Bounds, ~ bounds.latest
    PROVE  Emitted = seen
<1>1. \A r \in seen : r \in Records /\ bounds \in Bounds
  BY DEF EmitInv, ScanInv, TypeOK
<1>2. \A r \in seen : Says(r) = "match"
  BY <1>1, ReplayAssumption DEF Says
<1> QED
  BY <1>2 DEF EmitInv, ItemsInv, Matches

(* A scan that reached its end has emitted all its windows hold.           *)
LEMMA EndEmitted ==
    ASSUME EmitInv, bounds \in Bounds, ~ bounds.latest, pc = "done", stop.reachedEnd,
           NEW p \in Scope, NEW o \in live[p], window[p].start <= o, o < window[p].end
    PROVE  <<p, o>> \in Emitted
<1>1. WindowsExhausted
  BY DEF EmitInv, ScanInv, StopInv
<1>2. /\ cursor[p] \in Nat /\ window[p].end \in Nat /\ o \in Nat
  BY ScopeType, OffsetsAreNat DEF EmitInv, ScanInv, TypeOK, Window
<1>3. o < cursor[p]
  BY <1>1, <1>2 DEF WindowsExhausted
<1> QED
  BY <1>3, AllEmitted DEF EmitInv, ScanInv, NoGap

(* Copied counts the results before the first that failed.                 *)
LEMMA CopiedIsPrefix ==
    ASSUME NEW n \in Nat, acks \in [1..n -> BOOLEAN], Len(acks) = n
    PROVE  Copied \in 0..n /\ \A i \in 1..Copied : acks[i]
<1> DEFINE bad == {i \in 1..n : ~ acks[i]}
           Fits(k) == /\ \A i \in 1..k : acks[i]
                      /\ k < n => ~ acks[k + 1]
<1>1. \E k \in 0..n : Fits(k)
  <2>1. CASE bad = {}
    <3>1. Fits(n)
      BY <2>1
    <3> QED
      BY <3>1
  <2>2. CASE bad # {}
    <3>1. PICK m \in bad : \A i \in bad : m <= i
      <4>1. bad \subseteq Nat
        OBVIOUS
      <4> HIDE DEF bad
      <4> QED
        BY <2>2, <4>1, Least
    <3>2. m - 1 \in 0..n /\ m \in 1..n /\ ~ acks[m]
      OBVIOUS
    <3>3. \A i \in 1..(m - 1) : acks[i]
      BY <3>1, <3>2
    <3>4. Fits(m - 1)
      BY <3>2, <3>3
    <3> QED
      BY <3>2, <3>4
  <2> QED
    BY <2>1, <2>2
<1>2. Copied = CHOOSE k \in 0..n : Fits(k)
  BY DEF Copied
<1>3. Copied \in 0..n /\ Fits(Copied)
  <2> HIDE DEF Fits
  <2> QED
    BY <1>1, <1>2
<1> QED
  BY <1>3

(* The offset a partition is continued from follows its last copy.         *)
LEMMA CursorAfterLast ==
    ASSUME EmitInv, NEW n \in 0..Len(items), NEW p \in Scope
    PROVE  \/ CursorAfter(n)[p] = window[p].start
           \/ \E k \in 1..n : /\ items[k][1] = p
                              /\ CursorAfter(n)[p] = items[k][2] + 1
<1> DEFINE copies == {i \in 1..n : items[i][1] = p}
           last == CHOOSE i \in copies : \A j \in copies : j <= i
<1>1. CursorAfter(n)[p] = IF copies = {} THEN window[p].start ELSE items[last][2] + 1
  BY DEF CursorAfter
<1>2. CASE copies = {}
  BY <1>1, <1>2
<1>3. CASE copies # {}
  <2>1. n \in Nat /\ copies \subseteq 0..n
    BY ItemsType DEF EmitInv, ScanInv
  <2>2. \E i \in copies : \A j \in copies : j <= i
    <3> HIDE DEF copies
    <3> QED
      BY <1>3, <2>1, Greatest
  <2>3. last \in copies
    <3> HIDE DEF copies
    <3> QED
      BY <2>2
  <2> QED
    BY <1>1, <1>3, <2>3
<1> QED
  BY <1>2, <1>3

(* It lies within the log.                                                 *)
LEMMA CursorAfterType ==
    ASSUME EmitInv, NEW n \in 0..Len(items), NEW p \in Scope
    PROVE  /\ CursorAfter(n)[p] \in Nat
           /\ CursorAfter(n)[p] = window[p].start \/ CursorAfter(n)[p] <= hw[p]
<1>1. /\ window[p].start \in Nat /\ window[p].end \in Nat /\ window[p].end <= hw[p] /\ hw[p] \in Nat
      /\ Len(items) \in Nat
  BY ScopeType, ItemsType, OffsetsAreNat DEF EmitInv, ScanInv, TypeOK, Window, CursorInv
<1>2. CASE CursorAfter(n)[p] = window[p].start
  BY <1>1, <1>2
<1>3. ASSUME NEW k \in 1..n, items[k][1] = p, CursorAfter(n)[p] = items[k][2] + 1
      PROVE  CursorAfter(n)[p] \in Nat /\ CursorAfter(n)[p] <= hw[p]
  <2>1. items[k] \in seen /\ items[k] \in Records
    <3>1. k \in 1..Len(items)
      BY <1>1
    <3>2. items[k] \in Emitted /\ items[k] \in Records
      BY <3>1, ItemsType DEF EmitInv, ScanInv
    <3>3. Emitted \subseteq Matches
      BY DEF EmitInv, ItemsInv
    <3> QED
      BY <3>2, <3>3 DEF Matches
  <2>2. items[k][2] \in Nat /\ items[k][2] < window[p].end
    BY <1>3, <2>1, OffsetsAreNat DEF EmitInv, ScanInv, NoOverlap, Records
  <2> QED
    BY <1>1, <1>3, <2>2
<1> QED
  BY <1>2, <1>3, CursorAfterLast

(* What lies before it has been copied, if the first n records have been.  *)
LEMMA PrefixCovers ==
    ASSUME EmitInv, bounds \in Bounds, ~ bounds.latest, NEW n \in 0..Len(items), \A i \in 1..n : items[i] \in target,
           NEW p \in Scope, NEW o \in live[p],
           window[p].start <= o, o < CursorAfter(n)[p]
    PROVE  <<p, o>> \in target
<1>1. /\ window[p].start \in Nat /\ cursor[p] \in Nat /\ o \in Nat /\ Len(items) \in Nat
  BY ScopeType, ItemsType, OffsetsAreNat DEF EmitInv, ScanInv, TypeOK, Window
<1>2. PICK k \in 1..n : items[k][1] = p /\ CursorAfter(n)[p] = items[k][2] + 1
  BY <1>1, CursorAfterLast
<1>3. k \in 1..Len(items) /\ items[k] \in seen /\ items[k] \in Records
  BY <1>1, ItemsType, AllEmitted DEF EmitInv, ScanInv
<1>4. items[k][2] \in Nat /\ items[k][2] < cursor[p]
  BY <1>2, <1>3, OffsetsAreNat DEF EmitInv, ScanInv, NoOverlap, Records
<1>5. o <= items[k][2] /\ o < cursor[p]
  BY <1>1, <1>2, <1>4
<1>6. <<p, o>> \in Emitted
  BY <1>5, AllEmitted DEF EmitInv, ScanInv, NoGap
<1>7. PICK j \in 1..Len(items) : items[j] = <<p, o>>
  BY <1>6 DEF Emitted
<1>8. CASE j > k
  <2>1. items[k][2] < items[j][2]
    BY <1>1, <1>2, <1>3, <1>7, <1>8 DEF EmitInv, ItemsInv
  <2> QED
    BY <1>1, <1>4, <1>5, <1>7, <2>1
<1>9. CASE ~ (j > k)
  <2>1. j \in 1..n
    BY <1>1, <1>9
  <2> QED
    BY <1>7, <2>1
<1> QED
  BY <1>8, <1>9

-----------------------------------------------------------------------------
(* Others only append to the log, at its end, or remove from it.           *)
LEMMA LogGrows ==
    ASSUME EmitInv, [Next]_vars, NEW p \in Partitions
    PROVE  /\ hw[p] \in Nat /\ hw[p] <= hw'[p]
           /\ \A o \in live'[p] : o \in live[p] \/ o = hw[p]
<1>0. hw \in [Partitions -> 0..MaxOffset] /\ hw[p] \in Nat /\ live \in [Partitions -> SUBSET Offsets]
  BY OffsetsAreNat DEF EmitInv, ScanInv, TypeOK
<1>1. CASE UNCHANGED <<live, hw>>
  BY <1>0, <1>1
<1>2. ASSUME NEW q \in Partitions, Append1(q)
      PROVE  hw[p] <= hw'[p] /\ \A o \in live'[p] : o \in live[p] \/ o = hw[p]
  <2>1. CASE p = q
    BY <1>0, <1>2, <2>1 DEF Append1
  <2>2. CASE p # q
    BY <1>0, <1>2, <2>2 DEF Append1
  <2> QED
    BY <2>1, <2>2
<1>3. ASSUME NEW q \in Partitions, Mark(q)
      PROVE  hw[p] <= hw'[p] /\ \A o \in live'[p] : o \in live[p] \/ o = hw[p]
  BY <1>0, <1>3 DEF Mark
<1>4. ASSUME NEW q \in Partitions, Remove(q)
      PROVE  hw[p] <= hw'[p] /\ \A o \in live'[p] : o \in live[p] \/ o = hw[p]
  BY <1>0, <1>4 DEF Remove
<1>5. CASE Step
  <2>1. UNCHANGED <<live, hw>>
    BY <1>5 DEF Step, NothingInScope, Assign, AssignFails, Exhausted, Continue, Poll, PollNothing,
         PollFails, Ignore, Evaluate, BatchDone, Drain, logVars
  <2> QED
    BY <2>1, <1>1
<1>6. CASE Expire \/ UNCHANGED vars
  BY <1>1, <1>6 DEF Expire, logVars, vars
<1> QED
  BY <1>0, <1>2, <1>3, <1>4, <1>5, <1>6 DEF Next, Topic

(* The invariant holds at the start.                                       *)
LEMMA ReplayInitial == ReplayInit => ReplayInv
<1> SUFFICES ASSUME ReplayInit PROVE ReplayInv
  OBVIOUS
<1>1. EmitInv
  BY InitReady, EmitInit DEF ReplayInit
<1>2. Scope \subseteq Partitions /\ window \in [Scope -> Window]
  BY <1>1, ScopeType DEF EmitInv, ScanInv
<1>3. todo \in [Partitions -> Nat] /\ todo = begun /\ \A p \in Scope : window[p].start = todo[p]
  BY <1>2 DEF ReplayInit, Window
<1>4. step = "scan" /\ EndIsCopied
  BY DEF ReplayInit, EndIsCopied
<1> QED
  BY <1>1, <1>3, <1>4 DEF ReplayInv, ReplayInit, Init

(* A scanning call.                                                        *)
LEMMA ScanningStep == ReplayInv /\ Scanning => ReplayInv'
<1> SUFFICES ASSUME ReplayInv, Scanning PROVE ReplayInv'
  OBVIOUS
<1>1. EmitInv'
  BY EmitStep DEF ReplayInv, Scanning
<1>2. step = "scan" /\ step' = "scan" /\ UNCHANGED <<todo, begun>>
  BY DEF Scanning, replayVars
<1>3. UNCHANGED <<window, bounds>>
  BY DEF Scanning, Next, Step, Expire, Topic, NothingInScope, Assign, AssignFails, Exhausted, Continue,
     Poll, PollNothing, PollFails, Ignore, Evaluate, BatchDone, Drain, Append1, Mark, Remove, askVars
<1>4. \A p \in Partitions : hw[p] \in Nat /\ hw'[p] \in Nat /\ hw[p] <= hw'[p] /\ todo[p] \in Nat
  BY <1>1, LogGrows, OffsetsAreNat DEF ReplayInv, Scanning, EmitInv, ScanInv, TypeOK
<1>5. \A p \in Partitions : todo'[p] = begun'[p] \/ todo'[p] <= hw'[p]
  BY <1>2, <1>4 DEF ReplayInv
<1>6. EndIsCopied'
  BY <1>2 DEF EndIsCopied
<1> QED
  BY <1>1, <1>2, <1>3, <1>5, <1>6 DEF ReplayInv, Scope

(* A step that leaves the scan as it is.                                   *)
LEMMA ScanStays ==
    ASSUME EmitInv, UNCHANGED vars
    PROVE  EmitInv' /\ Scope' = Scope /\ Emitted' = Emitted
<1>1. EmitInv'
  BY EmitStep
<1> QED
  BY <1>1 DEF vars, Scope, Emitted

(* A call that ends, with what it says of where to continue.               *)
LEMMA EndingStep ==
    ASSUME ReplayInv, UNCHANGED <<vars, begun>>, step' = "replied", EndIsCopied',
           todo' \in [Partitions -> Nat],
           \A p \in Partitions : todo'[p] = todo[p] \/ todo'[p] <= hw[p]
    PROVE  ReplayInv'
<1>1. EmitInv' /\ hw' = hw
  BY ScanStays DEF ReplayInv, vars
<1>2. \A p \in Partitions : todo'[p] = begun'[p] \/ todo'[p] <= hw'[p]
  BY <1>1 DEF ReplayInv
<1> QED
  BY <1>1, <1>2 DEF ReplayInv, vars

(* The next call starts a scan from where the partition is to be continued. *)
LEMMA AgainStep ==
    ASSUME ReplayInv, NEW p \in Partitions, Again(p)
    PROVE  ReplayInv'
<1>0. /\ EmitInv /\ TypeOK /\ todo \in [Partitions -> Nat] /\ hw[p] \in Nat /\ bounds \in Bounds
  BY OffsetsAreNat DEF ReplayInv, EmitInv, ScanInv, TypeOK
<1>1. /\ UNCHANGED <<live, hw, todo, begun>> /\ step' = "scan"
      /\ window' = [q \in {p} |-> [start |-> todo[p], end |-> hw[p]]]
      /\ bounds' = [bounds EXCEPT !.latest = FALSE]
  BY DEF Again, logVars
<1>2. Scope' = {p} /\ window'[p] = [start |-> todo[p], end |-> hw[p]]
  BY <1>1 DEF Scope
<1>3. bounds' \in Bounds
  BY <1>0, <1>1, ReplayAssumption
<1>4. window' \in [Scope' -> Window]
  BY <1>0, <1>1, <1>2 DEF Window
<1>5. Started(window)'
  <2>1. cursor' = [q \in {p} |-> todo[p]] /\ DOMAIN window' = {p}
    BY <1>1 DEF Again
  <2>2. cursor' = [q \in DOMAIN window' |-> window'[q].start]
    BY <1>1, <2>1
  <2> QED
    BY <2>2 DEF Again, Started
<1>6. Ready'
  BY <1>0, <1>1, <1>2, <1>3, <1>4, <1>5, ScanAssumption DEF Ready, TypeOK
<1>7. EmitInv'
  BY <1>6, EmitInit, PTL
<1>8. EndIsCopied'
  BY <1>1 DEF EndIsCopied
<1> QED
  BY <1>1, <1>2, <1>3, <1>7, <1>8 DEF ReplayInv

(* The batch is produced.                                                  *)
LEMMA ProduceStep == ReplayInv /\ Produce => ReplayInv'
<1> SUFFICES ASSUME ReplayInv, Produce PROVE ReplayInv'
  OBVIOUS
<1>1. EmitInv' /\ Scope' = Scope /\ Emitted' = Emitted
  BY ScanStays DEF ReplayInv, Produce
<1>2. step = "scan" /\ step' = "acked" /\ pc = "done" /\ UNCHANGED <<vars, todo, begun>>
  BY DEF Produce
<1>3. EndIsCopied'
  BY <1>2 DEF EndIsCopied
<1>4. AcksInv'
  <2>0. PICK written \in SUBSET Emitted : \E good \in SUBSET written :
            \E place \in Placements : \E order \in Orders(place, good) :
                /\ target' = target \cup written
                /\ acks' = [k \in 1..Len(items) |-> items[order[k]] \in good]
    BY DEF Produce
  <2>1. PICK good \in SUBSET written, place \in Placements : \E order \in Orders(place, good) :
            /\ target' = target \cup written
            /\ acks' = [k \in 1..Len(items) |-> items[order[k]] \in good]
    BY <2>0
  <2>2. PICK order \in Orders(place, good) :
            /\ target' = target \cup written
            /\ acks' = [k \in 1..Len(items) |-> items[order[k]] \in good]
    BY <2>1
  <2>3. items' = items /\ pc' = "done" /\ UNCHANGED targets
    BY <1>2 DEF vars, Produce
  <2>4. Placements' = Placements /\ Orders(place, good)' = Orders(place, good)
    BY <1>1, <2>3 DEF Placements, Orders
  <2>5. acks' \in [1..Len(items') -> BOOLEAN]
    BY <2>2, <2>3
  <2>6. good \in SUBSET target' /\ \A k \in 1..Len(items') : acks'[k] <=> items'[order[k]] \in good
    BY <2>2, <2>3
  <2> QED
    BY <2>3, <2>4, <2>5, <2>6 DEF AcksInv
<1> QED
  BY <1>1, <1>2, <1>3, <1>4 DEF ReplayInv, vars

(* The results of a batch are as many as its records.                      *)
LEMMA AcksLength ==
    ASSUME EmitInv, AcksInv
    PROVE  Len(acks) = Len(items) /\ Len(items) \in Nat
<1>1. Len(items) \in Nat
  BY ItemsType DEF EmitInv, ScanInv
<1>2. acks \in [1..Len(items) -> BOOLEAN]
  BY DEF AcksInv
<1>3. acks \in Seq(BOOLEAN)
  BY <1>1, <1>2, SeqDef
<1>4. 1..Len(acks) = 1..Len(items) /\ Len(acks) \in Nat
  BY <1>2, <1>3, LenProperties
<1> QED
  BY <1>1, <1>4

(* When all are good, all the records have a copy, whatever the order in   *)
(* which the results came.                                                 *)
LEMMA AllGood ==
    ASSUME EmitInv, AcksInv, ~ bounds.latest, \A i \in 1..Len(items) : acks[i]
    PROVE  Emitted \subseteq target
<1>0. Len(items) \in Nat /\ \A i \in 1..Len(items) : items[i] \in Emitted
  BY ItemsType DEF EmitInv, ScanInv
<1>1. PICK place \in Placements, good \in SUBSET target :
          \E order \in Orders(place, good) : \A k \in 1..Len(items) : acks[k] <=> items[order[k]] \in good
  BY DEF AcksInv
<1>2. \A i \in 1..Len(items) : items[i] \in target
  <2>1. PICK order \in Orders(place, good) : \A k \in 1..Len(items) : acks[k] <=> items[order[k]] \in good
    BY <1>1
  <2>2. \A i \in 1..Len(items) : \E k \in 1..Len(items) : order[k] = i
    BY DEF Orders
  <2> QED
    BY <2>1, <2>2
<1> QED
  BY <1>0, <1>2 DEF Emitted

(* An increasing sequence of positive numbers does not fall behind.        *)
LEMMA Increasing ==
    ASSUME NEW n \in Nat, NEW c \in 0..n, NEW f \in [1..n -> 1..n],
           \A k, l \in 1..c : k < l => f[k] < f[l]
    PROVE  \A k \in 1..c : k <= f[k]
<1> DEFINE behind == {k \in 1..c : f[k] < k}
<1>1. \A k \in 1..c : f[k] \in 1..n
  OBVIOUS
<1>2. ASSUME behind # {} PROVE FALSE
  <2>1. PICK m \in behind : \A k \in behind : m <= k
    <3>1. behind \subseteq Nat
      OBVIOUS
    <3> HIDE DEF behind
    <3> QED
      BY <1>2, <3>1, Least
  <2>2. m \in 1..c /\ f[m] < m /\ f[m] \in 1..n
    BY <1>1
  <2>3. m - 1 \in 1..c /\ m - 1 < m
    BY <2>2
  <2>4. f[m - 1] \in 1..n /\ ~ (f[m - 1] < m - 1)
    BY <1>1, <2>1, <2>2, <2>3
  <2>5. f[m - 1] < f[m]
    BY <2>2, <2>3
  <2> QED
    BY <2>2, <2>4, <2>5
<1> QED
  BY <1>1, <1>2

(* With one target partition, the results before the first that failed are *)
(* those of the first records.                                             *)
LEMMA PrefixGood ==
    ASSUME EmitInv, AcksInv, OneTarget, NEW c \in 0..Len(items), \A k \in 1..c : acks[k]
    PROVE  \A i \in 1..c : items[i] \in target
<1> DEFINE n == Len(items)
<1>0. n \in Nat /\ c \in 0..n /\ \A i \in 1..n : items[i] \in Emitted
  BY ItemsType DEF EmitInv, ScanInv
<1>p. PICK place \in Placements, good \in SUBSET target :
          \E order \in Orders(place, good) : \A k \in 1..n : acks[k] <=> items[order[k]] \in good
  BY DEF AcksInv
<1>1. PICK order \in Orders(place, good) : \A k \in 1..n : acks[k] <=> items[order[k]] \in good
  BY <1>p
<1>2. /\ order \in [1..n -> 1..n]
      /\ \A i \in 1..n : \E k \in 1..n : order[k] = i
      /\ \A k, l \in 1..n : /\ k < l
                            /\ items[order[k]] \in good
                            /\ place[items[order[k]]] = place[items[order[l]]]
                            => order[k] < order[l]
  BY DEF Orders
<1>3. \A k, l \in 1..n : place[items[order[k]]] = place[items[order[l]]]
  BY <1>0, <1>2 DEF Placements, OneTarget
<1>4. \A k \in 1..c : k \in 1..n /\ items[order[k]] \in good
  BY <1>0, <1>1
<1>5. \A k, l \in 1..n : k < l /\ k \in 1..c => order[k] < order[l]
  BY <1>2, <1>3, <1>4
<1>6. \A k \in 1..c : k <= order[k]
  <2>1. \A k, l \in 1..c : k < l => order[k] < order[l]
    BY <1>4, <1>5
  <2> HIDE DEF n
  <2> QED
    BY <1>0, <1>2, <2>1, Increasing
<1> SUFFICES ASSUME NEW i \in 1..c, items[i] \notin good PROVE FALSE
  OBVIOUS
<1>7. i \in 1..n /\ c \in 1..c /\ c \in 1..n
  BY <1>0
<1>8. PICK k \in 1..n : order[k] = i
  BY <1>2, <1>7
<1>9. c < k
  <2>1. ~ (k \in 1..c)
    BY <1>4, <1>8
  <2> HIDE DEF n
  <2> QED
    BY <1>0, <2>1
<1>10. order[c] < i
  BY <1>5, <1>7, <1>8, <1>9
<1>11. c <= order[c] /\ order[c] \in 1..n
  BY <1>2, <1>6, <1>7
<1>12. i \in Nat /\ i <= c /\ c \in Nat /\ order[c] \in Nat
  BY <1>0, <1>11
<1> QED
  BY <1>10, <1>11, <1>12

(* The results are accounted for: the partitions of the call are continued *)
(* from the cursor the copies reached, or from where the call began.       *)
LEMMA AccountCases ==
    ASSUME ReplayInv, Account
    PROVE  /\ step = "acked" /\ step' = "replied" /\ UNCHANGED <<vars, targets, begun, target>>
           /\ reply'.reachedEnd => Copied = Len(items) /\ ReachedEnd
           /\ \/ todo' = todo
              \/ /\ \A p \in Scope : window[p].start = todo[p]
                 /\ todo' = [p \in Partitions |-> IF p \in Scope THEN CursorAfter(Copied)[p] ELSE todo[p]]
                 /\ heeded' = IF Copied = Len(items) THEN heeded ELSE heeded \cup Advanced(Copied)
<1>1. step = "acked" /\ UNCHANGED <<vars, targets, begun, target>>
  BY DEF Account
<1>2. todo \in [Partitions -> Nat] /\ \A p \in Scope : window[p].start = todo[p]
  BY <1>1 DEF ReplayInv
<1>3. CASE Answer(FALSE, Copied, Starts, FALSE)
  <2>1. todo' = [p \in Partitions |-> IF p \in Scope THEN Starts[p] ELSE todo[p]]
    BY <1>3 DEF Answer, Continue1
  <2>2. todo' = todo
    BY <1>2, <2>1 DEF Starts
  <2> QED
    BY <1>1, <1>3, <2>2 DEF Answer
<1>4. CASE /\ Answer(Copied = Len(items), Copied, CursorAfter(Copied), Copied = Len(items) /\ ReachedEnd)
           /\ heeded' = IF Copied = Len(items) THEN heeded ELSE heeded \cup Advanced(Copied)
  <2>1. reply'.reachedEnd => Copied = Len(items) /\ ReachedEnd
    BY <1>4 DEF Answer
  <2>2. /\ step' = "replied"
        /\ todo' = [p \in Partitions |-> IF p \in Scope THEN CursorAfter(Copied)[p] ELSE todo[p]]
    BY <1>4 DEF Answer, Continue1
  <2> QED
    BY <1>1, <1>2, <1>4, <2>1, <2>2
<1> QED
  BY <1>3, <1>4 DEF Account

(* An account keeps the invariant.                                         *)
LEMMA AccountStep == ReplayInv /\ Account => ReplayInv'
<1> SUFFICES ASSUME ReplayInv, Account PROVE ReplayInv'
  OBVIOUS
<1>0. EmitInv /\ bounds \in Bounds /\ AcksInv /\ step = "acked" /\ UNCHANGED <<vars, begun, target>> /\ step' = "replied"
  BY AccountCases DEF ReplayInv
<1>1. Len(acks) = Len(items) /\ Len(items) \in Nat
  BY <1>0, AcksLength
<1>2. Copied \in 0..Len(items) /\ \A i \in 1..Copied : acks[i]
  BY <1>0, <1>1, CopiedIsPrefix DEF AcksInv
<1>3. \A p \in Scope : /\ CursorAfter(Copied)[p] \in Nat
                       /\ CursorAfter(Copied)[p] = window[p].start \/ CursorAfter(Copied)[p] <= hw[p]
  BY <1>0, <1>2, CursorAfterType
<1>4. todo \in [Partitions -> Nat]
  BY DEF ReplayInv
<1>5. \/ todo' = todo
      \/ /\ \A p \in Scope : window[p].start = todo[p]
         /\ todo' = [p \in Partitions |-> IF p \in Scope THEN CursorAfter(Copied)[p] ELSE todo[p]]
  BY AccountCases
<1>7. todo' \in [Partitions -> Nat] /\ \A p \in Partitions : todo'[p] = todo[p] \/ todo'[p] <= hw[p]
  BY <1>3, <1>4, <1>5
<1>8. EndIsCopied'
  <2> SUFFICES ASSUME reply'.reachedEnd, ~ bounds.latest, NEW p \in Scope, NEW o \in live[p],
                      window[p].start <= o, o < window[p].end
               PROVE  <<p, o>> \in target
    BY <1>0 DEF EndIsCopied, Scope, vars
  <2>1. Copied = Len(items) /\ ReachedEnd
    BY AccountCases
  <2>2. stop.reachedEnd /\ pc = "done"
    BY <1>0, <2>1 DEF ReachedEnd, AcksInv
  <2>3. <<p, o>> \in Emitted
    BY <1>0, <2>2, EndEmitted
  <2> QED
    BY <1>0, <1>2, <2>1, <2>3, AllGood
<1> QED
  BY <1>0, <1>7, <1>8, EndingStep

(* Every step keeps the invariant.                                         *)
LEMMA ReplayStep == ReplayInv /\ [ReplayNext]_<<vars, replayVars>> => ReplayInv'
<1> SUFFICES ASSUME ReplayInv, [ReplayNext]_<<vars, replayVars>> PROVE ReplayInv'
  OBVIOUS
<1>0. /\ EmitInv /\ bounds \in Bounds /\ todo \in [Partitions -> Nat]
      /\ step # "replied" => \A p \in Scope : window[p].start = todo[p]
  BY DEF ReplayInv
<1>1. CASE ScanError \/ Lost
  <2>1. UNCHANGED <<vars, begun, todo>> /\ step' = "replied" /\ reply' = NoReply
    BY <1>1 DEF ScanError, Lost
  <2>2. EndIsCopied'
    BY <2>1 DEF EndIsCopied, NoReply
  <2> QED
    BY <1>0, <2>1, <2>2, EndingStep
<1>2. CASE CopyNothing \/ ProduceRefused
  <2>1. /\ UNCHANGED <<vars, begun>> /\ step' = "replied" /\ step # "replied" /\ pc = "done"
        /\ todo' = [p \in Partitions |-> IF p \in Scope THEN Starts[p] ELSE todo[p]]
    BY <1>2 DEF CopyNothing, ProduceRefused, Answer, Continue1
  <2>2. todo' \in [Partitions -> Nat] /\ \A p \in Partitions : todo'[p] = todo[p]
    BY <1>0, <2>1 DEF Starts
  <2>3. EndIsCopied'
    <3> SUFFICES ASSUME reply'.reachedEnd, ~ bounds.latest, NEW p \in Scope, NEW o \in live[p],
                        window[p].start <= o, o < window[p].end
                 PROVE  FALSE
      BY <2>1 DEF EndIsCopied, Scope, vars
    <3>1. items = <<>> /\ ReachedEnd
      BY <1>2 DEF CopyNothing, ProduceRefused, Answer
    <3>2. Emitted = {}
      BY <3>1, EmptySeq DEF Emitted
    <3>3. stop.reachedEnd
      BY <3>1 DEF ReachedEnd
    <3> QED
      BY <1>0, <2>1, <3>2, <3>3, EndEmitted
  <2> QED
    BY <2>1, <2>2, <2>3, EndingStep
<1>3. CASE UNCHANGED <<vars, replayVars>>
  <2>1. EmitInv' /\ Scope' = Scope
    BY <1>0, <1>3, ScanStays
  <2>2. AcksInv' <=> AcksInv
    BY <1>3 DEF AcksInv, Orders, Placements, Emitted, vars, replayVars
  <2>3. EndIsCopied' <=> EndIsCopied
    BY <1>3, <2>1 DEF EndIsCopied, vars, replayVars
  <2> QED
    BY <1>3, <2>1, <2>2, <2>3 DEF ReplayInv, vars, replayVars
<1> QED
  BY <1>1, <1>2, <1>3, ScanningStep, ProduceStep, AccountStep, AgainStep DEF ReplayNext, Finish

(* The invariant holds of every loop of replays.                           *)
THEOREM ReplayInvariance == ReplaySpec => []ReplayInv
BY ReplayInitial, ReplayStep, PTL DEF ReplaySpec

(* reachedEnd is said only of a replay that has copied all its window      *)
(* holds, whatever the order in which the results came.                    *)
THEOREM EndsCopied == ReplaySpec => []EndIsCopied
<1>1. ReplayInv => EndIsCopied
  BY DEF ReplayInv
<1> QED
  BY <1>1, ReplayInvariance, PTL

(* A caller who follows the cursors copies everything, if the call is not  *)
(* for the latest, and if the target has one partition or the caller       *)
(* repeats the calls that failed.                                          *)
THEOREM CopiesAll ==
    ASSUME \A b \in Bounds : ~ b.latest
    PROVE  ReplaySpec => []NothingSkipped
<1>1. ReplayInit => NothingSkipped
  <2> SUFFICES ASSUME ReplayInit, NEW p \in Partitions, NEW o \in live[p],
                      begun[p] <= o, o < todo[p]
               PROVE  FALSE
    BY DEF NothingSkipped
  <2>1. ReplayInv /\ todo = begun
    BY ReplayInitial DEF ReplayInit
  <2>2. o \in Nat /\ todo[p] \in Nat
    BY <2>1, OffsetsAreNat DEF ReplayInv, EmitInv, ScanInv, TypeOK
  <2> QED
    BY <2>1, <2>2
<1>2. ReplayInv /\ NothingSkipped /\ [ReplayNext]_<<vars, replayVars>> => NothingSkipped'
  <2> SUFFICES ASSUME ReplayInv, NothingSkipped, [ReplayNext]_<<vars, replayVars>>,
                      NEW p \in Partitions, (p \notin heeded \/ OneTarget)',
                      NEW o \in live'[p], begun'[p] <= o, o < todo'[p]
               PROVE  <<p, o>> \in target'
    BY DEF NothingSkipped
  <2>0. /\ EmitInv /\ bounds \in Bounds /\ ~ bounds.latest /\ todo \in [Partitions -> Nat]
        /\ live \in [Partitions -> SUBSET Offsets]
        /\ step # "replied" => \A q \in Scope : window[q].start = todo[q]
    BY DEF ReplayInv, EmitInv, ScanInv, TypeOK
  <2>1. /\ begun' = begun /\ target \subseteq target'
        /\ heeded \subseteq heeded' /\ targets' = targets
    BY DEF ReplayNext, Scanning, Finish, ScanError, CopyNothing, ProduceRefused, Produce, Account, Lost,
       Again, replayVars
  <2>p. p \notin heeded \/ OneTarget
    BY <2>1 DEF OneTarget
  <2>2. CASE todo' = todo /\ o \in live[p]
    BY <2>1, <2>2, <2>p DEF NothingSkipped
  <2>3. CASE Scanning
    <3>1. todo' = todo /\ (o \in live[p] \/ o = hw[p]) /\ hw[p] \in Nat
      BY <2>0, <2>3, LogGrows DEF Scanning, replayVars
    <3>2. CASE o = hw[p]
      BY <2>0, <2>1, <3>1, <3>2 DEF ReplayInv
    <3> QED
      BY <2>2, <3>1, <3>2
  <2>4. CASE Account
    <3>0. AcksInv /\ step = "acked" /\ UNCHANGED <<live, target>>
      BY <2>4 DEF Account, ReplayInv, vars
    <3>1. Len(acks) = Len(items) /\ Len(items) \in Nat
      BY <2>0, <3>0, AcksLength
    <3>2. Copied \in 0..Len(items) /\ \A i \in 1..Copied : acks[i]
      BY <3>0, <3>1, CopiedIsPrefix DEF AcksInv
    <3>3. o \in live[p] /\ o \in Nat /\ todo[p] \in Nat
      BY <2>0, <3>0, OffsetsAreNat
    <3>4. CASE o < todo[p]
      BY <2>1, <2>p, <3>3, <3>4 DEF NothingSkipped
    <3>5. CASE ~ (o < todo[p])
      <4>1. /\ p \in Scope /\ o < CursorAfter(Copied)[p] /\ window[p].start <= o
            /\ Copied = Len(items) \/ p \in heeded'
        BY <2>4, <3>3, <3>5, AccountCases DEF Advanced
      <4>2. CASE Copied = Len(items)
        <5>1. \A i \in 1..Copied : items[i] \in target
          <6>1. Emitted \subseteq target
            BY <2>0, <3>0, <3>2, <4>2, AllGood
          <6> QED
            BY <4>2, <6>1 DEF Emitted
        <5> QED
          BY <2>0, <2>1, <3>2, <3>3, <4>1, <5>1, PrefixCovers
      <4>3. CASE p \in heeded'
        <5>1. OneTarget
          BY <2>1, <4>3 DEF OneTarget
        <5>2. \A i \in 1..Copied : items[i] \in target
          BY <2>0, <3>0, <3>2, <5>1, PrefixGood
        <5> QED
          BY <2>0, <2>1, <3>2, <3>3, <4>1, <5>2, PrefixCovers
      <4> QED
        BY <4>1, <4>2, <4>3
    <3> QED
      BY <3>4, <3>5
  <2>5. CASE CopyNothing \/ ProduceRefused
    <3>1. /\ UNCHANGED live /\ step # "replied"
          /\ todo' = [q \in Partitions |-> IF q \in Scope THEN Starts[q] ELSE todo[q]]
      BY <2>5 DEF CopyNothing, ProduceRefused, Answer, Continue1, vars
    <3>2. todo'[p] = todo[p]
      BY <2>0, <3>1 DEF Starts
    <3> QED
      BY <2>1, <2>p, <3>1, <3>2 DEF NothingSkipped
  <2>6. CASE ScanError \/ Produce \/ Lost \/ (\E q \in Partitions : Again(q)) \/ UNCHANGED <<vars, replayVars>>
    <3>1. UNCHANGED <<live, todo>>
      BY <2>6 DEF ScanError, Produce, Lost, Again, vars, replayVars, logVars
    <3> QED
      BY <2>2, <3>1
  <2> QED
    BY <2>3, <2>4, <2>5, <2>6 DEF ReplayNext, Finish
<1> QED
  BY <1>1, <1>2, ReplayInvariance, PTL DEF ReplaySpec
=============================================================================
