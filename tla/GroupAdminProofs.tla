-------------------------- MODULE GroupAdminProofs --------------------------
(***************************************************************************)
(* The group commands, for every number of groups, members, partitions,    *)
(* offsets and moves of others: who is changed was idle, what is answered  *)
(* was done, and the offsets committed and the lags shown are real.        *)
(***************************************************************************)
EXTENDS GroupAdmin, TLAPS

(* The data of every state, as far as the theorems need it.                *)
Shape ==
    /\ ask \in Ask
    /\ parts \subseteq TPs
    /\ begin \in [TPs -> Nat] /\ end \in [TPs -> Nat]
    /\ \A tp \in TPs \ parts : begin[tp] = 0 /\ end[tp] = 0
    /\ members \in [Groups -> SUBSET Members]
    /\ known \subseteq Groups /\ \A g \in Groups \ known : members[g] = {}
    /\ committed = [g \in Groups |-> committed[g]]
    /\ seen = [exists |-> seen.exists, own |-> seen.own, scope |-> seen.scope, todo |-> seen.todo,
               after |-> seen.after, ends |-> seen.ends, listed |-> seen.listed]

(* The history ends with the present.                                      *)
PastIsKept == past \in Seq(Range(past)) /\ past # <<>> /\ past[Len(past)] = Now

(* Which commands reach which port call, and that nothing is done or said  *)
(* before the last.                                                        *)
Path ==
    /\ pc \in {"scope", "targets"} => ask.id = "G4"
    /\ pc = "source" => ask.id = "G7"
    /\ pc = "own" => ask.id \in {"G2", "G4", "G5", "G7"}
    /\ pc = "describe" => ask.id \notin {"G1", "G3"}
    /\ pc \in {"confirm", "attempt"} => ask.id \in {"G4", "G5", "G6", "G7"}
    /\ pc \in {"check", "commit"} => ask.id \in {"G4", "G7"}
    /\ pc = "delete" => ask.id = "G5"
    /\ pc = "leave" => ask.id = "G6"
    /\ pc \in {"list", "counts"} => ask.id = "G1"
    /\ pc \in {"all", "offsets"} => ask.id = "G3"
    /\ pc = "ends" => ask.id \in {"G2", "G3"}
    /\ pc # "done" => done = {} /\ reply.code = ""

(* After the ATTEMPT no moment without members goes unnoticed.             *)
Watched ==
    /\ pc \in {"check", "delete"} /\ members[ask.group] = {} => idle
    /\ pc = "commit" => idle

IdleInv == Shape /\ Path /\ Watched /\ IdleWhenChanged

-----------------------------------------------------------------------------
(* Every step of the request and of others keeps the data well formed.     *)
LEMMA ShapeKept ==
    ASSUME Shape, [Next]_vars
    PROVE  Shape'
<1> SUFFICES ASSUME Next PROVE Shape'
  BY DEF vars, groupVars, reqVars, Shape
<1> USE DEF Shape
<1>1. CASE Request
  <2>1. UNCHANGED <<ask, parts, begin, end>>
    BY <1>1 DEF Request, Reading, Apply, groupVars, Handle, ReadFails, ListGroups, CountMembers, Describe,
         FetchOwn, ResetScope, ResetTargets, PlanReset, FetchSource, ReadEnds, DescribeAll, FetchNext,
         Confirm, Attempt, AttemptFails, CheckIdle, CommitOffsets, DeleteGroup, LeaveGroup, ApplyFails
  <2>2. seen' = [exists |-> seen'.exists, own |-> seen'.own, scope |-> seen'.scope, todo |-> seen'.todo,
                 after |-> seen'.after, ends |-> seen'.ends, listed |-> seen'.listed]
    <3>1. CASE Handle
      BY <3>1 DEF Handle
    <3>2. CASE ResetScope \/ ResetTargets
      BY <3>2 DEF ResetScope, ResetTargets, Scoped
    <3>3. CASE ReadEnds \/ FetchOwn
      BY <3>3 DEF ReadEnds, FetchOwn
    <3>4. CASE DescribeAll \/ FetchNext
      BY <3>4 DEF DescribeAll, FetchNext
    <3>5. CASE ListGroups
      BY <3>5 DEF ListGroups
    <3>6. CASE Describe
      BY <3>6 DEF Describe
    <3>7. CASE ReadFails \/ CountMembers \/ PlanReset \/ FetchSource
      BY <3>7 DEF ReadFails, CountMembers, PlanReset, FetchSource
    <3>8. CASE Confirm \/ Attempt \/ AttemptFails \/ CheckIdle
      BY <3>8 DEF Confirm, Attempt, AttemptFails, CheckIdle
    <3>9. CASE CommitOffsets \/ DeleteGroup \/ LeaveGroup \/ ApplyFails
      BY <3>9 DEF Apply, CommitOffsets, DeleteGroup, LeaveGroup, ApplyFails
    <3> QED
      BY <1>1, <3>1, <3>2, <3>3, <3>4, <3>5, <3>6, <3>7, <3>8, <3>9 DEF Request
  <2>3. /\ members' \in [Groups -> SUBSET Members]
        /\ known' \subseteq Groups
        /\ committed' = [g \in Groups |-> committed'[g]]
        /\ \A g \in Groups \ known' : members'[g] = {}
    <3>1. ask.group \in Groups
      BY DEF Ask
    <3>2. CASE CommitOffsets
      BY <3>1, <3>2 DEF CommitOffsets
    <3>3. CASE DeleteGroup
      BY <3>1, <3>3 DEF DeleteGroup
    <3>4. CASE LeaveGroup
      BY <3>1, <3>4, SMTT(30) DEF LeaveGroup
    <3>5. CASE UNCHANGED <<known, members, committed>>
      BY <3>5
    <3> QED
      BY <1>1, <3>2, <3>3, <3>4, <3>5
         DEF Request, Reading, groupVars, Handle, ReadFails, ListGroups, CountMembers, Describe, FetchOwn,
             ResetScope, ResetTargets, PlanReset, FetchSource, ReadEnds, DescribeAll, FetchNext,
             Confirm, Attempt, AttemptFails, CheckIdle, ApplyFails
  <2> QED
    BY <2>1, <2>2, <2>3
<1>2. CASE OthersMove
  <2>1. UNCHANGED reqVars
    BY <1>2 DEF OthersMove, Others, Joins, Leaves, Commits, Produces, Trims, Replaced, Vanishes
  <2> SUFFICES /\ parts' \subseteq TPs
               /\ begin' \in [TPs -> Nat] /\ end' \in [TPs -> Nat]
               /\ \A tp \in TPs \ parts' : begin'[tp] = 0 /\ end'[tp] = 0
               /\ members' \in [Groups -> SUBSET Members]
               /\ known' \subseteq Groups
               /\ committed' = [g \in Groups |-> committed'[g]]
               /\ \A g \in Groups \ known' : members'[g] = {}
    BY <2>1 DEF reqVars
  <2>2. CASE \E g \in Groups, m \in Members : Joins(g, m) \/ Leaves(g, m)
    BY <2>2 DEF Joins, Leaves, Others
  <2>3. CASE \E g \in Groups, tp \in TPs : Commits(g, tp)
    BY <2>3 DEF Commits, Others
  <2>4. CASE \E tp \in TPs : Produces(tp) \/ Trims(tp)
    BY <2>4 DEF Produces, Trims, Others
  <2>5. CASE \E t \in Topics : Replaced(t)
    BY <2>5 DEF Replaced, Others, Of
  <2>6. CASE \E g \in Groups : Vanishes(g)
    BY <2>6 DEF Vanishes, Others
  <2> QED
    BY <1>2, <2>2, <2>3, <2>4, <2>5, <2>6 DEF OthersMove
<1> QED
  BY <1>1, <1>2 DEF Next

(* Nothing is done or said before the last port call, each command makes   *)
(* the calls of its own, and others may only add to the idle moments.      *)
LEMMA IdleKept ==
    ASSUME IdleInv, [Next]_vars
    PROVE  Path' /\ Watched' /\ IdleWhenChanged'
<1>u. CASE UNCHANGED vars
  <2>1. UNCHANGED <<ask, pc, reply, members, idle, done>>
    BY <1>u DEF vars, groupVars, reqVars, history
  <2> QED
    BY <2>1 DEF IdleInv, Path, Watched, IdleWhenChanged
<1> SUFFICES ASSUME Next PROVE Path' /\ Watched' /\ IdleWhenChanged'
  BY <1>u
<1>0. /\ ask \in Ask /\ ask' = ask
      /\ members \in [Groups -> SUBSET Members] /\ \A g \in Groups \ known : members[g] = {}
  BY DEF IdleInv, Shape, Next, Request, OthersMove, Others, reqVars, Joins, Leaves, Commits, Produces, Trims, Replaced,
         Vanishes, Reading, Apply, Handle, ReadFails, ListGroups, CountMembers, Describe, FetchOwn, ResetScope,
         ResetTargets, PlanReset, FetchSource, ReadEnds, DescribeAll, FetchNext, Confirm, Attempt, AttemptFails,
         CheckIdle, CommitOffsets, DeleteGroup, LeaveGroup, ApplyFails
<1>g. ask.group \in Groups /\ ask.id \in {"G1", "G2", "G3", "G4", "G5", "G6", "G7"}
  BY <1>0 DEF Ask
<1> USE <1>0, <1>g DEF Reading, Goto, Reply, history, groupVars
<1> DEFINE Kept == Path' /\ Watched' /\ IdleWhenChanged'
<1>1. CASE Handle
  <2>1. UNCHANGED <<groupVars, history>> /\ pc = "http"
    BY <1>1 DEF Handle
  <2>2. \/ pc' = "done" /\ \E c \in {"BoundExceeded", "Validation"} : reply'.code = c
        \/ pc' = First /\ UNCHANGED reply
    BY <1>1 DEF Handle
  <2>3. /\ First \in {"list", "ends", "confirm", "describe"}
        /\ First = "list" => ask.id = "G1"
        /\ First = "ends" => ask.id = "G3"
        /\ First = "confirm" => ask.id = "G6"
        /\ First = "describe" => ask.id \notin {"G1", "G3"}
    BY DEF First
  <2> QED
    BY <2>1, <2>2, <2>3 DEF IdleInv, Path, Watched, IdleWhenChanged
<1>2. CASE ReadFails
  BY <1>2 DEF ReadFails, IdleInv, Path, Watched, IdleWhenChanged
<1>3. CASE ListGroups
  BY <1>3 DEF ListGroups, IdleInv, Path, Watched, IdleWhenChanged
<1>4. CASE CountMembers
  BY <1>4 DEF CountMembers, IdleInv, Path, Watched, IdleWhenChanged
<1>5. CASE Describe
  <2>1. UNCHANGED <<groupVars, history>> /\ pc = "describe"
    BY <1>5 DEF Describe
  <2>2. \/ pc' = "done"
        \/ ask.id = "G6" /\ pc' = "confirm" /\ UNCHANGED reply
        \/ ask.id # "G6" /\ pc' = "own" /\ UNCHANGED reply
        \/ ask.id = "G7" /\ pc' = "source" /\ UNCHANGED reply
        \/ ask.id = "G4" /\ pc' = "scope" /\ UNCHANGED reply
    BY <1>5 DEF Describe
  <2> QED
    BY <2>1, <2>2 DEF IdleInv, Path, Watched, IdleWhenChanged
<1>6. CASE FetchOwn
  <2>1. UNCHANGED <<groupVars, history>> /\ pc = "own" /\ ask.id \in {"G2", "G4", "G5", "G7"}
    BY <1>6 DEF FetchOwn, IdleInv, Path
  <2>2. \/ pc' = "done"
        \/ Goto(CASE ask.id = "G2" -> "ends" [] ask.id = "G4" -> "scope"
                  [] ask.id = "G5" -> "confirm" [] ask.id = "G7" -> "source")
    BY <1>6 DEF FetchOwn
  <2>3. \/ pc' = "done"
        \/ UNCHANGED reply /\ <<ask.id, pc'>> \in {<<"G2", "ends">>, <<"G4", "scope">>, <<"G5", "confirm">>, <<"G7", "source">>}
    BY <2>1, <2>2
  <2> QED
    BY <2>1, <2>3 DEF IdleInv, Path, Watched, IdleWhenChanged
<1>7. CASE ResetScope
  <2>1. UNCHANGED <<groupVars, history>> /\ pc = "scope"
    BY <1>7 DEF ResetScope
  <2>2. \/ pc' = "done"
        \/ pc' \in {"scope", "targets"} /\ UNCHANGED reply
    BY <1>7 DEF ResetScope, Scoped
  <2> QED
    BY <2>1, <2>2 DEF IdleInv, Path, Watched, IdleWhenChanged
<1>8. CASE ResetTargets
  BY <1>8 DEF ResetTargets, IdleInv, Path, Watched, IdleWhenChanged
<1>9. CASE PlanReset
  <2>1. UNCHANGED <<groupVars, history, reply>> /\ pc = "targets" /\ pc' = "confirm"
    BY <1>9 DEF PlanReset
  <2> QED
    BY <2>1 DEF IdleInv, Path, Watched, IdleWhenChanged
<1>10. CASE FetchSource
  <2>1. UNCHANGED <<groupVars, history>> /\ pc = "source"
    BY <1>10 DEF FetchSource
  <2>2. CASE ask.source \in known
    <3>1. pc' = "confirm" /\ UNCHANGED reply
      BY <1>10, <2>2 DEF FetchSource
    <3> QED
      BY <2>1, <3>1 DEF IdleInv, Path, Watched, IdleWhenChanged
  <2>3. CASE ask.source \notin known
    <3>1. pc' = "done"
      BY <1>10, <2>3 DEF FetchSource
    <3> QED
      BY <2>1, <3>1 DEF IdleInv, Path, Watched, IdleWhenChanged
  <2> QED
    BY <2>2, <2>3
<1>11. CASE ReadEnds
  BY <1>11 DEF ReadEnds, IdleInv, Path, Watched, IdleWhenChanged
<1>12. CASE DescribeAll
  BY <1>12 DEF DescribeAll, IdleInv, Path, Watched, IdleWhenChanged
<1>13. CASE FetchNext
  BY <1>13 DEF FetchNext, IdleInv, Path, Watched, IdleWhenChanged
<1>14. CASE Confirm
  BY <1>14 DEF Confirm, IdleInv, Path, Watched, IdleWhenChanged
<1>15. CASE Attempt
  <2>1. UNCHANGED <<groupVars, done, reply>> /\ pc = "attempt" /\ idle' = (members[ask.group] = {})
    BY <1>15 DEF Attempt
  <2>2. /\ ask.id = "G5" => pc' = "delete"
        /\ ask.id = "G6" => pc' = "leave"
        /\ ask.id \in {"G4", "G7"} => pc' = "check"
    BY <1>15 DEF Attempt
  <2>3. ask.id \in {"G4", "G5", "G6", "G7"} /\ done = {} /\ reply.code = ""
    BY <2>1 DEF IdleInv, Path
  <2> QED
    BY <2>1, <2>2, <2>3 DEF Path, Watched, IdleWhenChanged
<1>16. CASE AttemptFails
  BY <1>16 DEF AttemptFails, IdleInv, Path, Watched, IdleWhenChanged
<1>17. CASE CheckIdle
  BY <1>17 DEF CheckIdle, IdleInv, Path, Watched, IdleWhenChanged
<1>18. CASE CommitOffsets
  BY <1>18 DEF CommitOffsets, Apply, Applied, IdleInv, Path, Watched, IdleWhenChanged
<1>19. CASE DeleteGroup
  BY <1>19 DEF DeleteGroup, Apply, Applied, IdleInv, Path, Watched, IdleWhenChanged
<1>20. CASE LeaveGroup
  BY <1>20 DEF LeaveGroup, Apply, Applied, IdleInv, Path, Watched, IdleWhenChanged
<1>21. CASE ApplyFails
  BY <1>21 DEF ApplyFails, IdleInv, Path, Watched, IdleWhenChanged
<1>22. CASE OthersMove /\ idle' = (idle \/ members'[ask.group] = {})
  <2>1. UNCHANGED <<reqVars, done>> /\ pc # "done"
    BY <1>22 DEF OthersMove, Others, Joins, Leaves, Commits, Produces, Trims, Replaced, Vanishes
  <2>2. idle' <=> (idle \/ members'[ask.group] = {})
    BY <1>22
  <2>3. UNCHANGED <<ask, pc, reply, done>>
    BY <2>1 DEF reqVars
  <2>4. Path /\ done = {} /\ reply.code = ""
    BY <2>1 DEF IdleInv, Path
  <2>6. Path' /\ done' = {}
    BY <2>3, <2>4 DEF Path
  <2>5. Watched'
    BY <2>2, <2>3 DEF IdleInv, Watched
  <2> QED
    BY <2>5, <2>6 DEF IdleWhenChanged
<1> QED
  BY <1>1, <1>2, <1>3, <1>4, <1>5, <1>6, <1>7, <1>8, <1>9, <1>10, <1>11, <1>12, <1>13, <1>14, <1>15, <1>16,
     <1>17, <1>18, <1>19, <1>20, <1>21, <1>22 DEF Next, Request

(* The data are well formed at the start, where nothing is done yet.        *)
LEMMA InitShape == Init => Shape /\ Path
<1> SUFFICES ASSUME Init PROVE Shape /\ Path
  OBVIOUS
<1>1. PICK s \in Starts :
          /\ parts = s.parts /\ begin = s.begin /\ end = s.end
          /\ known = s.known /\ members = s.members /\ committed = s.committed
  BY DEF Init
<1>2. ask \in Ask
  BY GroupsAssumption DEF Init
<1> QED
  BY <1>1, <1>2, StartsAssumption DEF Init, Shape, Path, Unseen

(* FUNC-SPEC 8.6: whatever joins and leaves meanwhile, a group that G4, G5 *)
(* or G7 changes had no members at a time after the ATTEMPT.               *)
THEOREM ChangedWhenIdle == Spec => []IdleWhenChanged
<1>1. Init => IdleInv
  BY InitShape DEF Init, IdleInv, Watched, IdleWhenChanged
<1>2. IdleInv /\ [Next]_vars => IdleInv'
  BY ShapeKept, IdleKept DEF IdleInv
<1>3. IdleInv => IdleWhenChanged
  BY DEF IdleInv
<1> QED
  BY <1>1, <1>2, <1>3, PTL DEF Spec

-----------------------------------------------------------------------------
(* The committed offsets; G4 may commit what it was told, so that only the *)
(* views know them to be numbers.                                          *)
Stored(offsets) ==
    /\ DOMAIN offsets \subseteq TPs
    /\ ask.id \in {"G2", "G3"} => \A tp \in DOMAIN offsets : offsets[tp] \in Int

AllStored == \A g \in Groups : Stored(committed[g])

Base == IdleInv /\ PastIsKept /\ AllStored

(* What a map holds into which another is written.                         *)
LEMMA OverDef ==
    ASSUME NEW new, NEW map
    PROVE  /\ DOMAIN Over(new, map) = DOMAIN new \cup DOMAIN map
           /\ \A key \in DOMAIN new : Over(new, map)[key] = new[key]
           /\ \A key \in DOMAIN map \ DOMAIN new : Over(new, map)[key] = map[key]
BY DEF Over

(* What a map of one entry holds.                                          *)
LEMMA OnlyDef ==
    ASSUME NEW key, NEW value
    PROVE  DOMAIN Only(key, value) = {key} /\ Only(key, value)[key] = value
BY DEF Only

(* Nothing but the moment of a step changes the history.                   *)
LEMMA PastGrows ==
    ASSUME PastIsKept, [Next]_vars
    PROVE  /\ PastIsKept'
           /\ Len(past') \in DOMAIN past' /\ past'[Len(past')] = Now'
           /\ \A i \in DOMAIN past : i \in DOMAIN past' /\ past'[i] = past[i] /\ i <= Len(past')
           /\ DOMAIN past' \subseteq Nat
<1>1. CASE past' = past /\ Now' = Now
  BY <1>1 DEF PastIsKept
<1>2. CASE past' = Append(past, Now')
  <2> DEFINE S == Range(past) \cup {Now'}
  <2>1. past \in Seq(S) /\ Now' \in S
    BY DEF PastIsKept
  <2> HIDE DEF S
  <2>2. /\ past' \in Seq(S) /\ Len(past') = Len(past) + 1 /\ past'[Len(past')] = Now'
        /\ \A i \in 1..Len(past) : past'[i] = past[i]
    BY <1>2, <2>1
  <2>3. past' \in Seq(Range(past'))
    BY <2>2 DEF Range
  <2> QED
    BY <2>1, <2>2, <2>3 DEF PastIsKept
<1> QED
  BY <1>1, <1>2 DEF Next, vars, groupVars, Now

(* What is committed keeps its type, and the request is never another.     *)
LEMMA StoredKept ==
    ASSUME Base, [Next]_vars
    PROVE  AllStored' /\ ask' = ask
<1>1. CASE UNCHANGED <<ask, committed>>
  BY <1>1 DEF Base, AllStored, Stored
<1>2. UNCHANGED ask
  BY DEF vars, Next, Request, OthersMove, Others, reqVars, Joins, Leaves, Commits, Produces, Trims, Replaced,
         Vanishes, Reading, Apply, Handle, ReadFails, ListGroups, CountMembers, Describe, FetchOwn, ResetScope,
         ResetTargets, PlanReset, FetchSource, ReadEnds, DescribeAll, FetchNext, Confirm, Attempt, AttemptFails,
         CheckIdle, CommitOffsets, DeleteGroup, LeaveGroup, ApplyFails
<1>3. ASSUME NEW g \in Groups, NEW offsets, Stored(offsets), committed' = [committed EXCEPT ![g] = offsets]
      PROVE  AllStored'
  BY <1>2, <1>3 DEF Base, IdleInv, Shape, AllStored, Stored
<1>4. Stored(<<>>)
  BY DEF Stored
<1>5. CASE CommitOffsets
  <2>1. ask.group \in Groups /\ ask.id \in {"G4", "G7"}
    BY <1>5 DEF Base, IdleInv, Shape, Path, Ask, CommitOffsets, Apply
  <2> DEFINE kept == Restrict(plan, parts \cap DOMAIN plan)
             now == committed[ask.group]
  <2>2. DOMAIN kept \subseteq TPs /\ DOMAIN now \subseteq TPs
    BY <2>1 DEF Restrict, Base, IdleInv, Shape, AllStored, Stored
  <2>3. committed' = [committed EXCEPT ![ask.group] = Over(kept, now)]
    BY <1>5 DEF CommitOffsets
  <2> DEFINE all == Over(kept, now)
  <2>4. committed' = [committed EXCEPT ![ask.group] = all]
    BY <2>3
  <2>5. DOMAIN all = DOMAIN kept \cup DOMAIN now
    BY OverDef
  <2> HIDE DEF kept, now, all
  <2>6. Stored(all)
    BY <2>1, <2>2, <2>5 DEF Stored
  <2> QED
    BY <1>2, <1>3, <2>1, <2>4, <2>6
<1>6. CASE DeleteGroup
  BY <1>1, <1>2, <1>3, <1>4, <1>6 DEF DeleteGroup, Base, IdleInv, Shape, Ask
<1>7. ASSUME NEW g \in Groups, NEW tp \in TPs, Commits(g, tp) PROVE AllStored'
  <2> DEFINE now == committed[g]
  <2>1. PICK o \in begin[tp]..end[tp] : committed' = [committed EXCEPT ![g] = Over(Only(tp, o), now)]
    BY <1>7 DEF Commits
  <2>2. Stored(now) /\ o \in Int
    BY DEF Base, IdleInv, Shape, AllStored
  <2> DEFINE new == Only(tp, o)
  <2>3. DOMAIN new = {tp} /\ new[tp] = o
    BY OnlyDef
  <2> DEFINE all == Over(new, now)
  <2>4. /\ DOMAIN all = DOMAIN new \cup DOMAIN now
        /\ \A key \in DOMAIN new : all[key] = new[key]
        /\ \A key \in DOMAIN now \ DOMAIN new : all[key] = now[key]
    BY OverDef
  <2>5. committed' = [committed EXCEPT ![g] = all]
    BY <2>1
  <2> HIDE DEF now, new, all
  <2>6. Stored(all)
    BY <2>2, <2>3, <2>4 DEF Stored
  <2> QED
    BY <1>3, <2>5, <2>6
<1>8. ASSUME NEW g \in Groups, Vanishes(g) PROVE AllStored'
  BY <1>3, <1>4, <1>8 DEF Vanishes
<1> QED
  BY <1>1, <1>2, <1>5, <1>6, <1>7, <1>8
     DEF vars, groupVars, Next, Request, OthersMove, Others, Joins, Leaves, Produces, Trims, Replaced, Reading, Apply,
         Handle, ReadFails, ListGroups, CountMembers, Describe, FetchOwn, ResetScope,
         ResetTargets, PlanReset, FetchSource, ReadEnds, DescribeAll, FetchNext, Confirm, Attempt, AttemptFails,
         CheckIdle, LeaveGroup, ApplyFails

-----------------------------------------------------------------------------
(* What a partition was to have at a time since the request came.          *)
RightOnce(tp, o) == \E i \in DOMAIN past : Right(tp, o, past[i])

(* What was right once stays so.                                           *)
LEMMA RightStays ==
    ASSUME Base, [Next]_vars, NEW tp, NEW o, RightOnce(tp, o)
    PROVE  RightOnce(tp, o)'
<1>1. PICK i \in DOMAIN past : Right(tp, o, past[i])
  BY DEF RightOnce
<1>2. i \in DOMAIN past' /\ past'[i] = past[i] /\ ask' = ask
  BY PastGrows, StoredKept DEF Base
<1>3. Right(tp, o, past[i])'
  BY <1>1, <1>2 DEF Right, AfterMilli
<1> QED
  BY <1>2, <1>3 DEF RightOnce

(* What is right now was right at a time since the request came.           *)
LEMMA RightNow ==
    ASSUME PastIsKept, NEW tp, NEW o, Right(tp, o, Now)
    PROVE  RightOnce(tp, o)
<1>1. Len(past) \in DOMAIN past /\ past[Len(past)] = Now
  BY DEF PastIsKept
<1> QED
  BY <1>1 DEF RightOnce

(* The offsets planned were right when they were read: those of the plan,  *)
(* and those found so far, where a partition that is gone counts as 0.     *)
Planned ==
    /\ ask.id \in {"G4", "G7"} => \A tp \in DOMAIN plan : \A o : o = plan[tp] => RightOnce(tp, o)
    /\ ask.id = "G4" /\ pc \in {"http", "describe", "own", "scope", "targets"} =>
          /\ DOMAIN seen.own \subseteq TPs /\ seen.scope \subseteq TPs
          /\ pc # "targets" => DOMAIN seen.after = {}
          /\ pc = "targets" =>
                /\ ask.offsets # <<>> => seen.scope = DOMAIN ask.offsets /\ DOMAIN seen.after = {}
                /\ ask.offsets = <<>> =>
                      \A tp \in seen.scope :
                          tp[1] \in seen.todo \/ \A o : o = Get(seen.after, tp) => RightOnce(tp, o)
                /\ \A tp \in DOMAIN seen.after : tp[1] \notin seen.todo

(* What G4 finds for the partitions of a topic is right now, and for those *)
(* in scope that the topic has lost it finds nothing.                      *)
LEMMA TargetIsRight ==
    ASSUME Base, ask.id = "G4", ask.offsets = <<>>, ask.mode # "other", NEW tp \in TPs
    PROVE  RightOnce(tp, IF tp \in parts THEN Target(tp) ELSE 0)
<1> DEFINE o == IF tp \in parts THEN Target(tp) ELSE 0
<1>1. Right(tp, o, Now)
  <2>1. ask.mode \in Modes
    BY DEF Base, IdleInv, Shape, Ask
  <2>2. CASE tp \in parts
    BY <2>1, <2>2 DEF Right, Target, Now, Modes
  <2>3. CASE tp \notin parts
    <3>1. begin[tp] = 0 /\ end[tp] = 0 /\ AfterMilli(ask.at, 0, 0, tp) = 0
      BY <2>3 DEF Base, IdleInv, Shape, AfterMilli
    <3> QED
      BY <2>1, <2>3, <3>1 DEF Right, Now, Modes
  <2> QED
    BY <2>2, <2>3
<1> QED
  BY <1>1, RightNow DEF Base

(* Every step keeps what the plan rests on: reading a topic adds right     *)
(* offsets for its partitions, and no step takes an offset away.           *)
LEMMA PlannedKept ==
    ASSUME Base, Planned, [Next]_vars
    PROVE  Planned'
<1>1. ASSUME NEW tp, NEW o, RightOnce(tp, o) PROVE RightOnce(tp, o)'
  BY <1>1, RightStays
<1>2. ask' = ask /\ ask \in Ask
  BY StoredKept DEF Base, IdleInv, Shape
<1>3. CASE UNCHANGED <<seen, plan>> /\ (pc' = pc \/ pc' \notin {"http", "describe", "own", "scope", "targets"})
  BY <1>1, <1>2, <1>3 DEF Planned
<1>4. CASE ask.id \notin {"G4", "G7"}
  BY <1>2, <1>4 DEF Planned
<1> SUFFICES ASSUME Next, ask.id \in {"G4", "G7"} PROVE Planned'
  BY <1>3, <1>4 DEF vars, reqVars
<1>5. CASE Handle
  <2>1. plan' = <<>> /\ seen' = [seen EXCEPT !.todo = {}] /\ pc = "http" /\ pc' # "targets"
    BY <1>5 DEF Handle, Reading, Goto, Reply, First
  <2> QED
    BY <1>2, <2>1 DEF Planned, Base, IdleInv, Shape
<1>6. CASE Describe
  <2>1. UNCHANGED plan /\ pc = "describe" /\ pc' # "targets"
    BY <1>6 DEF Describe, Reading, Goto, Reply
  <2>2. UNCHANGED <<seen.own, seen.scope, seen.after>>
    BY <1>6 DEF Describe, Base, IdleInv, Shape
  <2> QED
    BY <1>1, <1>2, <2>1, <2>2 DEF Planned
<1>7. CASE FetchOwn
  <2>1. UNCHANGED plan /\ pc = "own"
    BY <1>7 DEF FetchOwn, Reading
  <2>2. pc' # "targets"
    <3>1. pc' = "done" \/ Goto(CASE ask.id = "G2" -> "ends" [] ask.id = "G4" -> "scope"
                               [] ask.id = "G5" -> "confirm" [] ask.id = "G7" -> "source")
      BY <1>7 DEF FetchOwn, Reply
    <3> QED
      BY <3>1 DEF Goto
  <2>3. UNCHANGED <<seen.scope, seen.after>> /\ seen'.own \in {seen.own, committed[ask.group]}
    BY <1>7 DEF FetchOwn, Base, IdleInv, Shape
  <2>4. DOMAIN committed[ask.group] \subseteq TPs
    BY <1>2 DEF Base, AllStored, Stored, Ask
  <2> QED
    BY <1>1, <1>2, <2>1, <2>2, <2>3, <2>4 DEF Planned
<1>8. ASSUME NEW tps, tps \subseteq TPs, Scoped(tps), ResetScope, ask.offsets # <<>> => tps = DOMAIN ask.offsets
      PROVE  Planned'
  <2>1. UNCHANGED plan /\ pc = "scope" /\ pc' = "targets" /\ ask.id = "G4"
    BY <1>8 DEF ResetScope, Scoped, Reading, Goto, Base, IdleInv, Path
  <2>2. /\ UNCHANGED <<seen.own, seen.after>>
        /\ seen'.scope = tps /\ seen'.todo = {tp[1] : tp \in tps}
    BY <1>8 DEF Scoped, Base, IdleInv, Shape
  <2> QED
    BY <1>1, <1>2, <1>8, <2>1, <2>2 DEF Planned
<1>9. CASE ResetScope
  <2>1. UNCHANGED plan /\ pc = "scope" /\ ask.id = "G4"
    BY <1>9 DEF ResetScope, Reading, Base, IdleInv, Path
  <2>2. DOMAIN seen.own \subseteq TPs /\ seen.scope \subseteq TPs /\ DOMAIN seen.after = {}
    BY <2>1 DEF Planned
  <2>3. CASE ask.offsets # <<>>
    <3>1. Scoped(DOMAIN ask.offsets)
      BY <1>9, <2>3 DEF ResetScope
    <3>2. DOMAIN ask.offsets \subseteq TPs
      <4>1. ask.offsets \in UNION {[S -> (-1)..(MaxOffset + 1)] : S \in SUBSET TPs}
        BY <1>2 DEF Ask
      <4>2. PICK S \in SUBSET TPs : ask.offsets \in [S -> (-1)..(MaxOffset + 1)]
        BY <4>1
      <4> QED
        BY <4>2
    <3> QED
      BY <1>8, <1>9, <3>1, <3>2
  <2>4. CASE ask.offsets = <<>> /\ ask.topics # {}
    <3>1. PICK t \in seen.todo :
               IF ~ Existing(t) THEN Reply("NotFound", <<>>) /\ UNCHANGED seen
               ELSE IF seen.todo = {t} THEN Scoped(seen.scope \cup Of(t))
               ELSE /\ seen' = [seen EXCEPT !.scope = @ \cup Of(t), !.todo = @ \ {t}]
                    /\ Goto("scope")
      BY <1>9, <2>4 DEF ResetScope
    <3> DEFINE all == seen.scope \cup Of(t)
    <3>2. all \subseteq TPs
      BY <2>2 DEF Of, Base, IdleInv, Shape
    <3>3. CASE Scoped(all)
      BY <1>8, <1>9, <2>4, <3>2, <3>3
    <3>4. CASE Reply("NotFound", <<>>) /\ UNCHANGED seen
      BY <1>3, <2>1, <3>4 DEF Reply
    <3>5. CASE seen' = [seen EXCEPT !.scope = all, !.todo = @ \ {t}] /\ Goto("scope")
      <4>1. UNCHANGED <<seen.own, seen.after>> /\ seen'.scope = all /\ pc' = "scope"
        BY <3>5 DEF Goto, Base, IdleInv, Shape
      <4> QED
        BY <1>1, <1>2, <2>1, <2>2, <3>2, <4>1 DEF Planned
    <3> QED
      BY <3>1, <3>3, <3>4, <3>5
  <2>5. CASE ask.offsets = <<>> /\ ask.topics = {}
    <3>1. CASE Scoped(DOMAIN seen.own)
      BY <1>8, <1>9, <2>2, <2>5, <3>1
    <3>2. CASE Reply("Validation", <<>>) /\ UNCHANGED seen
      BY <1>3, <2>1, <3>2 DEF Reply
    <3> QED
      BY <1>9, <2>5, <3>1, <3>2 DEF ResetScope
  <2> QED
    BY <2>3, <2>4, <2>5
<1>10. CASE ResetTargets
  <2>1. UNCHANGED <<plan, parts, begin, end>> /\ pc = "targets" /\ ask.id = "G4" /\ ask.offsets = <<>>
    BY <1>10 DEF ResetTargets, Reading, groupVars, Base, IdleInv, Path
  <2>2. PICK t \in seen.todo :
          IF ask.mode = "other" THEN Reply("Validation", <<>>) /\ UNCHANGED seen
          ELSE IF ~ Existing(t) THEN Reply("NotFound", <<>>) /\ UNCHANGED seen
          ELSE /\ seen' = [seen EXCEPT !.after = Over([tp \in Of(t) |-> Target(tp)], @),
                                       !.todo = @ \ {t}]
               /\ Goto("targets")
    BY <1>10 DEF ResetTargets
  <2>3. CASE pc' = "done" /\ UNCHANGED seen
    BY <1>3, <2>1, <2>3
  <2> DEFINE new == [tp \in Of(t) |-> Target(tp)]
             after == Over(new, seen.after)
  <2>4. CASE ask.mode # "other" /\ seen' = [seen EXCEPT !.after = after, !.todo = @ \ {t}] /\ Goto("targets")
    <3>1. /\ UNCHANGED <<seen.own, seen.scope>> /\ pc' = "targets"
          /\ seen'.after = after /\ seen'.todo = seen.todo \ {t}
      BY <2>4 DEF Goto, Base, IdleInv, Shape
    <3>2. /\ DOMAIN after = Of(t) \cup DOMAIN seen.after
          /\ \A tp \in Of(t) : after[tp] = Target(tp)
          /\ \A tp \in DOMAIN seen.after \ Of(t) : after[tp] = seen.after[tp]
      BY DEF Over
    <3>3. \A tp \in Of(t) : tp \in parts /\ tp[1] = t
      BY DEF Of
    <3>4. \A tp \in parts : tp[1] = t => tp \in Of(t)
      BY DEF Of
    <3> HIDE DEF new, after
    <3>5. \A tp \in DOMAIN after : tp[1] \notin seen'.todo
      BY <2>1, <3>1, <3>2, <3>3 DEF Planned
    <3>6. ASSUME NEW tp \in seen.scope, tp[1] \notin seen'.todo, NEW o, o = Get(after, tp)
          PROVE  RightOnce(tp, o)'
      <4>1. tp \in TPs
        BY <2>1 DEF Planned
      <4>2. CASE tp[1] = t
        <5>1. o = IF tp \in parts THEN Target(tp) ELSE 0
          BY <2>1, <3>2, <3>3, <3>4, <3>6, <4>2 DEF Get, Planned
        <5> QED
          BY <1>1, <2>1, <2>4, <4>1, <5>1, TargetIsRight
      <4>3. CASE tp[1] # t
        <5>1. tp[1] \notin seen.todo /\ o = Get(seen.after, tp)
          BY <3>1, <3>2, <3>3, <3>6, <4>3 DEF Get
        <5> QED
          BY <1>1, <2>1, <5>1 DEF Planned
      <4> QED
        BY <4>2, <4>3
    <3> QED
      BY <1>1, <1>2, <2>1, <3>1, <3>5, <3>6 DEF Planned
  <2> QED
    BY <2>2, <2>3, <2>4 DEF Reply
<1>11. CASE PlanReset
  <2>1. /\ UNCHANGED seen /\ pc = "targets" /\ pc' = "confirm" /\ ask.id = "G4"
        /\ ask.offsets # <<>> \/ seen.todo = {}
        /\ plan' = [tp \in seen.scope |-> Get(Over(seen.after, ask.offsets), tp)]
    BY <1>11 DEF PlanReset, Reading, Goto, Base, IdleInv, Path
  <2> SUFFICES ASSUME NEW tp \in seen.scope, NEW o, o = Get(Over(seen.after, ask.offsets), tp)
               PROVE  RightOnce(tp, o)
    BY <1>1, <1>2, <2>1 DEF Planned
  <2>2. CASE ask.offsets # <<>>
    <3>1. o = ask.offsets[tp]
      BY <2>1, <2>2 DEF Planned, Get, Over
    <3>2. Right(tp, o, Now)
      BY <2>1, <2>2, <3>1 DEF Right
    <3> QED
      BY <3>2, RightNow DEF Base
  <2>3. CASE ask.offsets = <<>>
    <3>1. DOMAIN ask.offsets = {}
      BY <2>3
    <3>2. o = Get(seen.after, tp)
      BY <3>1 DEF Get, Over
    <3> QED
      BY <2>1, <2>3, <3>2 DEF Planned
  <2> QED
    BY <2>2, <2>3
<1>12. CASE FetchSource
  <2>1. UNCHANGED seen /\ pc = "source" /\ ask.id = "G7"
    BY <1>12 DEF FetchSource, Reading, Base, IdleInv, Path
  <2>2. CASE UNCHANGED plan
    BY <1>1, <1>2, <2>1, <2>2 DEF Planned
  <2> DEFINE map == committed[ask.source]
  <2>3. CASE plan' = [tp \in {x \in DOMAIN map : ask.topics = {} \/ x[1] \in ask.topics} |-> map[tp]]
    <3>1. ASSUME NEW tp \in DOMAIN plan', NEW o, o = plan'[tp] PROVE RightOnce(tp, o)
      <4>1. Right(tp, o, Now)
        BY <2>1, <2>3, <3>1 DEF Right, Now
      <4> QED
        BY <4>1, RightNow DEF Base
    <3> QED
      BY <1>1, <1>2, <2>1, <3>1 DEF Planned
  <2> QED
    BY <1>12, <2>2, <2>3 DEF FetchSource
<1>13. CASE OthersMove
  BY <1>3, <1>13 DEF OthersMove, Others, reqVars, Joins, Leaves, Commits, Produces, Trims, Replaced, Vanishes
<1> QED
  BY <1>3, <1>5, <1>6, <1>7, <1>9, <1>10, <1>11, <1>12, <1>13
     DEF Next, Request, Base, IdleInv, Path, Reading, Goto, Reply, ReadFails, ListGroups, CountMembers, ReadEnds,
         DescribeAll, FetchNext, Confirm, Attempt, AttemptFails, CheckIdle, CommitOffsets, DeleteGroup, LeaveGroup,
         Apply, Applied, ApplyFails

(* The parts of DoneAsTold that are not about what was right.              *)
Told ==
    /\ reply.code = "ok" /\ ask.id \in {"G4", "G7"} => done = Moves(plan)
    /\ reply.code = "ok" /\ ask.id \in {"G5", "G6"} => done = reply.value
    /\ reply.code \notin {"", "ok", "KafkaError"} => done = {}

(* Only the three last port calls do anything, and each tells of it.       *)
LEMMA ToldKept ==
    ASSUME Base, Told, [Next]_vars
    PROVE  Told'
<1>1. ask' = ask
  BY StoredKept
<1>2. CASE UNCHANGED <<reply, plan, done>>
  BY <1>1, <1>2 DEF Told, Moves
<1>3. ASSUME done' = {}, \/ reply'.code # "ok"
                         \/ ask.id \notin {"G4", "G5", "G6", "G7"}
      PROVE  Told'
  BY <1>1, <1>3 DEF Told
<1>4. CASE CommitOffsets
  <2> DEFINE kept == Restrict(plan, parts \cap DOMAIN plan)
  <2>1. /\ ask.id \in {"G4", "G7"} /\ UNCHANGED plan
        /\ done' = Moves(kept)
        /\ IF kept = plan THEN Applied(plan) ELSE Reply("KafkaError", <<>>)
    BY <1>4 DEF CommitOffsets, Apply, Base, IdleInv, Path
  <2>2. Moves(plan)' = Moves(plan)
    BY <2>1 DEF Moves
  <2>3. CASE kept = plan
    <3>1. reply'.code \in {"ok", "KafkaError"}
      BY <2>1, <2>3 DEF Applied, Reply
    <3>2. done' = Moves(plan)'
      BY <2>1, <2>2, <2>3
    <3> QED
      BY <1>1, <2>1, <3>1, <3>2 DEF Told
  <2>4. CASE kept # plan
    <3>1. reply'.code = "KafkaError"
      BY <2>1, <2>4 DEF Reply
    <3> QED
      BY <1>1, <3>1 DEF Told
  <2> QED
    BY <2>3, <2>4
<1>5. CASE DeleteGroup
  <2>1. ask.id = "G5" /\ done = {}
    BY <1>5 DEF DeleteGroup, Apply, Base, IdleInv, Path
  <2>2. \/ done' = {ask.group} /\ Applied({ask.group})
        \/ done' = {} /\ reply'.code # "ok"
    BY <1>5, <2>1 DEF DeleteGroup, Reply
  <2> DEFINE gone == {ask.group}
  <2>3. \/ done' = gone /\ \/ reply'.code = "ok" /\ reply'.value = gone
                           \/ reply'.code = "KafkaError"
        \/ done' = {} /\ reply'.code # "ok"
    BY <2>2 DEF Applied, Reply
  <2> HIDE DEF gone
  <2> QED
    BY <1>1, <1>3, <2>1, <2>3 DEF Told
<1>6. CASE LeaveGroup
  <2> DEFINE gone == plan \cap members[ask.group]
  <2>1. ask.id = "G6" /\ done = {}
    BY <1>6 DEF LeaveGroup, Apply, Base, IdleInv, Path
  <2>2. \/ done' = gone /\ Applied(gone)
        \/ done' = {} /\ reply'.code # "ok"
    BY <1>6, <2>1 DEF LeaveGroup, Reply
  <2>3. \/ done' = gone /\ \/ reply'.code = "ok" /\ reply'.value = gone
                           \/ reply'.code = "KafkaError"
        \/ done' = {} /\ reply'.code # "ok"
    BY <2>2 DEF Applied, Reply
  <2> HIDE DEF gone
  <2> QED
    BY <1>1, <1>3, <2>1, <2>3 DEF Told
<1>7. CASE OthersMove
  BY <1>2, <1>7 DEF OthersMove, Others, reqVars, Joins, Leaves, Commits, Produces, Trims, Replaced, Vanishes
<1>8. CASE Attempt
  <2>1. UNCHANGED <<reply, plan, done>>
    BY <1>8 DEF Attempt, Goto
  <2> QED
    BY <1>2, <2>1
<1>9. CASE CountMembers \/ ReadEnds \/ FetchNext
  <2>1. ask.id \in {"G1", "G2", "G3"} /\ done' = {}
    BY <1>9 DEF CountMembers, ReadEnds, FetchNext, Reading, history, Base, IdleInv, Path
  <2> QED
    BY <1>3, <2>1
<1>10. ASSUME Request, ~ CommitOffsets, ~ DeleteGroup, ~ LeaveGroup, ~ Attempt, ~ CountMembers, ~ ReadEnds, ~ FetchNext
       PROVE  Told'
  <2>1. UNCHANGED done /\ pc # "done"
    BY <1>10 DEF Request, Reading, history, Handle, ReadFails, ListGroups, Describe, FetchOwn, ResetScope,
         ResetTargets, PlanReset, FetchSource, DescribeAll, Confirm, AttemptFails, CheckIdle, ApplyFails
  <2>2. done' = {} /\ reply.code = ""
    BY <2>1 DEF Base, IdleInv, Path
  <2>3. reply'.code # "ok"
    <3>1. UNCHANGED reply \/ reply'.code # "ok"
      <4> USE DEF Goto, Reply
      <4>1. CASE Handle
        BY <4>1 DEF Handle
      <4>6. CASE ReadFails
        BY <4>6 DEF ReadFails
      <4>8. CASE ListGroups
        <5>1. Goto("counts")
          BY <4>8 DEF ListGroups
        <5> QED
          BY <5>1
      <4>2. CASE Describe \/ FetchOwn
        BY <4>2 DEF Describe, FetchOwn
      <4>3. CASE ResetScope
        <5>1. pc' # "done" => UNCHANGED reply
          BY <4>3 DEF ResetScope, Scoped
        <5>2. pc' = "done" => reply'.code # "ok"
          BY <4>3 DEF ResetScope, Scoped
        <5> QED
          BY <5>1, <5>2
      <4>7. CASE ResetTargets
        BY <4>7 DEF ResetTargets
      <4>4. CASE PlanReset \/ FetchSource \/ DescribeAll
        BY <4>4 DEF PlanReset, FetchSource, DescribeAll
      <4>5. CASE Confirm \/ AttemptFails \/ CheckIdle \/ ApplyFails
        BY <4>5 DEF Confirm, AttemptFails, CheckIdle, ApplyFails
      <4> QED
        BY <1>10, <4>1, <4>2, <4>3, <4>4, <4>5, <4>6, <4>7, <4>8 DEF Request
    <3> QED
      BY <2>2, <3>1
  <2> QED
    BY <1>3, <2>2, <2>3
<1> QED
  BY <1>2, <1>4, <1>5, <1>6, <1>7, <1>8, <1>9, <1>10 DEF Next, vars, reqVars, history

(* The parts of the invariant hold at the start.                           *)
LEMMA InitBase == Init => Base
<1> SUFFICES ASSUME Init PROVE Base
  OBVIOUS
<1>1. IdleInv
  BY InitShape DEF Init, IdleInv, Watched, IdleWhenChanged
<1>2. PastIsKept
  <2> DEFINE S == {Now}
  <2>1. past = <<Now>> /\ Now \in S
    BY DEF Init
  <2>2. <<Now>> \in Seq(S) /\ Len(<<Now>>) = 1 /\ <<Now>>[1] = Now
    BY <2>1
  <2> QED
    BY <2>1, <2>2 DEF PastIsKept, Range
<1>3. AllStored
  BY StartsAssumption DEF Init, AllStored, Stored, AreOffsets
<1> QED
  BY <1>1, <1>2, <1>3 DEF Base

(* Every step keeps them.                                                  *)
LEMMA BaseKept == Base /\ [Next]_vars => Base'
BY ShapeKept, IdleKept, PastGrows, StoredKept DEF Base, IdleInv

(* Success of G4 and G7 means that the whole plan is committed, each       *)
(* offset of which was right at a time since the request came; G5 and G6   *)
(* name what they did; a refusal or a plan has changed nothing - whatever  *)
(* members, producers, retention and operators do meanwhile.               *)
THEOREM ToldAsDone == Spec => []DoneAsTold
<1> DEFINE Inv == Base /\ Planned /\ Told
<1>1. Init => Inv
  <2> SUFFICES ASSUME Init PROVE Planned /\ Told
    BY InitBase
  <2>1. /\ plan = <<>> /\ seen = Unseen /\ pc = "http" /\ done = {} /\ reply.code = ""
    BY DEF Init
  <2>2. DOMAIN plan = {} /\ DOMAIN seen.own = {} /\ seen.scope = {} /\ DOMAIN seen.after = {}
    <3>1. DOMAIN <<>> = {}
      OBVIOUS
    <3> QED
      BY <2>1, <3>1 DEF Unseen
  <2>3. Planned
    BY <2>1, <2>2 DEF Planned
  <2> QED
    BY <2>1, <2>3 DEF Told
<1>2. Inv /\ [Next]_vars => Inv'
  BY BaseKept, PlannedKept, ToldKept
<1>3. Inv => DoneAsTold
  BY DEF Planned, Told, RightOnce, DoneAsTold
<1> QED
  BY <1>1, <1>2, <1>3, PTL DEF Spec

-----------------------------------------------------------------------------
(* The end that a partition had at the i-th moment or later.               *)
EndSince(i, tp, e) == \E j \in DOMAIN past : i <= j /\ past[j].end[tp] = e

(* The lag that LagIsReal asks for.                                        *)
RealLag(g, tp, v) ==
    \E i, j \in DOMAIN past :
        /\ IF ask.id = "G2" THEN i <= j ELSE j <= i
        /\ tp \in DOMAIN past[i].committed[g]
        /\ LET lag == past[j].end[tp] - past[i].committed[g][tp]
           IN  v = IF lag < 0 THEN 0 ELSE lag

AllReal(lags) == \A g \in DOMAIN lags : \A tp \in DOMAIN lags[g] : \A v : v = lags[g][tp] => RealLag(g, tp, v)

(* G2 holds the offsets of one moment and ends of that or later ones; G3   *)
(* holds ends it found, and lags.                                          *)
Lagging ==
    /\ ask.id = "G2" /\ pc \in {"http", "describe", "own"} => DOMAIN seen.ends = {}
    /\ ask.id = "G2" /\ pc = "ends" =>
          /\ Stored(seen.own)
          /\ \A tp \in DOMAIN seen.ends : tp[1] \notin seen.todo /\ seen.ends[tp] \in Nat
          /\ \E i \in DOMAIN past :
                /\ seen.own = past[i].committed[ask.group]
                /\ \A tp \in DOMAIN seen.own :
                      tp[1] \in seen.todo \/ \A e : e = Get(seen.ends, tp) => EndSince(i, tp, e)
    /\ ask.id = "G3" /\ pc \in {"http", "ends"} => DOMAIN seen.own = {} /\ DOMAIN seen.ends = {}
    /\ pc \in {"all", "offsets"} =>
          \A tp \in DOMAIN seen.ends : seen.ends[tp] \in Nat /\ \A e : e = seen.ends[tp] => EndSince(0, tp, e)
    /\ pc = "offsets" => AllReal(seen.own)
    /\ reply.code = "ok" /\ ask.id \in {"G2", "G3"} => AllReal(reply.value)

(* An end that was found stays found.                                      *)
LEMMA EndStays ==
    ASSUME PastIsKept, [Next]_vars, NEW i, NEW tp, NEW e, EndSince(i, tp, e)
    PROVE  EndSince(i, tp, e)'
BY PastGrows DEF EndSince

(* The end that a partition has now is one it had since any moment.        *)
LEMMA EndNow ==
    ASSUME PastIsKept, NEW i \in DOMAIN past \cup {0}, NEW tp, NEW e, e = end[tp]
    PROVE  EndSince(i, tp, e)
<1>1. Len(past) \in DOMAIN past /\ past[Len(past)] = Now /\ i <= Len(past)
  BY DEF PastIsKept
<1> QED
  BY <1>1 DEF EndSince, Now

(* A lag that was real stays so.                                           *)
LEMMA LagStays ==
    ASSUME Base, [Next]_vars, NEW g, NEW tp, NEW v, RealLag(g, tp, v)
    PROVE  RealLag(g, tp, v)'
<1>1. PICK i \in DOMAIN past, j \in DOMAIN past :
          /\ IF ask.id = "G2" THEN i <= j ELSE j <= i
          /\ tp \in DOMAIN past[i].committed[g]
          /\ LET lag == past[j].end[tp] - past[i].committed[g][tp]
             IN  v = IF lag < 0 THEN 0 ELSE lag
  BY DEF RealLag
<1>2. /\ i \in DOMAIN past' /\ past'[i] = past[i]
      /\ j \in DOMAIN past' /\ past'[j] = past[j]
      /\ ask' = ask
  BY PastGrows, StoredKept DEF Base
<1> QED
  BY <1>1, <1>2 DEF RealLag

(* A lag computed from offsets of the i-th moment and an end of the j-th.  *)
LEMMA LagFound ==
    ASSUME NEW g, NEW tp, NEW i \in DOMAIN past, NEW j \in DOMAIN past, NEW ends, NEW offsets,
           IF ask.id = "G2" THEN i <= j ELSE j <= i,
           offsets = past[i].committed[g], tp \in DOMAIN offsets, offsets[tp] \in Int,
           Get(ends, tp) \in Nat, past[j].end[tp] = Get(ends, tp),
           NEW v, v = Lag(ends, offsets, tp)
    PROVE  RealLag(g, tp, v)
<1> DEFINE e == Get(ends, tp)
           o == offsets[tp]
<1>1. v = IF e - o < 0 THEN 0 ELSE e - o
  <2>1. v = IF e < o THEN 0 ELSE e - o
    BY DEF Lag
  <2>2. e \in Int /\ o \in Int
    OBVIOUS
  <2> HIDE DEF e, o
  <2> QED
    BY <2>1, <2>2
<1> QED
  BY <1>1 DEF RealLag

(* Every step keeps what the views rest on: what is read next is read at   *)
(* the last moment of the history, so after all that was read before.      *)
LEMMA LaggingKept ==
    ASSUME Base, Lagging, [Next]_vars
    PROVE  Lagging'
<1>1. ask' = ask /\ ask \in Ask /\ Base'
  BY StoredKept, BaseKept DEF Base, IdleInv, Shape
<1>2. ASSUME NEW g, NEW tp, NEW v, RealLag(g, tp, v) PROVE RealLag(g, tp, v)'
  BY <1>2, LagStays
<1>3. ASSUME NEW i, NEW tp, NEW e, EndSince(i, tp, e) PROVE EndSince(i, tp, e)'
  BY <1>3, EndStays DEF Base
<1>4. \A i \in DOMAIN past : i \in DOMAIN past' /\ past'[i] = past[i]
  BY PastGrows DEF Base
<1>5. CASE UNCHANGED <<seen, pc, reply>>
  <2>1. /\ ask.id = "G2" /\ pc = "ends" =>
              \E i \in DOMAIN past' :
                 /\ seen.own = past'[i].committed[ask.group]
                 /\ \A tp \in DOMAIN seen.own :
                       tp[1] \in seen.todo \/ \A e : e = Get(seen.ends, tp) => EndSince(i, tp, e)'
    BY <1>3, <1>4 DEF Lagging
  <2>2. Stored(seen.own) => Stored(seen.own)'
    BY <1>1, <1>5 DEF Stored
  <2>3. AllReal(seen.own) => AllReal(seen.own)'
    BY <1>2, <1>5 DEF AllReal
  <2>4. AllReal(reply.value) => AllReal(reply.value)'
    BY <1>2, <1>5 DEF AllReal
  <2> QED
    BY <1>1, <1>3, <1>5, <2>1, <2>2, <2>3, <2>4 DEF Lagging, Get
<1>6. CASE pc' = "done" /\ (reply'.code = "ok" /\ ask.id \in {"G2", "G3"} => AllReal(reply.value)')
  BY <1>1, <1>6 DEF Lagging
<1>7. CASE ask.id \notin {"G2", "G3"}
  BY <1>1, <1>7 DEF Lagging, Base, IdleInv, Path
<1> SUFFICES ASSUME Next, ask.id \in {"G2", "G3"} PROVE Lagging'
  BY <1>5, <1>7 DEF vars, reqVars
<1>8. CASE Handle
  <2>1. /\ pc = "http" /\ reply.code = ""
        /\ UNCHANGED <<seen.own, seen.ends>>
    BY <1>8 DEF Handle, Reading, Base, IdleInv, Shape, Path
  <2>2. \/ pc' = "done" /\ reply'.code # "ok"
        \/ UNCHANGED reply /\ pc' = First
    BY <1>8 DEF Handle, Goto, Reply
  <2>3. (ask.id = "G2" => First = "describe") /\ (ask.id = "G3" => First = "ends")
    BY DEF First
  <2> QED
    BY <1>1, <1>6, <2>1, <2>2, <2>3 DEF Lagging
<1>9. CASE ReadFails
  BY <1>6, <1>9 DEF ReadFails, Reply
<1>10. CASE Describe
  <2>1. /\ pc = "describe" /\ reply.code = "" /\ ask.id = "G2"
        /\ UNCHANGED seen.ends
    BY <1>10 DEF Describe, Reading, Base, IdleInv, Shape, Path
  <2>2. \/ pc' = "done" /\ reply'.code # "ok"
        \/ UNCHANGED reply /\ pc' = "own"
    <3>1. CASE ask.group \notin known
      <4>1. Reply("NotFound", <<>>)
        BY <1>10, <2>1, <3>1 DEF Describe
      <4> QED
        BY <4>1 DEF Reply
    <3>2. CASE ask.group \in known
      <4>1. Goto("own")
        BY <1>10, <2>1, <3>2 DEF Describe
      <4> QED
        BY <4>1 DEF Goto
    <3> QED
      BY <3>1, <3>2
  <2> QED
    BY <1>1, <1>6, <2>1, <2>2 DEF Lagging
<1>11. CASE FetchOwn
  <2>1. pc = "own" /\ reply.code = "" /\ ask.id = "G2"
    BY <1>11 DEF FetchOwn, Reading, Base, IdleInv, Shape, Path
  <2>2. CASE ask.group \notin known
    BY <1>6, <1>11, <2>2 DEF FetchOwn, Reply
  <2>3. CASE ask.group \in known
    <3> DEFINE own == committed[ask.group]
    <3>1. /\ seen' = [seen EXCEPT !.own = own,
                                  !.todo = IF ask.id = "G2" THEN {tp[1] : tp \in DOMAIN own} ELSE @]
          /\ Goto(CASE ask.id = "G2" -> "ends" [] ask.id = "G4" -> "scope"
                    [] ask.id = "G5" -> "confirm" [] ask.id = "G7" -> "source")
      BY <1>11, <2>3 DEF FetchOwn
    <3>2. pc' = "ends" /\ UNCHANGED reply
      BY <2>1, <3>1 DEF Goto
    <3>3. seen'.own = own /\ seen'.todo = {tp[1] : tp \in DOMAIN own} /\ UNCHANGED seen.ends
      BY <2>1, <3>1 DEF Base, IdleInv, Shape
    <3>4. Stored(own)
      BY <1>1 DEF Base, AllStored, Ask
    <3>5. Len(past) \in DOMAIN past /\ past[Len(past)].committed[ask.group] = own
      BY DEF Base, PastIsKept, Now
    <3> HIDE DEF own
    <3>6. \A tp \in DOMAIN own : tp[1] \in seen'.todo
      BY <3>3
    <3>7. Stored(seen.own)'
      BY <1>1, <3>3, <3>4 DEF Stored
    <3>8. \E i \in DOMAIN past' :
              /\ seen'.own = past'[i].committed[ask.group]
              /\ \A tp \in DOMAIN seen'.own : tp[1] \in seen'.todo
      BY <1>4, <3>3, <3>5, <3>6
    <3> QED
      BY <1>1, <2>1, <3>2, <3>3, <3>7, <3>8 DEF Lagging
  <2> QED
    BY <2>2, <2>3
<1>12. CASE DescribeAll
  <2>1. /\ pc = "all" /\ pc' = "offsets" /\ reply.code = "" /\ ask.id = "G3" /\ UNCHANGED reply
        /\ seen'.own = <<>> /\ UNCHANGED seen.ends
    BY <1>12 DEF DescribeAll, Reading, Goto, Base, IdleInv, Shape, Path
  <2>2. AllReal(seen.own)'
    <3>1. DOMAIN <<>> = {}
      OBVIOUS
    <3> QED
      BY <2>1, <3>1 DEF AllReal
  <2> QED
    BY <1>1, <1>3, <2>1, <2>2 DEF Lagging
<1>13. CASE OthersMove
  BY <1>5, <1>13 DEF OthersMove, Others, reqVars, Joins, Leaves, Commits, Produces, Trims, Replaced, Vanishes
<1>14. CASE ReadEnds
  <2>1. pc = "ends" /\ reply.code = "" /\ UNCHANGED groupVars
    BY <1>14 DEF ReadEnds, Reading, Base, IdleInv, Path
  <2>2. CASE seen.todo = {}
    <3> DEFINE lags == Lags(seen.ends, seen.own, DOMAIN seen.own)
               told == Only(ask.group, lags)
    <3>1. pc' = "done" /\ reply'.value = told
      BY <1>14, <2>2 DEF ReadEnds, Reply
    <3>2. DOMAIN told = {ask.group} /\ told[ask.group] = lags
      BY OnlyDef
    <3>3. DOMAIN lags = DOMAIN seen.own /\ \A tp \in DOMAIN lags : lags[tp] = Lag(seen.ends, seen.own, tp)
      BY DEF Lags
    <3> HIDE DEF lags, told
    <3>4. ASSUME NEW tp \in DOMAIN lags, NEW v, v = lags[tp] PROVE RealLag(ask.group, tp, v)
      <4>1. ask.id = "G2"
        BY <2>1, <3>3, <3>4 DEF Lagging
      <4>2. PICK i \in DOMAIN past :
                /\ seen.own = past[i].committed[ask.group]
                /\ \A x \in DOMAIN seen.own :
                      x[1] \in seen.todo \/ \A e : e = Get(seen.ends, x) => EndSince(i, x, e)
        BY <2>1, <4>1 DEF Lagging
      <4> DEFINE e == Get(seen.ends, tp)
      <4>3. EndSince(i, tp, e)
        BY <2>2, <3>3, <4>2
      <4>4. PICK j \in DOMAIN past : i <= j /\ past[j].end[tp] = e
        BY <4>3 DEF EndSince
      <4>5. e \in Nat /\ seen.own[tp] \in Int
        BY <2>1, <3>3, <4>1 DEF Lagging, Get, Stored
      <4> HIDE DEF e
      <4> QED
        BY <3>3, <3>4, <4>1, <4>2, <4>4, <4>5, LagFound DEF e
    <3>5. AllReal(reply.value)'
      BY <1>2, <3>1, <3>2, <3>4 DEF AllReal
    <3> QED
      BY <1>6, <3>1, <3>5
  <2>3. ASSUME seen.todo # {}, NEW t \in seen.todo,
               ~ Existing(t) /\ Reply("NotFound", <<>>)
        PROVE  Lagging'
    BY <1>6, <2>3 DEF Reply
  <2>4. ASSUME NEW t \in seen.todo,
               seen' = [seen EXCEPT !.ends = Over(EndsOf(t), @), !.todo = @ \ {t}],
               Goto(IF ask.id = "G3" THEN "all" ELSE "ends")
        PROVE  Lagging'
    <3> DEFINE new == EndsOf(t)
               all == Over(new, seen.ends)
    <3>1. /\ UNCHANGED <<seen.own, reply>> /\ seen'.todo = seen.todo \ {t} /\ seen'.ends = all
          /\ pc' = IF ask.id = "G3" THEN "all" ELSE "ends"
      BY <2>4 DEF Goto, Base, IdleInv, Shape
    <3>2. /\ DOMAIN all = DOMAIN new \cup DOMAIN seen.ends
          /\ \A tp \in DOMAIN new : all[tp] = new[tp]
          /\ \A tp \in DOMAIN seen.ends \ DOMAIN new : all[tp] = seen.ends[tp]
      BY OverDef
    <3>3. /\ \A tp : tp \in DOMAIN new <=> tp \in parts /\ tp[1] = t
          /\ \A tp \in DOMAIN new : new[tp] = end[tp] /\ end[tp] \in Nat
      BY DEF EndsOf, Of, Base, IdleInv, Shape
    <3> HIDE DEF new, all
    <3>4. CASE ask.id = "G3"
      <4>1. DOMAIN all = DOMAIN new
        BY <2>1, <3>2, <3>4 DEF Lagging
      <4>2. ASSUME NEW tp \in DOMAIN all PROVE all[tp] \in Nat /\ \A e : e = all[tp] => EndSince(0, tp, e)'
        <5>1. all[tp] = end[tp] /\ all[tp] \in Nat
          BY <3>2, <3>3, <4>1
        <5>2. \A e : e = all[tp] => EndSince(0, tp, e)
          BY <5>1, EndNow DEF Base
        <5> QED
          BY <1>3, <5>1, <5>2
      <4> QED
        BY <1>1, <2>1, <3>1, <3>4, <4>2 DEF Lagging
    <3>5. CASE ask.id = "G2"
      <4>1. PICK i \in DOMAIN past :
                /\ seen.own = past[i].committed[ask.group]
                /\ \A x \in DOMAIN seen.own :
                      x[1] \in seen.todo \/ \A e : e = Get(seen.ends, x) => EndSince(i, x, e)
        BY <2>1, <3>5 DEF Lagging
      <4>2. /\ Stored(seen.own)
            /\ \A tp \in DOMAIN seen.ends : tp[1] \notin seen.todo /\ seen.ends[tp] \in Nat
        BY <2>1, <3>5 DEF Lagging
      <4>3. \A tp \in DOMAIN all : tp[1] \notin seen'.todo /\ all[tp] \in Nat
        BY <3>1, <3>2, <3>3, <4>2
      <4>4. ASSUME NEW tp \in DOMAIN seen.own, tp[1] \notin seen'.todo, NEW e, e = Get(all, tp)
            PROVE  EndSince(i, tp, e)'
        <5>1. CASE tp[1] = t
          <6>1. tp \in TPs /\ tp \notin DOMAIN seen.ends
            BY <4>2, <5>1 DEF Stored
          <6>2. e = end[tp]
            BY <3>2, <3>3, <4>4, <5>1, <6>1 DEF Get, Base, IdleInv, Shape
          <6> QED
            BY <1>3, <6>2, EndNow DEF Base
        <5>2. CASE tp[1] # t
          <6>1. tp[1] \notin seen.todo /\ e = Get(seen.ends, tp)
            BY <3>1, <3>2, <3>3, <4>4, <5>2 DEF Get
          <6> QED
            BY <1>3, <4>1, <6>1
        <5> QED
          BY <5>1, <5>2
      <4>5. i \in DOMAIN past' /\ past'[i] = past[i]
        BY <1>4
      <4>6. Stored(seen.own)'
        BY <1>1, <3>1, <4>2 DEF Stored
      <4> QED
        BY <1>1, <2>1, <3>1, <3>5, <4>1, <4>3, <4>4, <4>5, <4>6 DEF Lagging
    <3> QED
      BY <3>4, <3>5
  <2> QED
    BY <1>14, <2>2, <2>3, <2>4 DEF ReadEnds
<1>15. CASE FetchNext
  <2>1. pc = "offsets" /\ reply.code = "" /\ ask.id = "G3" /\ UNCHANGED groupVars /\ AllReal(seen.own)
    BY <1>15 DEF FetchNext, Reading, Base, IdleInv, Path, Lagging
  <2>2. AllReal(seen.own) => \A g \in DOMAIN seen.own : \A tp \in DOMAIN seen.own[g] :
                               \A v : v = seen.own[g][tp] => RealLag(g, tp, v)'
    BY <1>2 DEF AllReal
  <2>3. CASE seen.listed = <<>>
    <3>1. pc' = "done" /\ reply'.value = seen.own
      BY <1>15, <2>3 DEF FetchNext, Reply
    <3>2. AllReal(reply.value)'
      BY <2>1, <2>2, <3>1 DEF AllReal
    <3> QED
      BY <1>6, <3>1, <3>2
  <2>4. CASE seen.listed # <<>> /\ Head(seen.listed) \notin known
    BY <1>6, <1>15, <2>4 DEF FetchNext, Reply
  <2>5. CASE seen.listed # <<>> /\ Head(seen.listed) \in known
    <3> DEFINE g == Head(seen.listed)
               tps == DOMAIN seen.ends \cap DOMAIN committed[g]
               lags == Lags(seen.ends, committed[g], tps)
               new == Only(g, lags)
               all == Over(new, seen.own)
    <3>1. UNCHANGED <<reply, seen.ends>> /\ pc' = "offsets" /\ seen'.own \in {seen.own, all}
      BY <1>15, <2>5 DEF FetchNext, Goto, Base, IdleInv, Shape
    <3>2. DOMAIN new = {g} /\ new[g] = lags
      BY OnlyDef
    <3>3. DOMAIN lags = tps /\ \A tp \in tps : lags[tp] = Lag(seen.ends, committed[g], tp)
      BY DEF Lags
    <3>4. /\ DOMAIN all = DOMAIN new \cup DOMAIN seen.own
          /\ \A x \in DOMAIN new : all[x] = new[x]
          /\ \A x \in DOMAIN seen.own \ DOMAIN new : all[x] = seen.own[x]
      BY OverDef
    <3>5. g \in Groups
      BY <2>5 DEF Base, IdleInv, Shape
    <3>6. Len(past) \in DOMAIN past /\ past[Len(past)].committed[g] = committed[g] /\ DOMAIN past = 1..Len(past)
      BY DEF Base, PastIsKept, Now
    <3> HIDE DEF g, lags, new, all
    <3>7. ASSUME NEW tp \in tps, NEW v, v = lags[tp] PROVE RealLag(g, tp, v)
      <4> DEFINE e == Get(seen.ends, tp)
                 offsets == committed[g]
      <4>1. EndSince(0, tp, e) /\ e \in Nat
        BY <2>1 DEF Lagging, Get
      <4>2. PICK j \in DOMAIN past : past[j].end[tp] = e
        BY <4>1 DEF EndSince
      <4>3. tp \in DOMAIN offsets /\ offsets[tp] \in Int
        BY <2>1, <3>5 DEF Base, AllStored, Stored
      <4>4. j <= Len(past) /\ v = Lag(seen.ends, offsets, tp)
        BY <3>3, <3>6, <3>7
      <4> HIDE DEF e, offsets
      <4>5. e = Get(seen.ends, tp) /\ offsets = past[Len(past)].committed[g]
        BY <3>6 DEF e, offsets
      <4> QED
        BY <2>1, <3>6, <4>1, <4>2, <4>3, <4>4, <4>5, LagFound
    <3>8. AllReal(seen.own)'
      <4>1. CASE seen'.own = seen.own
        BY <2>1, <2>2, <4>1 DEF AllReal
      <4>2. CASE seen'.own = all
        <5> SUFFICES ASSUME NEW x \in DOMAIN all, NEW tp \in DOMAIN all[x], NEW v, v = all[x][tp]
                     PROVE  RealLag(x, tp, v)'
          BY <4>2 DEF AllReal
        <5>1. CASE x = g
          BY <1>2, <3>2, <3>3, <3>4, <3>7, <5>1
        <5>2. CASE x # g
          BY <2>1, <2>2, <3>2, <3>4, <5>2
        <5> QED
          BY <5>1, <5>2
      <4> QED
        BY <3>1, <4>1, <4>2
    <3> QED
      BY <1>1, <1>3, <2>1, <3>1, <3>8 DEF Lagging
  <2> QED
    BY <2>3, <2>4, <2>5
<1> QED
  BY <1>7, <1>8, <1>9, <1>10, <1>11, <1>12, <1>13, <1>14, <1>15
     DEF Next, Request, Base, IdleInv, Path, Reading, ListGroups, CountMembers, ResetScope, ResetTargets, PlanReset,
         FetchSource, Confirm, Attempt, AttemptFails, CheckIdle, CommitOffsets, DeleteGroup, LeaveGroup, Apply, ApplyFails

(* The lags that G2 and G3 show are those of offsets and ends that were    *)
(* there since the request came, the ends never before the offsets in G2   *)
(* and never after them in G3.                                             *)
THEOREM LagsAreReal == Spec => []LagIsReal
<1> DEFINE Inv == Base /\ Lagging
<1>1. Init => Inv
  <2> SUFFICES ASSUME Init PROVE Lagging
    BY InitBase
  <2>1. pc = "http" /\ seen = Unseen /\ reply.code = ""
    BY DEF Init
  <2>2. DOMAIN seen.own = {} /\ DOMAIN seen.ends = {}
    <3>1. DOMAIN <<>> = {}
      OBVIOUS
    <3> QED
      BY <2>1, <3>1 DEF Unseen
  <2> QED
    BY <2>1, <2>2 DEF Lagging
<1>2. Inv /\ [Next]_vars => Inv'
  BY BaseKept, LaggingKept
<1>3. Inv => LagIsReal
  BY DEF Lagging, AllReal, RealLag, LagIsReal
<1> QED
  BY <1>1, <1>2, <1>3, PTL DEF Spec
=============================================================================
