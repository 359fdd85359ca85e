----------------------------- MODULE GroupAdmin -----------------------------
(***************************************************************************)
(* The consumer-group commands, G1 to G7 (internal/service/group), from    *)
(* their HTTP handlers to their replies: what is read of a group and of    *)
(* the topics it consumes, what is planned from it, and what is done to    *)
(* the group, while its members come, go and commit, producers append,     *)
(* retention trims and topics are replaced.  Every port call is a step.    *)
(*                                                                         *)
(* As in TopicAdmin, a request has passed its gate; sinks are left to      *)
(* Destructive.                                                            *)
(***************************************************************************)
EXTENDS Paging, FiniteSets, Functions

CONSTANTS
    Ids,         \* the ids groups may have, in order
    Members,     \* the ids members may have
    TPs,         \* the topic partitions there may be
    MaxOffset,   \* bounds the offsets
    MaxMoves,    \* bounds what others do while a request runs
    Stamp,       \* the timestamp of each record, by topic partition and offset
    Asks,        \* the requests
    Starts,      \* what Kafka may hold when one comes
    PageDefault, PageCeiling

Groups == Range(Ids)

Topics == {tp[1] : tp \in TPs}

Modes == {"earliest", "latest", "offset", "timestamp"}

(* topics: the scope of G4 and G7, or G3's topic; offsets: G4's explicit   *)
(* ones; form: whether their keys can be read; state: G1's filter.         *)
Ask ==
    [id : {"G1", "G2", "G3", "G4", "G5", "G6", "G7"}, group : Groups, source : Groups,
     topics : SUBSET Topics, mode : Modes \cup {"other"}, at : Nat,
     offsets : UNION {[S -> (-1)..(MaxOffset + 1)] : S \in SUBSET TPs}, form : {"ok", "malformed"},
     names : SUBSET Members, confirm : Groups \cup {""}, dryRun : BOOLEAN,
     state : {"", "Empty", "Stable"}, page : Nat \ {0}, pageSize : Int]

ASSUME GroupsAssumption ==
    /\ Asks \subseteq Ask
    /\ MaxOffset \in Nat /\ MaxMoves \in Nat
    /\ Stamp \in [TPs \X (0..MaxOffset) -> Nat]
    /\ IsInjective(Ids)
    /\ PageDefault \in Nat \ {0} /\ PageCeiling \in Nat

AreOffsets(o) == DOMAIN o \subseteq TPs /\ \A tp \in DOMAIN o : o[tp] \in Int

(* A partition that is not there has no records, and a group that is not   *)
(* there no members.                                                       *)
ASSUME StartsAssumption ==
    \A s \in Starts :
        /\ s.parts \subseteq TPs
        /\ s.begin \in [TPs -> Nat] /\ s.end \in [TPs -> Nat]
        /\ \A tp \in TPs \ s.parts : s.begin[tp] = 0 /\ s.end[tp] = 0
        /\ s.members \in [Groups -> SUBSET Members]
        /\ s.known \subseteq Groups
        /\ \A g \in Groups \ s.known : s.members[g] = {}
        /\ s.committed = [g \in Groups |-> s.committed[g]]
        /\ \A g \in Groups : AreOffsets(s.committed[g])

VARIABLES
    parts,       \* the topic partitions that exist
    begin, end,  \* the offsets each holds
    known,       \* the groups that exist
    members,     \* who is in each
    committed,   \* the offsets each has committed
    moves        \* what others have done

groupVars == <<parts, begin, end, known, members, committed>>

VARIABLES
    ask,     \* the request
    pc,      \* the port call it makes next
    seen,    \* what it has read
    plan,    \* what it will do: offsets to commit, or members to remove
    reply,   \* what the caller was told
    past,    \* history: what Kafka has held since the request came, in order
    idle,    \* history: the group had no members at a time after the ATTEMPT
    done     \* history: what the request did

reqVars == <<ask, pc, seen, plan, reply>>
history == <<idle, done>>
vars == <<groupVars, moves, reqVars, past, history>>

Now == [parts |-> parts, begin |-> begin, end |-> end, committed |-> committed]

Unseen ==
    [exists |-> FALSE, own |-> <<>>, scope |-> {}, todo |-> {}, after |-> <<>>, ends |-> <<>>,
     listed |-> <<>>]

Reply(code, value) == reply' = [code |-> code, value |-> value] /\ pc' = "done"

Init ==
    /\ \E s \in Starts :
          /\ parts = s.parts /\ begin = s.begin /\ end = s.end
          /\ known = s.known /\ members = s.members /\ committed = s.committed
    /\ moves = 0
    /\ ask \in Asks
    /\ pc = "http" /\ seen = Unseen /\ plan = <<>> /\ reply = [code |-> "", value |-> <<>>]
    /\ past = <<Now>> /\ idle = FALSE /\ done = {}

-----------------------------------------------------------------------------
(* What the port says. *)
Existing(topic) == \E tp \in parts : tp[1] = topic

Of(topic) == {tp \in parts : tp[1] = topic}

AfterMilli(at, b, e, tp) ==
    LET after == {o \in b..(e - 1) : Stamp[<<tp, o>>] >= at}
    IN  IF after = {} THEN e ELSE CHOOSE o \in after : \A n \in after : o <= n

(* What a Go map says of a key it does not hold. *)
Get(map, key) == IF key \in DOMAIN map THEN map[key] ELSE 0

(* A map of one entry, and a map into which another is written. *)
Only(key, value) == [k \in {key} |-> value]

Over(new, map) == [key \in DOMAIN new \cup DOMAIN map |-> IF key \in DOMAIN new THEN new[key] ELSE map[key]]

Goto(step) == pc' = step /\ UNCHANGED reply

Reading(step) == pc = step /\ UNCHANGED <<groupVars, ask, history>>

-----------------------------------------------------------------------------
(* The handlers: the page size, the keys of the offsets. *)
PageSize == IF ask.pageSize = 0 THEN PageDefault ELSE ask.pageSize

First ==
    CASE ask.id = "G1" -> "list"
      [] ask.id = "G3" -> "ends"
      [] ask.id = "G6" /\ ask.names # {} -> "confirm"
      [] OTHER -> "describe"

Handle ==
    /\ Reading("http")
    /\ IF ask.id = "G1" /\ PageSize > PageCeiling THEN Reply("BoundExceeded", <<>>)
       ELSE IF ask.id = "G4" /\ ask.form = "malformed" THEN Reply("Validation", <<>>)
       ELSE Goto(First)
    /\ plan' = IF ask.id = "G6" THEN ask.names ELSE <<>>
    /\ seen' = [seen EXCEPT !.todo = IF ask.id = "G3" THEN ask.topics ELSE {}]

ReadFails ==
    /\ pc \in {"list", "counts", "describe", "own", "source", "scope", "targets", "ends", "all", "offsets"}
    /\ Reply("KafkaError", <<>>)
    /\ UNCHANGED <<groupVars, ask, seen, plan, history>>

State(g) == IF members[g] = {} THEN "Empty" ELSE "Stable"

(* G1: a listing, then a description of what was listed. *)
ListGroups ==
    /\ Reading("list")
    /\ seen' = [seen EXCEPT !.listed =
                   SelectSeq(Ids, LAMBDA g : g \in known /\ ask.state \in {"", State(g)})]
    /\ Goto("counts")
    /\ UNCHANGED plan

CountMembers ==
    /\ Reading("counts")
    /\ LET Row(g) == <<g, Cardinality(members[g])>>
           rows == [i \in DOMAIN seen.listed |-> Row(seen.listed[i])]
       IN  IF Panics(ask.page, PageSize, Len(rows)) THEN Reply("aborted", <<>>)
           ELSE Reply("ok", PageOf(rows, ask.page, PageSize))
    /\ UNCHANGED <<seen, plan>>

(* groupState, and DescribeGroups of G2 and G6: an unknown group will do   *)
(* for G4 and G7 alone, one with members not for G4, G5 and G7.            *)
Describe ==
    /\ Reading("describe")
    /\ LET g == ask.group IN
       IF g \notin known /\ ask.id \notin {"G4", "G7"} THEN Reply("NotFound", <<>>)
       ELSE IF ask.id \in {"G4", "G5", "G7"} /\ members[g] # {} THEN Reply("GroupActive", <<>>)
       ELSE Goto(IF ask.id = "G6" THEN "confirm"
                 ELSE IF g \in known THEN "own"
                 ELSE IF ask.id = "G7" THEN "source" ELSE "scope")
    /\ plan' = IF ask.id = "G6" THEN members[ask.group] ELSE plan
    /\ seen' = [seen EXCEPT !.exists = ask.group \in known, !.todo = ask.topics]

(* FetchGroupOffsets of the group itself. *)
FetchOwn ==
    /\ Reading("own")
    /\ LET own == committed[ask.group] IN
       IF ask.group \notin known THEN Reply("NotFound", <<>>) /\ UNCHANGED seen
       ELSE /\ seen' = [seen EXCEPT !.own = own,
                                    !.todo = IF ask.id = "G2" THEN {tp[1] : tp \in DOMAIN own} ELSE @]
            /\ Goto(CASE ask.id = "G2" -> "ends" [] ask.id = "G4" -> "scope"
                      [] ask.id = "G5" -> "confirm" [] ask.id = "G7" -> "source")
    /\ UNCHANGED plan

-----------------------------------------------------------------------------
(* G4: the explicit offsets, or all partitions of the topics named, or     *)
(* those the group has committed.                                          *)
Scoped(tps) ==
    /\ seen' = [seen EXCEPT !.scope = tps, !.todo = {tp[1] : tp \in tps}]
    /\ Goto("targets")

ResetScope ==
    /\ Reading("scope")
    /\ IF ask.offsets # <<>> THEN Scoped(DOMAIN ask.offsets)
       ELSE IF ask.topics # {}
       THEN \E t \in seen.todo :
               IF ~ Existing(t) THEN Reply("NotFound", <<>>) /\ UNCHANGED seen
               ELSE IF seen.todo = {t} THEN Scoped(seen.scope \cup Of(t))
               ELSE /\ seen' = [seen EXCEPT !.scope = @ \cup Of(t), !.todo = @ \ {t}]
                    /\ Goto("scope")
       ELSE IF seen.own # <<>> THEN Scoped(DOMAIN seen.own)
       ELSE Reply("Validation", <<>>) /\ UNCHANGED seen
    /\ UNCHANGED plan

Target(tp) ==
    CASE ask.mode = "earliest" -> begin[tp]
      [] ask.mode = "latest" -> end[tp]
      [] ask.mode = "offset" -> ask.at
      [] ask.mode = "timestamp" -> AfterMilli(ask.at, begin[tp], end[tp], tp)

ResetTargets ==
    /\ Reading("targets")
    /\ ask.offsets = <<>>
    /\ \E t \in seen.todo :
          IF ask.mode = "other" THEN Reply("Validation", <<>>) /\ UNCHANGED seen
          ELSE IF ~ Existing(t) THEN Reply("NotFound", <<>>) /\ UNCHANGED seen
          ELSE /\ seen' = [seen EXCEPT !.after = Over([tp \in Of(t) |-> Target(tp)], @),
                                       !.todo = @ \ {t}]
               /\ Goto("targets")
    /\ UNCHANGED plan

(* A partition in scope that its topic has lost is reset to 0. *)
PlanReset ==
    /\ Reading("targets")
    /\ ask.offsets # <<>> \/ seen.todo = {}
    /\ plan' = [tp \in seen.scope |-> Get(Over(seen.after, ask.offsets), tp)]
    /\ Goto("confirm")
    /\ UNCHANGED seen

(* G7: the source's offsets, of the topics named if there are any. *)
FetchSource ==
    /\ Reading("source")
    /\ IF ask.source \notin known THEN Reply("NotFound", <<>>) /\ UNCHANGED plan
       ELSE /\ plan' = [tp \in {x \in DOMAIN committed[ask.source] :
                                   ask.topics = {} \/ x[1] \in ask.topics} |-> committed[ask.source][tp]]
            /\ Goto("confirm")
    /\ UNCHANGED seen

-----------------------------------------------------------------------------
(* G2: the end offsets of each topic; G3: those of its topic, then all     *)
(* groups, one after the other.                                            *)
Mutant_Lag(ends, offsets, tp) == Get(ends, tp) - offsets[tp]

Lag(ends, offsets, tp) ==
    IF Get(ends, tp) < offsets[tp] THEN 0 ELSE Get(ends, tp) - offsets[tp]

Lags(ends, offsets, tps) == [tp \in tps |-> Lag(ends, offsets, tp)]

EndsOf(t) == [tp \in Of(t) |-> end[tp]]

ReadEnds ==
    /\ Reading("ends")
    /\ IF seen.todo = {}
       THEN Reply("ok", Only(ask.group, Lags(seen.ends, seen.own, DOMAIN seen.own))) /\ UNCHANGED seen
       ELSE \E t \in seen.todo :
               IF ~ Existing(t) THEN Reply("NotFound", <<>>) /\ UNCHANGED seen
               ELSE /\ seen' = [seen EXCEPT !.ends = Over(EndsOf(t), @), !.todo = @ \ {t}]
                    /\ Goto(IF ask.id = "G3" THEN "all" ELSE "ends")
    /\ UNCHANGED plan

DescribeAll ==
    /\ Reading("all")
    /\ seen' = [seen EXCEPT !.listed = SelectSeq(Ids, LAMBDA g : g \in known), !.own = <<>>]
    /\ Goto("offsets")
    /\ UNCHANGED plan

(* A group that consumes none of the topic is left out; one deleted since  *)
(* it was listed fails them all.                                           *)
FetchNext ==
    /\ Reading("offsets")
    /\ IF seen.listed = <<>> THEN Reply("ok", seen.own) /\ UNCHANGED seen
       ELSE LET g == Head(seen.listed)
                tps == DOMAIN seen.ends \cap DOMAIN committed[g]
            IN  IF g \notin known THEN Reply("NotFound", <<>>) /\ UNCHANGED seen
                ELSE /\ seen' = [seen EXCEPT !.listed = Tail(@),
                                    !.own = IF tps = {} THEN @
                                            ELSE Over(Only(g, Lags(seen.ends, committed[g], tps)), @)]
                     /\ Goto("offsets")
    /\ UNCHANGED plan

-----------------------------------------------------------------------------
(* core.Destructive, with the group's id as confirmation. *)
Confirm ==
    /\ Reading("confirm")
    /\ IF ask.dryRun THEN Reply("plan", plan)
       ELSE IF ask.confirm # ask.group THEN Reply("ConfirmationMismatch", <<>>)
       ELSE Goto("attempt")
    /\ UNCHANGED <<seen, plan>>

Attempt ==
    /\ pc = "attempt"
    /\ Goto(CASE ask.id = "G5" -> "delete" [] ask.id = "G6" -> "leave" [] OTHER -> "check")
    /\ idle' = (members[ask.group] = {})
    /\ UNCHANGED <<groupVars, ask, seen, plan, done>>

AttemptFails ==
    /\ Reading("attempt")
    /\ Reply("AuditUnavailable", <<>>)
    /\ UNCHANGED <<seen, plan>>

Mutant_CheckIdle ==
    /\ Reading("check")
    /\ Goto("commit")
    /\ UNCHANGED <<seen, plan>>

(* CommitGroupOffsets looks for members once more before it commits. *)
CheckIdle ==
    /\ Reading("check")
    /\ IF ask.group \in known /\ members[ask.group] # {} THEN Reply("GroupActive", <<>>)
       ELSE Goto("commit")
    /\ UNCHANGED <<seen, plan>>

Apply(step) == pc = step /\ UNCHANGED <<parts, begin, end, ask, seen, plan, idle>>

(* The answer to a change that took effect may be lost. *)
Applied(value) == Reply("ok", value) \/ Reply("KafkaError", <<>>)

Moves(offsets) == {<<tp, offsets[tp]>> : tp \in DOMAIN offsets}

Mutant_CommitOffsets ==
    /\ Apply("commit")
    /\ LET kept == Restrict(plan, parts \cap DOMAIN plan) IN
       /\ committed' = [committed EXCEPT ![ask.group] = Over(kept, @)]
       /\ done' = Moves(kept)
    /\ known' = known \cup {ask.group}
    /\ Applied(plan)
    /\ UNCHANGED members

(* Kafka refuses the partitions it does not know, and the first refusal    *)
(* is the error of the whole.                                              *)
CommitOffsets ==
    /\ Apply("commit")
    /\ LET kept == Restrict(plan, parts \cap DOMAIN plan) IN
       /\ committed' = [committed EXCEPT ![ask.group] = Over(kept, @)]
       /\ done' = Moves(kept)
       /\ IF kept = plan THEN Applied(plan) ELSE Reply("KafkaError", <<>>)
    /\ known' = known \cup {ask.group}
    /\ UNCHANGED members

DeleteGroup ==
    /\ Apply("delete")
    /\ LET g == ask.group IN
       IF g \notin known THEN Reply("NotFound", <<>>) /\ UNCHANGED <<known, committed, done>>
       ELSE IF members[g] # {} THEN Reply("GroupActive", <<>>) /\ UNCHANGED <<known, committed, done>>
       ELSE /\ known' = known \ {g}
            /\ committed' = [committed EXCEPT ![g] = <<>>]
            /\ done' = {g}
            /\ Applied({g})
    /\ UNCHANGED members

(* A member that is not there has an error of its own, which is dropped. *)
LeaveGroup ==
    /\ Apply("leave")
    /\ LET g == ask.group
           gone == plan \cap members[g]
       IN  IF g \notin known THEN Reply("NotFound", <<>>) /\ UNCHANGED <<members, done>>
           ELSE /\ members' = [members EXCEPT ![g] = @ \ gone]
                /\ done' = gone
                /\ Applied(gone)
    /\ UNCHANGED <<known, committed>>

ApplyFails ==
    /\ pc \in {"check", "commit", "delete", "leave"}
    /\ Reply("KafkaError", <<>>)
    /\ UNCHANGED <<groupVars, ask, seen, plan, history>>

-----------------------------------------------------------------------------
(* The others. *)
Others == moves < MaxMoves /\ pc # "done" /\ moves' = moves + 1 /\ UNCHANGED <<reqVars, done>>

Joins(g, m) ==
    /\ Others
    /\ members' = [members EXCEPT ![g] = @ \cup {m}]
    /\ known' = known \cup {g}
    /\ UNCHANGED <<parts, begin, end, committed>>

Leaves(g, m) ==
    /\ Others
    /\ m \in members[g]
    /\ members' = [members EXCEPT ![g] = @ \ {m}]
    /\ UNCHANGED <<parts, begin, end, known, committed>>

Commits(g, tp) ==
    /\ Others
    /\ members[g] # {} /\ tp \in parts
    /\ \E o \in begin[tp]..end[tp] : committed' = [committed EXCEPT ![g] = Over(Only(tp, o), @)]
    /\ UNCHANGED <<parts, begin, end, known, members>>

Produces(tp) ==
    /\ Others
    /\ tp \in parts /\ end[tp] < MaxOffset
    /\ end' = [end EXCEPT ![tp] = @ + 1]
    /\ UNCHANGED <<parts, begin, known, members, committed>>

Trims(tp) ==
    /\ Others
    /\ begin[tp] < end[tp]
    /\ begin' = [begin EXCEPT ![tp] = end[tp]]
    /\ UNCHANGED <<parts, end, known, members, committed>>

(* A topic is deleted, and created anew with fewer partitions or none;     *)
(* the offsets committed for it stay for now.                              *)
Replaced(t) ==
    /\ Others
    /\ \E left \in SUBSET Of(t) : left # Of(t) /\ parts' = (parts \ Of(t)) \cup left
    /\ begin' = [tp \in TPs |-> IF tp[1] = t THEN 0 ELSE begin[tp]]
    /\ end' = [tp \in TPs |-> IF tp[1] = t THEN 0 ELSE end[tp]]
    /\ UNCHANGED <<known, members, committed>>

(* Another operator deletes an idle group. *)
Vanishes(g) ==
    /\ Others
    /\ g \in known /\ members[g] = {}
    /\ known' = known \ {g}
    /\ committed' = [committed EXCEPT ![g] = <<>>]
    /\ UNCHANGED <<parts, begin, end, members>>

OthersMove ==
    \/ \E g \in Groups, m \in Members : Joins(g, m) \/ Leaves(g, m)
    \/ \E g \in Groups, tp \in TPs : Commits(g, tp)
    \/ \E tp \in TPs : Produces(tp) \/ Trims(tp)
    \/ \E t \in Topics : Replaced(t)
    \/ \E g \in Groups : Vanishes(g)

-----------------------------------------------------------------------------
Request ==
    \/ Handle \/ ReadFails \/ ListGroups \/ CountMembers \/ Describe \/ FetchOwn
    \/ ResetScope \/ ResetTargets \/ PlanReset \/ FetchSource \/ ReadEnds \/ DescribeAll \/ FetchNext
    \/ Confirm \/ Attempt \/ AttemptFails \/ CheckIdle
    \/ CommitOffsets \/ DeleteGroup \/ LeaveGroup \/ ApplyFails

Next ==
    /\ \/ Request /\ UNCHANGED moves
       \/ OthersMove /\ idle' = (idle \/ members'[ask.group] = {})
    /\ past' = IF Now' = Now THEN past ELSE Append(past, Now')

Spec == Init /\ [][Next]_vars
-----------------------------------------------------------------------------
(* FUNC-SPEC 8.6: a group whose offsets are reset, cloned or deleted has   *)
(* no members - at a time after the ATTEMPT, not only when it was planned, *)
(* although members join whenever they like.                               *)
IdleWhenChanged == done # {} /\ ask.id \in {"G4", "G5", "G7"} => idle

(* What the request asks of a partition, in a state of Kafka. *)
Right(tp, o, s) ==
    IF ask.id = "G7" THEN tp \in DOMAIN s.committed[ask.source] /\ s.committed[ask.source][tp] = o
    ELSE IF ask.offsets # <<>> THEN ask.offsets[tp] = o
    ELSE CASE ask.mode = "earliest" -> s.begin[tp] = o
           [] ask.mode = "latest" -> s.end[tp] = o
           [] ask.mode = "offset" -> ask.at = o \/ tp \notin s.parts
           [] ask.mode = "timestamp" -> AfterMilli(ask.at, s.begin[tp], s.end[tp], tp) = o

(* The answer tells what was done. Success of G4 and G7 means that all     *)
(* offsets of the plan are committed, each of which was right at a time    *)
(* since the request came: no partition refused, mixed up or left out;     *)
(* G6 names the members that it made leave, and no others left; and what   *)
(* is refused or planned only has changed nothing.                         *)
DoneAsTold ==
    /\ reply.code = "ok" /\ ask.id \in {"G4", "G7"} =>
           /\ done = Moves(plan)
           /\ \A tp \in DOMAIN plan : \E i \in DOMAIN past : Right(tp, plan[tp], past[i])
    /\ reply.code = "ok" /\ ask.id \in {"G5", "G6"} => done = reply.value
    /\ reply.code \notin {"", "ok", "KafkaError"} => done = {}

(* The lag shown is that of offsets the group and the topic had, never     *)
(* negative, and errs to one side: G2 reads the ends after the commits,    *)
(* G3 before them.                                                         *)
LagIsReal ==
    reply.code = "ok" /\ ask.id \in {"G2", "G3"} =>
        \A g \in DOMAIN reply.value : \A tp \in DOMAIN reply.value[g] :
            \E i, j \in DOMAIN past :
                /\ IF ask.id = "G2" THEN i <= j ELSE j <= i
                /\ tp \in DOMAIN past[i].committed[g]
                /\ LET lag == past[j].end[tp] - past[i].committed[g][tp]
                   IN  reply.value[g][tp] = IF lag < 0 THEN 0 ELSE lag
=============================================================================
