---------------------------- MODULE AdminCommand ----------------------------
(***************************************************************************)
(* What the commands of the cluster and the security services have in      *)
(* common (internal/service/core): a request that has passed its gate is   *)
(* planned, refused or previewed, announced, and applied.  A plan has what *)
(* the caller must repeat to confirm it, and the changes it lists, in the  *)
(* order in which they are made.  Sinks are left to Destructive.           *)
(***************************************************************************)
EXTENDS Integers, Sequences, FiniteSets, Functions, TLC

CONSTANTS
    Asks,      \* the requests
    MaxMoves   \* bounds what others do to the cluster while a request runs

VARIABLES
    ask,     \* the request
    pc,      \* the port call it makes next
    seen,    \* what it has read, and the items it has reported
    plan,    \* what it will do
    reply,   \* what the caller was told
    done,    \* history: the set of changes the request has made
    past,    \* history: what the cluster has held since the request came, in order
    moves    \* what others have done

reqVars == <<ask, pc, seen, plan, reply>>

NoPlan == [target |-> <<"", {}>>, changes |-> <<>>]

(* A token is a digest of the command and a set of targets. *)
Token(id, targets) == <<id, targets>>

Planned(target, changes) == plan' = [target |-> target, changes |-> changes]

Reply(code, value) == reply' = [code |-> code, value |-> value] /\ pc' = "done"

Goto(step) == pc' = step /\ UNCHANGED reply

At(step) == pc = step /\ UNCHANGED ask

Start(unseen) ==
    /\ ask \in Asks
    /\ pc = "http" /\ seen = unseen /\ plan = NoPlan
    /\ reply = [code |-> "", value |-> <<>>]
    /\ done = {} /\ moves = 0

Confirm ==
    /\ At("confirm")
    /\ IF ask.dryRun THEN Reply("plan", plan)
       ELSE IF ask.confirm # plan.target THEN Reply("ConfirmationMismatch", plan)
       ELSE Goto("attempt")
    /\ UNCHANGED <<seen, plan, done>>

Attempt ==
    /\ At("attempt")
    /\ Goto("apply") \/ Reply("AuditUnavailable", <<>>)
    /\ UNCHANGED <<seen, plan, done>>

(* A call that fails without effect fails the request, except in C12 and,  *)
(* when it is the second one of apply, leaves what was changed.            *)
CallFails ==
    /\ pc \notin {"http", "confirm", "attempt", "done"}
    /\ ~ (pc = "apply" /\ ask.id = "C12")
    /\ At(pc)
    /\ Reply("KafkaError", <<>>)
    /\ UNCHANGED <<seen, plan, done>>

Others == moves < MaxMoves /\ pc # "done" /\ moves' = moves + 1 /\ UNCHANGED <<reqVars, done>>

-----------------------------------------------------------------------------
(* Functions that change: f with the value v for k, and what is left of    *)
(* old once the values of set are put in and the keys of reset taken out.  *)
With(f, k, v) == [x \in DOMAIN f \cup {k} |-> IF x = k THEN v ELSE f[x]]

Amended(old, set, reset) ==
    [k \in (DOMAIN set \cup DOMAIN old) \ reset |-> IF k \in DOMAIN set THEN set[k] ELSE old[k]]
=============================================================================
