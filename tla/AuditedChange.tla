--------------------------- MODULE AuditedChange ---------------------------
(***************************************************************************)
(* What the audit protocol promises, and nothing about how: a change is    *)
(* declared on every sink that keeps what it is given before it is made,   *)
(* and made at most once; each declared request has at most one verdict,   *)
(* "SUCCEEDED" is only said of a change that was made, and "FAILED" and    *)
(* "ITEMISED", the verdict of a command that answers item by item, promise *)
(* nothing about the cluster.  Where no sink keeps anything there is no    *)
(* declaration, and no verdict.                                            *)
(***************************************************************************)
CONSTANTS Requests, Unreported

VARIABLES
    silent,    \* no sink keeps anything
    declared,  \* the requests whose ATTEMPT every keeping sink holds
    changed,   \* the requests that changed the cluster
    verdict    \* what the sinks say of each request, or Unreported

vars == <<silent, declared, changed, verdict>>

Init ==
    /\ silent \in BOOLEAN
    /\ declared = {}
    /\ changed = {}
    /\ verdict = [r \in Requests |-> Unreported]

Declare(r) ==
    /\ ~ silent
    /\ r \notin declared
    /\ declared' = declared \cup {r}
    /\ UNCHANGED <<silent, changed, verdict>>

(* Several requests may change the cluster as their process dies. *)
Change(T) ==
    /\ T # {}
    /\ silent \/ T \subseteq declared
    /\ T \cap changed = {}
    /\ changed' = changed \cup T
    /\ UNCHANGED <<silent, declared, verdict>>

Succeed(r) ==
    /\ r \in changed
    /\ verdict[r] = Unreported
    /\ verdict' = [verdict EXCEPT ![r] = "SUCCEEDED"]
    /\ UNCHANGED <<silent, declared, changed>>

FailOrItemise(r) ==
    /\ r \in declared
    /\ verdict[r] = Unreported
    /\ \E v \in {"FAILED", "ITEMISED"} : verdict' = [verdict EXCEPT ![r] = v]
    /\ UNCHANGED <<silent, declared, changed>>

Next ==
    \/ \E r \in Requests : Declare(r) \/ Succeed(r) \/ FailOrItemise(r)
    \/ \E T \in SUBSET Requests : Change(T)

Spec == Init /\ [][Next]_vars
=============================================================================
