------------------------------ MODULE MCReplay ------------------------------
(* Two source partitions of two records, one of them still growing, copied *)
(* two records at a time.                                                  *)
EXTENDS Replay, TLC

MCPartitions == {0, 1}

MCMaxOffset == 3

MCLogs == {(0 :> [live |-> {0, 1}, hw |-> 2]) @@ (1 :> [live |-> {0, 2}, hw |-> 3])}

W(s, e) == [start |-> s, end |-> e]

AnyWindow == [start : 0..1, end : 2..3]

(* Both partitions to their end or short of it, and any one of them. *)
MCWindows ==
    {(0 :> W(0, 2)) @@ (1 :> W(0, 3))} \cup {p :> w : p \in MCPartitions, w \in AnyWindow}

B(latest) ==
    [latest |-> latest, maxMessages |-> 2, maxScanned |-> 0, maxBytes |-> 0, timed |-> FALSE,
     matcher |-> "all"]

MCBounds == {B(FALSE)}

MCLatestBounds == {B(FALSE), B(TRUE)}

MCTargets == {{0}, {0, 1}}

MCOneTarget == {{0}}

MCTwoTargets == {{0, 1}}

MCMatchers == {"all"}

MCKind == [m \in MCMatchers |-> [r \in MCPartitions \X (0..2) |-> "match"]]

MCTime == [r \in MCPartitions \X (0..2) |-> r[2]]

MCSize == [r \in MCPartitions \X (0..2) |-> 1]
=============================================================================
