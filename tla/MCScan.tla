------------------------------- MODULE MCScan -------------------------------
(* A topic of two partitions with a hole, a tail without records and a     *)
(* moving end, scanned with each kind of bound.                            *)
EXTENDS ScanProofs, TLC

MCPartitions == {0, 1}

MCMaxOffset == 3

(* Two whole logs, which others truncate; a log with a compacted hole      *)
(* beside one whose records are all gone.                                  *)
MCLogs ==
    {(0 :> [live |-> {0, 1}, hw |-> 2]) @@ (1 :> [live |-> {0, 1}, hw |-> 2]),
     (0 :> [live |-> {0, 2}, hw |-> 3]) @@ (1 :> [live |-> {}, hw |-> 2])}

W(s, e) == [start |-> s, end |-> e]

(* Whole, with a tail that may hold no record; partial, one partition from *)
(* beyond the end; nothing.                                                *)
MCWindows ==
    {(0 :> W(0, 3)) @@ (1 :> W(0, 2)),
     (0 :> W(0, 2)) @@ (1 :> W(0, 2)),
     (0 :> W(1, 2)) @@ (1 :> W(3, 1)),
     <<>>}

B(latest, m, s, b, timed) ==
    [latest |-> latest, maxMessages |-> m, maxScanned |-> s, maxBytes |-> b, timed |-> timed,
     matcher |-> "regex"]

MCBounds ==
    {B(FALSE, 2, 0, 0, TRUE), B(FALSE, 2, 2, 9, TRUE), B(FALSE, 0, 0, 4, FALSE), B(TRUE, 1, 0, 0, TRUE)}

MCMatchers == {"regex"}

MCKind ==
    [m \in MCMatchers |-> [r \in MCPartitions \X (0..2) |->
        IF r = <<0, 1>> THEN "skip" ELSE IF r = <<1, 1>> THEN "miss" ELSE "match"]]

(* Timestamps follow offsets within a partition, but not across them. *)
MCTime == [r \in MCPartitions \X (0..2) |-> IF r[1] = 1 THEN 2 ELSE r[2] + 1]

MCSize == [r \in MCPartitions \X (0..2) |-> IF r[2] = 1 THEN 3 ELSE 1]
=============================================================================
